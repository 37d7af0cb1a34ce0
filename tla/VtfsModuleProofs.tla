--------------------------- MODULE VtfsModuleProofs ---------------------------
(***************************************************************************)
(* Proofs about VtfsModule, for any names, any bounds and, where counts    *)
(* matter, any link count wider than the number of entries.                *)
(***************************************************************************)
EXTENDS VtfsModule, FiniteSetTheorems, WellFoundedInduction, TLAPS

\* An i_nlink is wide enough for the entries there can be.
LinksFit == MaxEntries + 2 < LinkValues

-----------------------------------------------------------------------------
(***************************************************************************)
(* The inductive invariant, in two layers.  The first: what is loaded, the *)
(* tree of the entries, whose parents are older than they are, and the     *)
(* dentries over it.                                                       *)
(***************************************************************************)
Typed ==
  /\ all_entries \subseteq Pointer /\ entry \in [Pointer -> Entry]
  /\ next_ino \in Nat /\ allocs \in 0 .. MaxEntries
  /\ stage \in {"out", "http", "storage", "in"} /\ http \in BOOLEAN /\ mounted \in BOOLEAN
  /\ dentry \in [Pointer -> Inodes \cup {NoInode}] /\ drifted \subseteq Inodes

Loaded == stage \in {"storage", "in"}

Life ==
  /\ stage = "out" => ~http
  /\ mounted => stage = "in"
  /\ ~Loaded => all_entries = {}
  /\ Loaded => root \in Dirs /\ entry[root].parent = root

Tree ==
  \A e \in all_entries :
    /\ e <= allocs /\ entry[e].ino < next_ino
    /\ e # root => entry[e].parent \in Dirs /\ entry[e].parent < e

\* Only files share a number.
Numbers ==
  \A e, f \in all_entries : e # f /\ entry[e].ino = entry[f].ino => e \in Files

Shape == Typed /\ Life /\ Tree /\ Numbers /\ DentriesLive

\* The second: the counts of the entries are those of the tree, and a struct
\* inode of a file has a link for each of its dentries.
Own(d) == entry[d].nlink - Cardinality(Children(d) \cap Dirs)

Links ==
  /\ \A e \in Files : entry[e].nlink = Cardinality(WithIno(entry[e].ino))
  /\ \A d \in Dirs : Own(d) \in {1, 2}
  /\ \A e \in all_entries : entry[e].nlink <= allocs + 2

Leading(i) == {f \in Pointer : dentry[f] = i}

Covered ==
  \A e \in Files : Held(e) =>
    Cardinality(Leading(dentry[e])) <= i_nlink[dentry[e]] /\ i_nlink[dentry[e]] <= allocs + 2

Counted ==
  /\ Shape /\ i_nlink \in [Inodes -> 0 .. LinkValues - 1]
  /\ Links /\ CountsAgree /\ Covered

-----------------------------------------------------------------------------
(***************************************************************************)
(* Least elements: the oldest of a set of entries, the inode that is given *)
(* out next.                                                               *)
(***************************************************************************)
LEMMA Least ==
  ASSUME NEW S \in SUBSET Nat, S # {}
  PROVE  \E k \in S : \A j \in S : k <= j
<1> DEFINE Less == OpToRel(<, Nat)
<1>1. IsWellFoundedOn(Less, Nat)
  BY NatLessThanWellFounded
<1>2. PICK k \in S : \A j \in S : ~(<<j, k>> \in Less)
  <2> HIDE DEF Less
  <2> QED  BY <1>1, WFMin
<1>3. ASSUME NEW j \in S PROVE k <= j
  <2>1. j \in Nat /\ k \in Nat  OBVIOUS
  <2>2. ~(j < k)  BY <1>2, <2>1 DEF OpToRel
  <2> QED  BY <2>1, <2>2
<1> QED  BY <1>3

LEMMA MinFacts ==
  ASSUME NEW S \in SUBSET Nat, S # {}
  PROVE  Min(S) \in S
<1>1. \E k \in S : \A j \in S : k <= j  BY Least
<1> QED  BY <1>1 DEF Min

LEMMA PointersFinite ==
  /\ IsFiniteSet(Pointer) /\ Cardinality(Pointer) = MaxEntries + 1
  /\ IsFiniteSet(Inodes) /\ Cardinality(Inodes) = MaxEntries + 1
  /\ MaxEntries \in Nat
<1>1. MaxEntries \in Nat  BY MaxEntriesAssumption
<1>2. IsFiniteSet(Pointer) /\ Cardinality(Pointer) = MaxEntries + 1
  BY <1>1, FS_Interval DEF Pointer
<1>3. IsFiniteSet(Inodes) /\ Cardinality(Inodes) = MaxEntries + 1
  BY <1>1, FS_Interval DEF Inodes
<1> QED  BY <1>1, <1>2, <1>3

\* While an entry has no dentry there is an inode that no dentry leads to.
LEMMA FreshFacts ==
  ASSUME dentry \in [Pointer -> Inodes \cup {NoInode}], NEW e \in Pointer, ~Held(e)
  PROVE  /\ fresh \in Inodes /\ fresh # NoInode
         /\ \A f \in Pointer : dentry[f] # fresh
<1> DEFINE S == {i \in Inodes : \A f \in Pointer : dentry[f] # i}
           T == Pointer \ {e}
           Led == {dentry[f] : f \in T}
<1>1. IsFiniteSet(T) /\ Cardinality(T) = MaxEntries /\ MaxEntries \in Nat
  BY PointersFinite, FS_RemoveElement
<1>2. IsFiniteSet(Led) /\ Cardinality(Led) <= MaxEntries /\ Cardinality(Led) \in Nat
  <2>1. IsFiniteSet(Led) /\ Cardinality(Led) <= Cardinality(T)
    <3>1. [f \in T |-> dentry[f]] \in Surjection(T, Led)
      BY DEF Surjection
    <3> HIDE DEF T, Led
    <3> QED  BY <1>1, <3>1, FS_Surjection
  <2> HIDE DEF T, Led
  <2> QED  BY <1>1, <2>1, FS_CardinalityType
<1>3. S # {}
  <2> SUFFICES ASSUME S = {} PROVE FALSE
    OBVIOUS
  <2>1. Inodes \subseteq Led  BY DEF Held, Inodes, NoInode
  <2>2. Cardinality(Inodes) <= Cardinality(Led)
    <3> HIDE DEF Led
    <3> QED  BY <1>2, <2>1, FS_Subset
  <2> HIDE DEF Led
  <2> QED  BY <1>1, <1>2, <2>2, PointersFinite
<1>4. S \in SUBSET Nat  BY PointersFinite DEF Inodes
<1>5. Min(S) \in S
  <2> HIDE DEF S
  <2> QED  BY <1>3, <1>4, MinFacts
<1>6. fresh = Min(S)  BY DEF fresh
<1>7. fresh \in S  BY <1>5, <1>6
<1> HIDE DEF S, fresh
<1>8. \A i \in S : i \in Inodes /\ \A f \in Pointer : dentry[f] # i  BY DEF S
<1> QED  BY <1>7, <1>8, PointersFinite DEF Inodes, NoInode

-----------------------------------------------------------------------------
(***************************************************************************)
(* The tree and the dentries over it.                                      *)
(***************************************************************************)

\* Unloading frees every entry: the walk of the children lists reaches all.
LEMMA AllReached ==
  ASSUME Shape
  PROVE  Reached = all_entries
<1>1. ASSUME NEW S \in SUBSET all_entries, root \in S,
             \A d \in S \cap Dirs : Children(d) \subseteq S
      PROVE  all_entries \subseteq S
  <2> SUFFICES ASSUME all_entries \ S # {} PROVE FALSE
    OBVIOUS
  <2>1. all_entries \ S \in SUBSET Nat
    BY PointersFinite DEF Shape, Typed, Pointer
  <2>2. PICK e \in all_entries \ S : \A f \in all_entries \ S : e <= f
    BY <2>1, Least
  <2>3. e # root /\ entry[e].parent \in Dirs /\ entry[e].parent < e
    BY <1>1, <2>2 DEF Shape, Tree
  <2>4. entry[e].parent \in S
    <3>1. entry[e].parent \in all_entries  BY <2>3 DEF Dirs
    <3>2. all_entries \subseteq Nat
      BY PointersFinite DEF Shape, Typed, Pointer
    <3>3. entry[e].parent \in Nat /\ e \in Nat  BY <2>2, <3>1, <3>2
    <3> QED  BY <2>2, <2>3, <3>1, <3>3
  <2>5. e \in Children(entry[e].parent)
    BY <2>2, <2>3 DEF Children
  <2> QED  BY <1>1, <2>2, <2>3, <2>4, <2>5
<1> QED  BY <1>1 DEF Reached

LEMMA CleanupEmpties ==
  ASSUME Shape, Cleanup
  PROVE  all_entries' = {} /\ entry' \in [Pointer -> Entry] /\ next_ino' = 0 /\ allocs' = 0
<1>1. NotAnEntry \in Entry  BY DEF NotAnEntry, Entry
<1> QED  BY <1>1, AllReached DEF Cleanup

\* An entry's place in the tree and its number stay.
SamePlace(e) ==
  /\ entry'[e].ino = entry[e].ino /\ entry'[e].dir = entry[e].dir
  /\ entry'[e].parent = entry[e].parent

SameDentries == UNCHANGED kernel_vars /\ drifted' \subseteq Inodes

\* A new entry in a directory that is held, with a dentry to an inode of its
\* number or none.
LEMMA TreeGrows ==
  ASSUME Shape, NEW new \in Pointer, new = allocs + 1, NEW parent \in HeldDirs,
         mounted, SameDentries,
         allocs' = new, all_entries' = all_entries \cup {new},
         entry' \in [Pointer -> Entry], \A f \in all_entries : SamePlace(f),
         entry'[new].parent = parent,
         next_ino' \in {next_ino, next_ino + 1}, entry'[new].ino < next_ino',
         \A f \in all_entries :
           entry[f].ino = entry'[new].ino => f \in Files /\ ~entry'[new].dir,
         dentry' \in [Pointer -> Inodes \cup {NoInode}],
         \A f \in Pointer \ {new} :
           /\ dentry'[f] = dentry[f]
           /\ dentry'[new] # NoInode /\ dentry[f] = dentry'[new] =>
                entry[f].ino = entry'[new].ino
  PROVE  Shape'
<1>1. Typed /\ Life /\ Tree /\ Numbers /\ DentriesLive /\ MaxEntries \in Nat
  BY PointersFinite DEF Shape
<1>2. new \notin all_entries /\ parent \in all_entries /\ parent < new /\ parent # new
  <2>1. \A e \in all_entries : e \in Int /\ e <= allocs  BY <1>1 DEF Typed, Tree, Pointer
  <2>2. allocs \in Nat /\ parent \in all_entries  BY <1>1 DEF Typed, HeldDirs, Dirs
  <2> QED  BY <2>1, <2>2
<1>3. Dirs \subseteq Dirs' /\ HeldDirs \subseteq HeldDirs'
  <2>1. Dirs \subseteq Dirs'  BY DEF Dirs, SamePlace
  <2>2. \A d \in Dirs : d \in Pointer \ {new}  BY <1>1, <1>2 DEF Dirs, Typed
  <2>3. \A d \in Dirs : Held(d) => Held(d)'  BY <2>2 DEF Held
  <2> QED  BY <2>1, <2>3 DEF HeldDirs
<1>4. Typed'
  <2>1. next_ino' \in Nat /\ allocs' \in 0 .. MaxEntries
    BY <1>1 DEF Typed, Pointer
  <2> QED  BY <1>1, <2>1 DEF Typed, SameDentries, kernel_vars
<1>5. Life'
  <2>1. stage = "in" /\ root \in Dirs /\ entry[root].parent = root /\ root # new
    BY <1>1, <1>2 DEF Life, Loaded, Dirs
  <2>2. root \in Dirs' /\ entry'[root].parent = root
    BY <1>3, <2>1 DEF SamePlace, Dirs
  <2> QED  BY <1>1, <2>1, <2>2 DEF Life, Loaded, SameDentries, kernel_vars
<1>6. Tree'
  <2>1. ASSUME NEW e \in all_entries
        PROVE  /\ e <= allocs' /\ entry'[e].ino < next_ino'
               /\ e # root => entry'[e].parent \in Dirs' /\ entry'[e].parent < e
    <3>1. /\ e <= allocs /\ entry[e].ino < next_ino /\ e \in Int /\ entry[e].ino \in Nat
          /\ e # root => entry[e].parent \in Dirs /\ entry[e].parent < e
          /\ allocs \in Nat /\ next_ino \in Nat
      BY <1>1 DEF Typed, Tree, Pointer, Entry
    <3> QED  BY <1>3, <3>1 DEF SamePlace
  <2>2. new <= allocs' /\ entry'[new].parent \in Dirs' /\ entry'[new].parent < new
    BY <1>2, <1>3 DEF HeldDirs, Pointer
  <2> QED  BY <2>1, <2>2 DEF Tree
<1>7. Numbers'
  <2>1. ASSUME NEW e \in all_entries', NEW f \in all_entries', e # f,
               entry'[e].ino = entry'[f].ino
        PROVE  ~entry'[e].dir
    <3>1. CASE e \in all_entries /\ f \in all_entries
      BY <1>1, <2>1, <3>1 DEF Numbers, SamePlace, Files, Dirs
    <3>2. CASE e = new /\ f \in all_entries
      BY <2>1, <3>2 DEF SamePlace
    <3>3. CASE e \in all_entries /\ f = new
      BY <2>1, <3>3 DEF SamePlace, Files, Dirs
    <3> QED  BY <2>1, <3>1, <3>2, <3>3
  <2> QED  BY <2>1 DEF Numbers, Files, Dirs
<1>8. DentriesLive'
  <2>1. mounted'  BY DEF SameDentries, kernel_vars
  <2>2. ASSUME NEW e \in Pointer \ {new}, Held(e)
        PROVE  /\ e \in all_entries /\ entry'[e].parent \in HeldDirs'
               /\ entry'[e].ino = entry[e].ino
    BY <1>1, <1>3, <2>2 DEF DentriesLive, SamePlace
  <2>3. ASSUME NEW e \in Pointer, NEW f \in Pointer, Held(e)', dentry'[f] = dentry'[e]
        PROVE  entry'[f].ino = entry'[e].ino
    <3>1. CASE e # new /\ f # new
      <4>1. Held(e) /\ Held(f) /\ dentry[f] = dentry[e]  BY <2>3, <3>1 DEF Held
      <4>2. entry[f].ino = entry[e].ino  BY <1>1, <4>1 DEF DentriesLive
      <4> QED  BY <2>2, <3>1, <4>1, <4>2
    <3>2. CASE e = new /\ f # new
      <4>1. Held(f) /\ dentry[f] = dentry'[new]  BY <2>3, <3>2 DEF Held
      <4>2. entry[f].ino = entry'[new].ino  BY <3>2, <4>1 DEF Held
      <4> QED  BY <2>2, <3>2, <4>1, <4>2
    <3>3. CASE e # new /\ f = new
      <4>1. Held(e) /\ dentry[e] = dentry'[new]  BY <2>3, <3>3 DEF Held
      <4>2. entry[e].ino = entry'[new].ino  BY <3>3, <4>1 DEF Held
      <4> QED  BY <2>2, <3>3, <4>1, <4>2
    <3> QED  BY <3>1, <3>2, <3>3
  <2>4. ASSUME NEW e \in Pointer, Held(e)'
        PROVE  e \in all_entries' /\ entry'[e].parent \in HeldDirs'
    <3>1. CASE e = new  BY <1>3, <3>1
    <3>2. CASE e # new
      <4>1. Held(e)  BY <2>4, <3>2 DEF Held
      <4> QED  BY <2>2, <3>2, <4>1
    <3> QED  BY <3>1, <3>2
  <2> QED  BY <2>1, <2>3, <2>4 DEF DentriesLive
<1> QED  BY <1>4, <1>5, <1>6, <1>7, <1>8 DEF Shape

\* An entry without children goes, and its dentry with it.
LEMMA TreeShrinks ==
  ASSUME Shape, NEW e \in all_entries \ {root}, Children(e) = {}, SameDentries,
         all_entries' = all_entries \ {e}, UNCHANGED <<next_ino, allocs>>,
         entry' \in [Pointer -> Entry], \A f \in all_entries \ {e} : SamePlace(f),
         dentry' = [dentry EXCEPT ![e] = NoInode]
  PROVE  Shape'
<1>1. Typed /\ Life /\ Tree /\ Numbers /\ DentriesLive
  BY DEF Shape
<1>2. \A f \in all_entries \ {e} :
        f # root => entry[f].parent # e /\ entry[f].parent \in Dirs'
  BY <1>1 DEF Tree, Children, Dirs, SamePlace
<1>3. Typed'  BY <1>1 DEF Typed, SameDentries, kernel_vars
<1>4. Life'  BY <1>1 DEF Life, Loaded, SameDentries, kernel_vars, Dirs, SamePlace
<1>5. Tree'  BY <1>1, <1>2 DEF Tree, SamePlace
<1>6. Numbers'  BY <1>1 DEF Numbers, SamePlace, Files, Dirs
<1>7. DentriesLive'
  <2>1. ~Held(e)' /\ \A f \in Pointer \ {e} : dentry'[f] = dentry[f]
    BY <1>1 DEF Typed, Held
  <2>2. ASSUME NEW f \in Pointer, Held(f)'
        PROVE  /\ f # e /\ Held(f) /\ f \in all_entries' /\ mounted'
               /\ entry'[f].ino = entry[f].ino
               /\ entry'[f].parent \in HeldDirs'
    <3>1. f # e /\ Held(f)  BY <2>1, <2>2 DEF Held
    <3>2. f \in all_entries /\ mounted /\ entry[f].parent \in HeldDirs
      BY <1>1, <3>1 DEF DentriesLive
    <3>3. entry[f].parent # e
      <4>1. CASE f = root
        <5>1. Loaded  BY <1>1, <3>2 DEF Life
        <5> QED  BY <1>1, <4>1, <5>1 DEF Life
      <4>2. CASE f # root  BY <1>2, <3>1, <3>2, <4>2
      <4> QED  BY <4>1, <4>2
    <3>4. entry[f].parent \in HeldDirs'
      BY <1>1, <2>1, <3>2, <3>3 DEF HeldDirs, Dirs, SamePlace, Held, Typed
    <3> QED  BY <3>1, <3>2, <3>4 DEF SamePlace, SameDentries, kernel_vars
  <2>3. ASSUME NEW f \in Pointer, NEW g \in Pointer, Held(f)', dentry'[g] = dentry'[f]
        PROVE  entry'[g].ino = entry'[f].ino
    <3>1. Held(g)'  BY <2>3 DEF Held
    <3>2. dentry[g] = dentry[f] /\ Held(f)  BY <2>1, <2>2, <2>3, <3>1
    <3>3. entry[g].ino = entry[f].ino  BY <1>1, <3>2 DEF DentriesLive
    <3> QED  BY <2>2, <2>3, <3>1, <3>3
  <2> QED  BY <2>2, <2>3 DEF DentriesLive
<1> QED  BY <1>3, <1>4, <1>5, <1>6, <1>7 DEF Shape

-----------------------------------------------------------------------------
(***************************************************************************)
(* What the handlers make of the entries and of the dentries.              *)
(***************************************************************************)
Inserted(new, parent, isdir, links) ==
  /\ new = allocs + 1 /\ new \in Pointer /\ new \notin all_entries
  /\ allocs' = new /\ all_entries' = all_entries \cup {new} /\ next_ino' = next_ino + 1
  /\ entry' \in [Pointer -> Entry]
  /\ entry'[new].ino = next_ino /\ entry'[new].dir = isdir
  /\ entry'[new].nlink = links /\ entry'[new].parent = parent
  /\ \A f \in all_entries : SamePlace(f) /\
       entry'[f].nlink = entry[f].nlink + IF f = parent /\ isdir THEN 1 ELSE 0

LEMMA NewIsNew ==
  ASSUME Shape
  PROVE  /\ allocs + 1 \notin all_entries
         /\ allocs + 1 <= MaxEntries => allocs + 1 \in Pointer
<1>1. \A e \in all_entries : e \in Int /\ e <= allocs
  BY PointersFinite DEF Shape, Typed, Tree, Pointer
<1>2. allocs \in Nat /\ MaxEntries \in Nat
  BY PointersFinite DEF Shape, Typed
<1>3. allocs + 1 \notin all_entries
  <2> SUFFICES ASSUME allocs + 1 \in all_entries PROVE FALSE
    OBVIOUS
  <2>1. allocs + 1 <= allocs  BY <1>1
  <2> QED  BY <1>2, <2>1
<1>4. allocs + 1 <= MaxEntries => allocs + 1 \in Pointer  BY <1>2 DEF Pointer
<1> QED  BY <1>3, <1>4

LEMMA InsertFacts ==
  ASSUME Shape, NEW parent \in all_entries, NEW name \in Names, NEW isdir \in BOOLEAN,
         InsertEntry(parent, name, isdir, 0)
  PROVE  Inserted(allocs + 1, parent, isdir, 1)
<1> DEFINE new == allocs + 1
           fields == [name |-> name, ino |-> next_ino, dir |-> isdir, nlink |-> 1,
                      parent |-> parent]
<1>1. /\ new <= MaxEntries /\ allocs' = new /\ all_entries' = all_entries \cup {new}
      /\ next_ino' = next_ino + 1
      /\ entry' = [e \in Pointer |->
            CASE e = new -> fields
              [] e = parent /\ isdir -> [entry[e] EXCEPT !.nlink = @ + 1]
              [] OTHER -> entry[e]]
  BY DEF InsertEntry, InoAfter
<1>2. new \in Pointer /\ new \notin all_entries /\ parent # new
  BY <1>1, NewIsNew
<1>3. all_entries \subseteq Pointer /\ entry \in [Pointer -> Entry] /\ next_ino \in Nat
  BY DEF Shape, Typed
<1>4. fields \in Entry  BY <1>3 DEF Entry
<1>5. \A e \in Pointer : entry[e] \in Entry /\ [entry[e] EXCEPT !.nlink = @ + 1] \in Entry
  BY <1>3 DEF Entry
<1>6. entry' \in [Pointer -> Entry]
  <2> HIDE DEF fields, new
  <2> QED  BY <1>1, <1>4, <1>5
<1>7. entry'[new] = fields  BY <1>1, <1>2
<1>8. ASSUME NEW f \in all_entries
      PROVE  SamePlace(f) /\
             entry'[f].nlink = entry[f].nlink + IF f = parent /\ isdir THEN 1 ELSE 0
  <2>1. f \in Pointer /\ f # new /\ entry[f] \in Entry  BY <1>2, <1>3
  <2>2. entry'[f] = IF f = parent /\ isdir THEN [entry[f] EXCEPT !.nlink = @ + 1] ELSE entry[f]
    <3> HIDE DEF fields, new
    <3> QED  BY <1>1, <2>1
  <2> QED  BY <2>1, <2>2 DEF SamePlace, Entry
<1> QED  BY <1>1, <1>2, <1>6, <1>7, <1>8 DEF Inserted

LEMMA MkdirFacts ==
  ASSUME Shape, NEW parent \in all_entries, NEW name \in Names, Mkdir(parent, name)
  PROVE  Inserted(allocs + 1, parent, TRUE, 2)
<1> DEFINE new == allocs + 1
           fields == [name |-> name, ino |-> next_ino, dir |-> TRUE, nlink |-> 2,
                      parent |-> parent]
<1>1. /\ new <= MaxEntries /\ allocs' = new /\ all_entries' = all_entries \cup {new}
      /\ next_ino' = next_ino + 1
      /\ entry' = [entry EXCEPT ![new] = fields, ![parent].nlink = @ + 1]
  BY DEF Mkdir
<1>2. new \in Pointer /\ new \notin all_entries /\ parent # new
  BY <1>1, NewIsNew
<1>3. all_entries \subseteq Pointer /\ entry \in [Pointer -> Entry] /\ next_ino \in Nat
  BY DEF Shape, Typed
<1>4. fields \in Entry  BY <1>3 DEF Entry
<1>5. [entry[parent] EXCEPT !.nlink = @ + 1] \in Entry /\ entry[parent] \in Entry
  BY <1>3 DEF Entry
<1>6. /\ entry' \in [Pointer -> Entry] /\ entry'[new] = fields
      /\ entry'[parent] = [entry[parent] EXCEPT !.nlink = @ + 1]
      /\ \A f \in Pointer \ {new, parent} : entry'[f] = entry[f]
  <2> HIDE DEF fields, new
  <2> QED  BY <1>1, <1>2, <1>3, <1>4, <1>5
<1>7. ASSUME NEW f \in all_entries
      PROVE  SamePlace(f) /\ entry'[f].nlink = entry[f].nlink + IF f = parent THEN 1 ELSE 0
  <2>1. f \in Pointer /\ f # new /\ entry[f] \in Entry  BY <1>2, <1>3
  <2>2. entry'[f] = IF f = parent THEN [entry[f] EXCEPT !.nlink = @ + 1] ELSE entry[f]
    <3> HIDE DEF fields, new
    <3> QED  BY <1>6, <2>1
  <2> QED  BY <2>1, <2>2 DEF SamePlace, Entry
<1> QED  BY <1>1, <1>2, <1>6, <1>7 DEF Inserted

\* The entry found by number has the file's count, as every name of it has.
LinkedTo(new, e, parent, count) ==
  /\ new = allocs + 1 /\ new \in Pointer /\ new \notin all_entries
  /\ allocs' = new /\ all_entries' = all_entries \cup {new} /\ next_ino' = next_ino
  /\ entry' \in [Pointer -> Entry]
  /\ entry'[new].ino = entry[e].ino /\ entry'[new].dir = FALSE
  /\ entry'[new].nlink = count /\ entry'[new].parent = parent
  /\ \A f \in all_entries : SamePlace(f) /\
       entry'[f].nlink = IF entry[f].ino = entry[e].ino THEN count ELSE entry[f].nlink

\* A bounded nonempty set of entries has a newest.
LEMMA FirstMatches ==
  ASSUME NEW S \in SUBSET Pointer, S # {}
  PROVE  First(S) \in S
<1> DEFINE T == {k \in Nat : MaxEntries - k \in S}
<1>1. MaxEntries \in Nat  BY PointersFinite
<1>2. T \in SUBSET Nat /\ T # {}
  <2>1. PICK e \in S : TRUE  OBVIOUS
  <2>2. MaxEntries - e \in T  BY <1>1, <2>1 DEF Pointer
  <2> QED  BY <2>2
<1>3. PICK k \in T : \A j \in T : k <= j
  <2> HIDE DEF T
  <2> QED  BY <1>2, Least
<1>4. ASSUME NEW f \in S PROVE f <= MaxEntries - k
  <2>1. MaxEntries - f \in T  BY <1>1 DEF Pointer
  <2>2. k <= MaxEntries - f  BY <1>3, <2>1
  <2> QED  BY <1>1, <2>2 DEF Pointer
<1> QED  BY <1>3, <1>4 DEF First

LEMMA GetByInoFinds ==
  ASSUME Shape, NEW e \in all_entries
  PROVE  LET f == vtfs_storage_get_by_ino(entry[e].ino)
         IN  f \in all_entries /\ entry[f].ino = entry[e].ino
<1>1. WithIno(entry[e].ino) \in SUBSET Pointer /\ e \in WithIno(entry[e].ino)
  BY DEF Shape, Typed, WithIno
<1>2. First(WithIno(entry[e].ino)) \in WithIno(entry[e].ino)  BY <1>1, FirstMatches
<1> QED  BY <1>2 DEF vtfs_storage_get_by_ino, WithIno

LEMMA LinkFacts ==
  ASSUME Shape, NEW e \in all_entries, NEW parent \in all_entries, NEW name \in Names,
         Link(e, parent, name), NEW count,
         count = entry[vtfs_storage_get_by_ino(entry[e].ino)].nlink + 1
  PROVE  LinkedTo(allocs + 1, e, parent, count)
<1> DEFINE new == allocs + 1
           fields == [name |-> name, ino |-> entry[e].ino, dir |-> FALSE, nlink |-> count,
                      parent |-> parent]
<1>1. /\ new <= MaxEntries /\ allocs' = new /\ all_entries' = all_entries \cup {new}
      /\ next_ino' = next_ino
      /\ entry' = [f \in Pointer |->
           CASE f = new -> fields
             [] f \in WithIno(entry[e].ino) -> [entry[f] EXCEPT !.nlink = count]
             [] OTHER -> entry[f]]
  BY DEF Link
<1>2. new \in Pointer /\ new \notin all_entries
  BY <1>1, NewIsNew
<1>3. all_entries \subseteq Pointer /\ entry \in [Pointer -> Entry]
  BY DEF Shape, Typed
<1>4. count \in Int
  <2>1. vtfs_storage_get_by_ino(entry[e].ino) \in Pointer  BY <1>3, GetByInoFinds
  <2> QED  BY <1>3, <2>1 DEF Entry
<1>5. fields \in Entry  BY <1>3, <1>4 DEF Entry
<1>6. \A f \in Pointer : entry[f] \in Entry /\ [entry[f] EXCEPT !.nlink = count] \in Entry
  BY <1>3, <1>4 DEF Entry
<1>7. entry' \in [Pointer -> Entry]
  <2> HIDE DEF fields, new
  <2> QED  BY <1>1, <1>5, <1>6
<1>8. entry'[new] = fields
  <2>1. new \in Pointer  BY <1>2
  <2> HIDE DEF fields, new
  <2>2. entry'[new] = CASE new = new -> fields
                        [] new \in WithIno(entry[e].ino) -> [entry[new] EXCEPT !.nlink = count]
                        [] OTHER -> entry[new]
    BY <1>1, <2>1, Zenon
  <2> QED  BY <1>2, <2>2 DEF WithIno
<1>9. /\ entry'[new].ino = entry[e].ino /\ entry'[new].dir = FALSE
      /\ entry'[new].nlink = count /\ entry'[new].parent = parent
  <2> HIDE DEF new
  <2> QED  BY <1>8
<1>10. ASSUME NEW f \in all_entries
      PROVE  SamePlace(f) /\
             entry'[f].nlink = IF entry[f].ino = entry[e].ino THEN count ELSE entry[f].nlink
  <2>1. f \in Pointer /\ f # new /\ entry[f] \in Entry  BY <1>2, <1>3
  <2>2. entry'[f] = IF entry[f].ino = entry[e].ino
                    THEN [entry[f] EXCEPT !.nlink = count] ELSE entry[f]
    <3> HIDE DEF fields, new
    <3> QED  BY <1>1, <2>1 DEF WithIno
  <2> QED  BY <2>1, <2>2 DEF SamePlace, Entry
<1> QED  BY <1>1, <1>2, <1>7, <1>9, <1>10 DEF LinkedTo

\* An entry is deleted: the other names of its number, and the directory a
\* directory was in, lose a link.
Deleted(e) ==
  /\ all_entries' = all_entries \ {e} /\ UNCHANGED <<next_ino, allocs>>
  /\ entry' \in [Pointer -> Entry]
  /\ \A f \in all_entries \ {e} : SamePlace(f) /\
       entry'[f].nlink = entry[f].nlink - (IF entry[f].ino = entry[e].ino THEN 1 ELSE 0)
                                        - (IF entry[e].dir /\ f = entry[e].parent THEN 1 ELSE 0)

LEMMA DeleteFacts ==
  ASSUME Shape, NEW e \in all_entries, DeleteEntry(e)
  PROVE  Deleted(e)
<1> DEFINE Lost(f) == IF f \in all_entries \ {e} /\ entry[f].ino = entry[e].ino THEN 1 ELSE 0
           LostDir(f) == IF entry[e].dir /\ f = entry[e].parent THEN 1 ELSE 0
<1>1. /\ all_entries' = all_entries \ {e} /\ UNCHANGED <<next_ino, allocs>>
      /\ entry' = [f \in Pointer |->
            IF f = e THEN NotAnEntry
            ELSE [entry[f] EXCEPT !.nlink = @ - Lost(f) - LostDir(f)]]
  BY DEF DeleteEntry
<1>2. all_entries \subseteq Pointer /\ entry \in [Pointer -> Entry] /\ NotAnEntry \in Entry
  BY DEF Shape, Typed, NotAnEntry, Entry
<1>3. \A f \in Pointer : entry[f] \in Entry /\ entry[f].nlink \in Int
                         /\ Lost(f) \in Int /\ LostDir(f) \in Int
  <2>1. \A f \in Pointer : Lost(f) \in {0, 1} /\ LostDir(f) \in {0, 1}  OBVIOUS
  <2> HIDE DEF Lost, LostDir
  <2> QED  BY <1>2, <2>1 DEF Entry
<1>4. \A f \in Pointer : [entry[f] EXCEPT !.nlink = @ - Lost(f) - LostDir(f)] \in Entry
  <2> HIDE DEF Lost, LostDir
  <2> QED  BY <1>3 DEF Entry
<1>5. entry' \in [Pointer -> Entry]
  <2> HIDE DEF Lost, LostDir
  <2> QED  BY <1>1, <1>2, <1>4
<1>6. ASSUME NEW f \in all_entries \ {e}
      PROVE  SamePlace(f) /\ entry'[f].nlink = entry[f].nlink - Lost(f) - LostDir(f)
  <2>1. f \in Pointer /\ f # e /\ entry[f] \in Entry  BY <1>2
  <2>2. entry'[f] = [entry[f] EXCEPT !.nlink = @ - Lost(f) - LostDir(f)]
    <3> HIDE DEF Lost, LostDir
    <3> QED  BY <1>1, <2>1
  <2>3. entry[f].nlink \in Int /\ Lost(f) \in Int /\ LostDir(f) \in Int  BY <1>3, <2>1
  <2> HIDE DEF Lost, LostDir
  <2> QED  BY <2>1, <2>2, <2>3 DEF SamePlace, Entry
<1> QED  BY <1>1, <1>5, <1>6 DEF Deleted

LEMMA DentriesFacts ==
  ASSUME Typed, NEW dentries \in [Pointer -> Inodes \cup {NoInode}],
         NEW missed \in SUBSET Inodes, NEW counts, Dentries(dentries, counts, missed)
  PROVE  /\ dentry' = dentries /\ drifted' \subseteq Inodes
         /\ i_nlink' = [i \in Inodes |->
                          IF \E f \in Pointer : dentries[f] = i THEN counts[i] ELSE 0]
         /\ \A f \in Pointer : dentries[f] # NoInode =>
              (dentries[f] \in drifted' <=> dentries[f] \in drifted \cup missed)
<1> DEFINE used == {dentries[e] : e \in Pointer}
<1>1. /\ dentry' = dentries /\ drifted' = (drifted \cup missed) \cap used
      /\ i_nlink' = [i \in Inodes |-> IF i \in used THEN counts[i] ELSE 0]
  BY DEF Dentries
<1>2. \A i \in Inodes : i \in used <=> \E f \in Pointer : dentries[f] = i
  OBVIOUS
<1>3. \A f \in Pointer : dentries[f] \in used  OBVIOUS
<1>4. drifted \cup missed \subseteq Inodes  BY DEF Typed
<1> HIDE DEF used
<1> QED  BY <1>1, <1>2, <1>3, <1>4

LEMMA NewInodeFacts ==
  ASSUME Typed, NEW e \in Pointer, ~Held(e), NEW count, NEW missed,
         missed \in SUBSET Inodes \/ missed \subseteq {fresh},
         NewInode(e, count, missed)
  PROVE  /\ fresh \in Inodes /\ \A f \in Pointer : dentry[f] # fresh
         /\ dentry' = [dentry EXCEPT ![e] = fresh]
         /\ dentry' \in [Pointer -> Inodes \cup {NoInode}] /\ dentry'[e] = fresh
         /\ \A f \in Pointer \ {e} : dentry'[f] = dentry[f]
         /\ drifted' \subseteq Inodes
         /\ i_nlink' = [i \in Inodes |->
              IF \E f \in Pointer : dentry'[f] = i
              THEN [i_nlink EXCEPT ![fresh] = count][i] ELSE 0]
         /\ \A f \in Pointer : dentry'[f] # NoInode =>
              (dentry'[f] \in drifted' <=> dentry'[f] \in drifted \cup missed)
<1>1. /\ fresh \in Inodes /\ \A f \in Pointer : dentry[f] # fresh
      /\ dentry \in [Pointer -> Inodes \cup {NoInode}]
  BY FreshFacts DEF Typed
<1> HIDE DEF fresh
<1>2. missed \in SUBSET Inodes  BY <1>1
<1>3. PICK dentries : dentries = [dentry EXCEPT ![e] = fresh]
  OBVIOUS
<1>4. PICK counts : counts = [i_nlink EXCEPT ![fresh] = count]
  OBVIOUS
<1>5. Dentries(dentries, counts, missed)  BY <1>3, <1>4 DEF NewInode
<1>6. /\ dentries \in [Pointer -> Inodes \cup {NoInode}]
      /\ dentries[e] = fresh /\ \A f \in Pointer \ {e} : dentries[f] = dentry[f]
  BY <1>1, <1>3
<1>7. /\ dentry' = dentries /\ drifted' \subseteq Inodes
      /\ i_nlink' = [i \in Inodes |->
                       IF \E f \in Pointer : dentries[f] = i THEN counts[i] ELSE 0]
      /\ \A f \in Pointer : dentries[f] # NoInode =>
           (dentries[f] \in drifted' <=> dentries[f] \in drifted \cup missed)
  BY <1>2, <1>5, <1>6, DentriesFacts
<1> QED  BY <1>1, <1>3, <1>4, <1>6, <1>7

LEMMA DropFacts ==
  ASSUME Typed, NEW e \in Pointer, NEW counts, NEW missed \in SUBSET Inodes,
         Drop(e, counts, missed)
  PROVE  /\ dentry' = [dentry EXCEPT ![e] = NoInode]
         /\ dentry' \in [Pointer -> Inodes \cup {NoInode}] /\ dentry'[e] = NoInode
         /\ \A f \in Pointer \ {e} : dentry'[f] = dentry[f]
         /\ drifted' \subseteq Inodes
         /\ i_nlink' = [i \in Inodes |->
              IF \E f \in Pointer : dentry'[f] = i THEN counts[i] ELSE 0]
         /\ \A f \in Pointer : dentry'[f] # NoInode =>
              (dentry'[f] \in drifted' <=> dentry'[f] \in drifted \cup missed)
<1>1. PICK dentries : dentries = [dentry EXCEPT ![e] = NoInode]
  OBVIOUS
<1>2. /\ dentries \in [Pointer -> Inodes \cup {NoInode}]
      /\ dentries[e] = NoInode /\ \A f \in Pointer \ {e} : dentries[f] = dentry[f]
  BY <1>1 DEF Typed
<1>3. Dentries(dentries, counts, missed)  BY <1>1 DEF Drop
<1>4. /\ dentry' = dentries /\ drifted' \subseteq Inodes
      /\ i_nlink' = [i \in Inodes |->
                       IF \E f \in Pointer : dentries[f] = i THEN counts[i] ELSE 0]
      /\ \A f \in Pointer : dentries[f] # NoInode =>
           (dentries[f] \in drifted' <=> dentries[f] \in drifted \cup missed)
  BY <1>2, <1>3, DentriesFacts
<1> QED  BY <1>1, <1>2, <1>4

LEMMA PlaceFacts ==
  ASSUME Shape, NEW place \in Free
  PROVE  /\ place[1] \in HeldDirs /\ place[1] \in all_entries /\ place[1] \in Pointer
         /\ place[2] \in Names /\ dentry[place[1]] \in Inodes
BY DEF Free, HeldDirs, Dirs, Held, Shape, Typed

LEMMA OthersFacts ==
  ASSUME Shape, NEW e \in all_entries
  PROVE  Others(e) \in SUBSET Inodes
BY DEF Others, WithIno, Shape, Typed

LEMMA UnheldNew ==
  ASSUME Shape, allocs + 1 <= MaxEntries
  PROVE  allocs + 1 \in Pointer /\ ~Held(allocs + 1)
BY NewIsNew DEF Shape, DentriesLive

-----------------------------------------------------------------------------
(***************************************************************************)
(* Each step keeps the shape.                                              *)
(***************************************************************************)
LEMMA InsertedShape ==
  ASSUME Shape, NEW parent \in HeldDirs, NEW isdir \in BOOLEAN, NEW links,
         mounted, Inserted(allocs + 1, parent, isdir, links), SameDentries,
         dentry' \in [Pointer -> Inodes \cup {NoInode}],
         \A f \in Pointer \ {allocs + 1} : dentry'[f] = dentry[f],
         dentry'[allocs + 1] # NoInode =>
           \A f \in Pointer : dentry[f] # dentry'[allocs + 1]
  PROVE  Shape'
<1>1. PICK new : new = allocs + 1
  OBVIOUS
<1>2. Inserted(new, parent, isdir, links)  BY <1>1
<1>3. \A f \in all_entries : entry[f].ino # entry'[new].ino
  BY <1>2 DEF Inserted, Shape, Typed, Tree, Entry
<1>4. next_ino \in Nat /\ entry'[new].ino < next_ino'
  BY <1>2 DEF Inserted, Shape, Typed
<1> QED  BY <1>1, <1>2, <1>3, <1>4, TreeGrows DEF Inserted

LEMMA FetchShape ==
  ASSUME Shape, mounted, NEW place \in Free, NEW isdir \in BOOLEAN,
         Fetch(place[1], place[2], isdir)
  PROVE  Shape'
<1> DEFINE missed == IF isdir THEN {dentry[place[1]]} ELSE {}
<1>1. /\ place[1] \in HeldDirs /\ place[1] \in all_entries /\ place[2] \in Names
      /\ missed \in SUBSET Inodes /\ Typed
  BY PlaceFacts DEF Shape
<1>2. Inserted(allocs + 1, place[1], isdir, 1) /\ UNCHANGED kernel_vars
      /\ allocs + 1 <= MaxEntries /\ allocs' = allocs + 1
  BY <1>1, InsertFacts DEF Fetch, InsertEntry
<1>3. allocs + 1 \in Pointer /\ ~Held(allocs + 1)  BY <1>2, UnheldNew
<1>4. CASE NewInode(allocs + 1, 1, missed)
  <2>1. /\ \A f \in Pointer : dentry[f] # fresh
        /\ dentry' \in [Pointer -> Inodes \cup {NoInode}] /\ dentry'[allocs + 1] = fresh
        /\ \A f \in Pointer \ {allocs + 1} : dentry'[f] = dentry[f]
        /\ drifted' \subseteq Inodes
    BY <1>1, <1>3, <1>4, NewInodeFacts
  <2> HIDE DEF fresh
  <2> QED  BY <1>1, <1>2, <2>1, InsertedShape DEF SameDentries
<1>5. CASE drifted' = drifted \cup missed /\ UNCHANGED <<dentry, i_nlink>>
  <2>1. drifted' \subseteq Inodes /\ dentry' = dentry /\ dentry[allocs + 1] = NoInode
        /\ dentry \in [Pointer -> Inodes \cup {NoInode}]
    BY <1>1, <1>3, <1>5 DEF Typed, Held
  <2> QED  BY <1>1, <1>2, <2>1, InsertedShape DEF SameDentries
<1> HIDE DEF missed
<1>6. \/ NewInode(allocs + 1, 1, missed)
      \/ drifted' = drifted \cup missed /\ UNCHANGED <<dentry, i_nlink>>
  BY <1>2 DEF Fetch, missed
<1> QED  BY <1>4, <1>5, <1>6

LEMMA CreateShape ==
  ASSUME Shape, mounted, NEW place \in Free, Create(place[1], place[2])
  PROVE  Shape'
<1>1. /\ place[1] \in HeldDirs /\ place[1] \in all_entries /\ place[2] \in Names /\ Typed
  BY PlaceFacts DEF Shape
<1>2. Inserted(allocs + 1, place[1], FALSE, 1) /\ UNCHANGED kernel_vars
      /\ allocs + 1 <= MaxEntries /\ NewInode(allocs + 1, 1, {})
  BY <1>1, InsertFacts DEF Create, InsertEntry
<1>3. allocs + 1 \in Pointer /\ ~Held(allocs + 1)  BY <1>2, UnheldNew
<1>4. /\ \A f \in Pointer : dentry[f] # fresh
      /\ dentry' \in [Pointer -> Inodes \cup {NoInode}] /\ dentry'[allocs + 1] = fresh
      /\ \A f \in Pointer \ {allocs + 1} : dentry'[f] = dentry[f]
      /\ drifted' \subseteq Inodes
  BY <1>1, <1>2, <1>3, NewInodeFacts
<1> HIDE DEF fresh
<1> QED  BY <1>1, <1>2, <1>4, InsertedShape DEF SameDentries

\* A dentry like that of a new inode, with counts for the parent as well.
LEMMA MkdirDentries ==
  ASSUME Shape, NEW parent, NEW name, Mkdir(parent, name)
  PROVE  /\ allocs + 1 \in Pointer /\ ~Held(allocs + 1)
         /\ fresh \in Inodes /\ \A f \in Pointer : dentry[f] # fresh
         /\ dentry' = [dentry EXCEPT ![allocs + 1] = fresh]
         /\ dentry' \in [Pointer -> Inodes \cup {NoInode}] /\ dentry'[allocs + 1] = fresh
         /\ \A f \in Pointer \ {allocs + 1} : dentry'[f] = dentry[f]
         /\ drifted' \subseteq Inodes
         /\ i_nlink' = [i \in Inodes |->
              IF \E f \in Pointer : dentry'[f] = i
              THEN [ParentGains(parent) EXCEPT ![fresh] = 2][i] ELSE 0]
         /\ \A f \in Pointer : dentry'[f] # NoInode =>
              (dentry'[f] \in drifted' <=> dentry'[f] \in drifted)
<1>1. allocs + 1 \in Pointer /\ ~Held(allocs + 1) /\ Typed
  BY UnheldNew DEF Mkdir, Shape
<1>2. fresh \in Inodes /\ \A f \in Pointer : dentry[f] # fresh
  BY <1>1, FreshFacts DEF Typed
<1> HIDE DEF fresh
<1>3. PICK dentries : dentries = [dentry EXCEPT ![allocs + 1] = fresh]
  OBVIOUS
<1>4. PICK counts : counts = [ParentGains(parent) EXCEPT ![fresh] = 2]
  OBVIOUS
<1>5. Dentries(dentries, counts, {})  BY <1>3, <1>4 DEF Mkdir
<1>6. /\ dentries \in [Pointer -> Inodes \cup {NoInode}] /\ dentries[allocs + 1] = fresh
      /\ \A f \in Pointer \ {allocs + 1} : dentries[f] = dentry[f]
  BY <1>1, <1>2, <1>3 DEF Typed
<1>7. /\ dentry' = dentries /\ drifted' \subseteq Inodes
      /\ i_nlink' = [i \in Inodes |->
                       IF \E f \in Pointer : dentries[f] = i THEN counts[i] ELSE 0]
      /\ \A f \in Pointer : dentries[f] # NoInode =>
           (dentries[f] \in drifted' <=> dentries[f] \in drifted \cup {})
  BY <1>1, <1>5, <1>6, DentriesFacts
<1> QED  BY <1>1, <1>2, <1>3, <1>4, <1>6, <1>7

LEMMA MkdirShape ==
  ASSUME Shape, mounted, NEW place \in Free, Mkdir(place[1], place[2])
  PROVE  Shape'
<1>1. place[1] \in HeldDirs /\ place[1] \in all_entries /\ place[2] \in Names
  BY PlaceFacts
<1>2. Inserted(allocs + 1, place[1], TRUE, 2) /\ UNCHANGED kernel_vars
  BY <1>1, MkdirFacts DEF Mkdir
<1>3. /\ \A f \in Pointer : dentry[f] # fresh
      /\ dentry' \in [Pointer -> Inodes \cup {NoInode}] /\ dentry'[allocs + 1] = fresh
      /\ \A f \in Pointer \ {allocs + 1} : dentry'[f] = dentry[f]
      /\ drifted' \subseteq Inodes
  BY MkdirDentries
<1> HIDE DEF fresh
<1> QED  BY <1>1, <1>2, <1>3, InsertedShape DEF SameDentries

LEMMA LinkDentries ==
  ASSUME Shape, NEW e \in all_entries, NEW parent, NEW name, Link(e, parent, name)
  PROVE  /\ allocs + 1 \in Pointer /\ ~Held(allocs + 1) /\ dentry[e] \in Inodes
         /\ dentry' \in [Pointer -> Inodes \cup {NoInode}] /\ dentry'[allocs + 1] = dentry[e]
         /\ \A f \in Pointer \ {allocs + 1} : dentry'[f] = dentry[f]
         /\ drifted' \subseteq Inodes
         /\ i_nlink' = [i \in Inodes |->
              IF \E f \in Pointer : dentry'[f] = i THEN LinkGains(e)[i] ELSE 0]
         /\ \A f \in Pointer : dentry'[f] # NoInode =>
              (dentry'[f] \in drifted' <=> dentry'[f] \in drifted \cup Others(e))
<1>1. allocs + 1 \in Pointer /\ ~Held(allocs + 1) /\ Typed /\ e \in Pointer
      /\ dentry[e] \in Inodes /\ Others(e) \in SUBSET Inodes
  BY UnheldNew, OthersFacts DEF Link, Shape, Typed, Held
<1>2. PICK dentries : dentries = [dentry EXCEPT ![allocs + 1] = dentry[e]]
  OBVIOUS
<1>3. Dentries(dentries, LinkGains(e), Others(e))  BY <1>2 DEF Link
<1>4. /\ dentries \in [Pointer -> Inodes \cup {NoInode}] /\ dentries[allocs + 1] = dentry[e]
      /\ \A f \in Pointer \ {allocs + 1} : dentries[f] = dentry[f]
  BY <1>1, <1>2 DEF Typed
<1>5. /\ dentry' = dentries /\ drifted' \subseteq Inodes
      /\ i_nlink' = [i \in Inodes |->
                       IF \E f \in Pointer : dentries[f] = i THEN LinkGains(e)[i] ELSE 0]
      /\ \A f \in Pointer : dentries[f] # NoInode =>
           (dentries[f] \in drifted' <=> dentries[f] \in drifted \cup Others(e))
  BY <1>1, <1>3, <1>4, DentriesFacts
<1> QED  BY <1>1, <1>4, <1>5

LEMMA LinkShape ==
  ASSUME Shape, mounted, NEW e \in all_entries, NEW place \in Free,
         Link(e, place[1], place[2])
  PROVE  Shape'
<1>1. /\ place[1] \in HeldDirs /\ place[1] \in all_entries /\ place[2] \in Names
      /\ e \in Files /\ Held(e) /\ UNCHANGED kernel_vars /\ Shape /\ Typed
  BY PlaceFacts DEF Link, Shape
<1>2. PICK new : new = allocs + 1
  OBVIOUS
<1>3. PICK count : count = entry[vtfs_storage_get_by_ino(entry[e].ino)].nlink + 1
  OBVIOUS
<1>4. LinkedTo(new, e, place[1], count)  BY <1>1, <1>2, <1>3, LinkFacts
<1>5. /\ dentry' \in [Pointer -> Inodes \cup {NoInode}] /\ dentry'[new] = dentry[e]
      /\ \A f \in Pointer \ {new} : dentry'[f] = dentry[f]
      /\ drifted' \subseteq Inodes
  BY <1>2, LinkDentries
<1>6. \A f \in all_entries : entry[f].ino = entry[e].ino => f \in Files
  BY <1>1 DEF Shape, Numbers
<1>7. \A f \in Pointer : dentry[f] = dentry[e] => entry[f].ino = entry[e].ino
  BY <1>1 DEF Shape, Typed, DentriesLive
<1>8. entry[e].ino < next_ino /\ next_ino \in Nat
  BY <1>1 DEF Shape, Typed, Tree
<1> QED  BY <1>1, <1>2, <1>4, <1>5, <1>6, <1>7, <1>8, TreeGrows DEF LinkedTo, SameDentries

LEMMA DeletedShape ==
  ASSUME Shape, mounted, NEW e \in all_entries \ {root}, Children(e) = {}, NEW counts,
         NEW missed \in SUBSET Inodes, Deleted(e), Drop(e, counts, missed),
         UNCHANGED kernel_vars
  PROVE  Shape'
<1>1. e \in Pointer /\ Typed  BY DEF Shape, Typed
<1>2. dentry' = [dentry EXCEPT ![e] = NoInode] /\ drifted' \subseteq Inodes
  BY <1>1, DropFacts
<1> QED  BY <1>2, TreeShrinks DEF Deleted, SameDentries

\* A file has no children and is not the root.
LEMMA FileIsLeaf ==
  ASSUME Shape, NEW e \in Files, mounted
  PROVE  e \in all_entries \ {root} /\ Children(e) = {} /\ entry[e].dir = FALSE
<1>1. e \in all_entries /\ ~entry[e].dir /\ entry[e].dir \in BOOLEAN
  BY DEF Files, Dirs, Shape, Typed, Entry
<1>2. root \in Dirs  BY DEF Shape, Life, Loaded
<1>3. \A f \in all_entries \ {root} : entry[f].parent # e
  BY <1>1 DEF Shape, Tree, Dirs
<1> QED  BY <1>1, <1>2, <1>3 DEF Children, Dirs

LEMMA UnlinkShape ==
  ASSUME Shape, mounted, NEW e \in all_entries, Unlink(e)
  PROVE  Shape'
<1>1. e \in Files /\ DeleteEntry(e) /\ Drop(e, UnlinkCount(e), Others(e))
      /\ UNCHANGED kernel_vars
  BY DEF Unlink
<1>2. e \in all_entries \ {root} /\ Children(e) = {}  BY <1>1, FileIsLeaf
<1>3. Deleted(e) /\ Others(e) \in SUBSET Inodes  BY <1>1, DeleteFacts, OthersFacts
<1> QED  BY <1>1, <1>2, <1>3, DeletedShape

LEMMA RmdirShape ==
  ASSUME Shape, mounted, NEW e \in all_entries, Rmdir(e)
  PROVE  Shape'
<1>1. /\ e \in all_entries \ {root} /\ Children(e) = {} /\ DeleteEntry(e)
      /\ Drop(e, Plus(i_nlink, dentry[entry[e].parent], -1), {}) /\ UNCHANGED kernel_vars
  BY DEF Rmdir, MayRmdir
<1>2. Deleted(e)  BY <1>1, DeleteFacts
<1> QED  BY <1>1, <1>2, DeletedShape

\* The entries stay: what is left to show is that the dentries are live.
LEMMA SameEntries ==
  ASSUME Shape, UNCHANGED <<all_entries, entry, next_ino, allocs, stage, http>>,
         mounted' \in BOOLEAN, mounted' => stage = "in",
         dentry' \in [Pointer -> Inodes \cup {NoInode}], drifted' \subseteq Inodes,
         \A e \in Pointer : Held(e)' =>
           /\ mounted' /\ e \in all_entries
           /\ entry[e].parent \in Dirs /\ Held(entry[e].parent)'
           /\ \A f \in Pointer : dentry'[f] = dentry'[e] => entry[f].ino = entry[e].ino
  PROVE  Shape'
<1>1. Typed'  BY DEF Shape, Typed
<1>2. Dirs' = Dirs /\ Files' = Files  BY DEF Dirs, Files
<1>3. Life' /\ Tree' /\ Numbers'
  BY <1>2 DEF Shape, Life, Loaded, Tree, Numbers
<1>4. DentriesLive'  BY <1>2 DEF DentriesLive, HeldDirs
<1> QED  BY <1>1, <1>3, <1>4 DEF Shape

LEMMA LookupDentries ==
  ASSUME Shape, NEW e \in all_entries, Lookup(e)
  PROVE  /\ e \in Pointer /\ fresh \in Inodes /\ \A f \in Pointer : dentry[f] # fresh
         /\ dentry' \in [Pointer -> Inodes \cup {NoInode}] /\ dentry'[e] = fresh
         /\ \A f \in Pointer \ {e} : dentry'[f] = dentry[f]
         /\ drifted' \subseteq Inodes
         /\ i_nlink' = [i \in Inodes |->
              IF \E f \in Pointer : dentry'[f] = i
              THEN [i_nlink EXCEPT ![fresh] = entry[e].nlink][i] ELSE 0]
         /\ \A f \in Pointer : dentry'[f] # NoInode =>
              (dentry'[f] \in drifted' <=> dentry'[f] \in drifted)
<1>1. e \in Pointer /\ Typed /\ ~Held(e) /\ NewInode(e, entry[e].nlink, {})
  BY DEF Shape, Typed, Lookup
<1>2. {} \in SUBSET Inodes  OBVIOUS
<1> QED  BY <1>1, <1>2, NewInodeFacts

LEMMA LookupShape ==
  ASSUME Shape, mounted, NEW e \in all_entries, Lookup(e)
  PROVE  Shape'
<1>1. /\ fresh \in Inodes /\ fresh # NoInode /\ \A f \in Pointer : dentry[f] # fresh
      /\ dentry' \in [Pointer -> Inodes \cup {NoInode}] /\ dentry'[e] = fresh
      /\ \A f \in Pointer \ {e} : dentry'[f] = dentry[f]
      /\ drifted' \subseteq Inodes /\ e \in Pointer
  BY LookupDentries, PointersFinite DEF Inodes, NoInode
<1> HIDE DEF fresh
<1>2. UNCHANGED <<all_entries, entry, next_ino, allocs, stage, http, mounted>>
  BY DEF Lookup, store_vars, kernel_vars
<1>3. \A f \in Pointer : dentry[f] # NoInode => dentry'[f] # NoInode  BY <1>1
<1>4. Typed /\ Life /\ DentriesLive  BY DEF Shape
<1>5. ASSUME NEW f \in Pointer, Held(f)'
      PROVE  /\ f \in all_entries /\ entry[f].parent \in Dirs /\ Held(entry[f].parent)'
  <2>1. f \in all_entries /\ entry[f].parent \in HeldDirs
    <3>1. CASE f = e  BY <3>1 DEF Lookup
    <3>2. CASE f # e
      <4>1. Held(f)  BY <1>1, <1>5, <3>2 DEF Held
      <4> QED  BY <1>4, <4>1 DEF DentriesLive
    <3> QED  BY <3>1, <3>2
  <2>2. entry[f].parent \in Pointer  BY <1>4, <2>1 DEF HeldDirs, Dirs, Typed
  <2>3. Held(entry[f].parent)  BY <2>1 DEF HeldDirs
  <2>4. dentry'[entry[f].parent] # NoInode  BY <1>3, <2>2, <2>3 DEF Held
  <2>5. Held(entry[f].parent)'  BY <1>2, <2>4 DEF Held
  <2> QED  BY <2>1, <2>5 DEF HeldDirs
<1>6. ASSUME NEW f \in Pointer, NEW g \in Pointer, Held(f)', dentry'[g] = dentry'[f]
      PROVE  entry[g].ino = entry[f].ino
  <2>1. CASE f = e \/ g = e  BY <1>1, <1>6, <2>1
  <2>2. CASE f # e /\ g # e
    <3>1. Held(f) /\ dentry[g] = dentry[f]  BY <1>1, <1>6, <2>2 DEF Held
    <3> QED  BY <1>4, <3>1 DEF DentriesLive
  <2> QED  BY <2>1, <2>2
<1>7. mounted' = TRUE /\ stage = "in"  BY <1>2, <1>4 DEF Typed, Life
<1> QED  BY <1>1, <1>2, <1>5, <1>6, <1>7, SameEntries

LEMMA EvictShape ==
  ASSUME Shape, mounted, NEW e \in all_entries, Evict(e)
  PROVE  Shape'
<1>1. Typed /\ Life /\ Tree /\ DentriesLive /\ e \in Pointer  BY DEF Shape, Typed
<1>2. /\ UNCHANGED <<all_entries, entry, next_ino, allocs, stage, http, mounted>>
      /\ Drop(e, i_nlink, {}) /\ e # root /\ \A f \in Children(e) : ~Held(f)
  BY DEF Evict, store_vars, kernel_vars
<1>3. /\ dentry' \in [Pointer -> Inodes \cup {NoInode}] /\ dentry'[e] = NoInode
      /\ \A f \in Pointer \ {e} : dentry'[f] = dentry[f]
      /\ drifted' \subseteq Inodes
  BY <1>1, <1>2, DropFacts
<1>4. ASSUME NEW f \in Pointer, Held(f)'
      PROVE  /\ f # e /\ Held(f) /\ f \in all_entries
             /\ entry[f].parent \in Dirs /\ Held(entry[f].parent)'
  <2>1. f # e /\ Held(f)  BY <1>3, <1>4 DEF Held
  <2>2. f \in all_entries /\ entry[f].parent \in HeldDirs  BY <1>1, <2>1 DEF DentriesLive
  <2>3. entry[f].parent # e
    <3>1. CASE f = root
      <4>1. entry[root].parent = root  BY <1>1 DEF Life, Loaded
      <4> QED  BY <1>2, <3>1, <4>1
    <3>2. CASE f # root  BY <1>2, <2>1, <2>2, <3>2 DEF Children
    <3> QED  BY <3>1, <3>2
  <2>4. entry[f].parent \in Pointer  BY <1>1, <2>2 DEF HeldDirs, Dirs, Typed
  <2>5. Held(entry[f].parent)  BY <2>2 DEF HeldDirs
  <2>6. dentry'[entry[f].parent] # NoInode  BY <1>3, <2>3, <2>4, <2>5 DEF Held
  <2>7. Held(entry[f].parent)'  BY <1>2, <2>6 DEF Held
  <2> QED  BY <2>1, <2>2, <2>7 DEF HeldDirs
<1>5. ASSUME NEW f \in Pointer, NEW g \in Pointer, Held(f)', dentry'[g] = dentry'[f]
      PROVE  entry[g].ino = entry[f].ino
  <2>1. Held(g)'  BY <1>5 DEF Held
  <2>2. g # e /\ f # e /\ Held(f)  BY <1>4, <1>5, <2>1
  <2>3. dentry[g] = dentry[f]  BY <1>3, <1>5, <2>2
  <2> QED  BY <1>1, <2>2, <2>3 DEF DentriesLive
<1>6. mounted' = TRUE /\ stage = "in"  BY <1>1, <1>2 DEF Typed, Life
<1> QED  BY <1>2, <1>3, <1>4, <1>5, <1>6, SameEntries

LEMMA MountDentries ==
  ASSUME Shape, Mount
  PROVE  /\ root \in Pointer /\ \A f \in Pointer : dentry[f] = NoInode
         /\ fresh \in Inodes
         /\ dentry' \in [Pointer -> Inodes \cup {NoInode}] /\ dentry'[root] = fresh
         /\ \A f \in Pointer \ {root} : dentry'[f] = NoInode
         /\ drifted' \subseteq Inodes
         /\ i_nlink' = [i \in Inodes |->
              IF \E f \in Pointer : dentry'[f] = i
              THEN [i_nlink EXCEPT ![fresh] = 2][i] ELSE 0]
         /\ fresh \notin drifted' => entry[root].nlink = 2
<1>1. Typed /\ DentriesLive /\ ~mounted /\ root \in Pointer
  BY PointersFinite DEF Shape, Mount, Pointer, root
<1>2. \A f \in Pointer : ~Held(f)  BY <1>1 DEF DentriesLive
<1>3. PICK missed : missed = IF entry[root].nlink = 2 THEN {} ELSE {fresh}
  OBVIOUS
<1>4. NewInode(root, 2, missed) /\ missed \subseteq {fresh}  BY <1>3 DEF Mount
<1>5. /\ fresh \in Inodes
      /\ dentry' \in [Pointer -> Inodes \cup {NoInode}] /\ dentry'[root] = fresh
      /\ \A f \in Pointer \ {root} : dentry'[f] = dentry[f]
      /\ drifted' \subseteq Inodes
      /\ i_nlink' = [i \in Inodes |->
           IF \E f \in Pointer : dentry'[f] = i
           THEN [i_nlink EXCEPT ![fresh] = 2][i] ELSE 0]
      /\ \A f \in Pointer : dentry'[f] # NoInode =>
           (dentry'[f] \in drifted' <=> dentry'[f] \in drifted \cup missed)
  BY <1>1, <1>2, <1>4, NewInodeFacts
<1> HIDE DEF fresh
<1>6. fresh # NoInode  BY <1>5, PointersFinite DEF Inodes, NoInode
<1>7. fresh \notin drifted' => entry[root].nlink = 2
  BY <1>1, <1>3, <1>5, <1>6
<1> QED  BY <1>1, <1>2, <1>5, <1>7 DEF Held

LEMMA MountShape ==
  ASSUME Shape, Mount
  PROVE  Shape'
<1>1. /\ root \in Pointer /\ fresh \in Inodes
      /\ dentry' \in [Pointer -> Inodes \cup {NoInode}] /\ dentry'[root] = fresh
      /\ \A f \in Pointer \ {root} : dentry'[f] = NoInode
      /\ drifted' \subseteq Inodes
  BY MountDentries
<1> HIDE DEF fresh
<1>2. /\ UNCHANGED <<all_entries, entry, next_ino, allocs, stage, http>>
      /\ mounted' = TRUE /\ stage = "in"
  BY DEF Mount, store_vars
<1>3. root \in Dirs /\ entry[root].parent = root /\ root \in all_entries
  BY <1>2 DEF Shape, Life, Loaded, Dirs
<1>4. fresh # NoInode  BY <1>1, PointersFinite DEF Inodes, NoInode
<1>5. \A f \in Pointer : Held(f)' <=> f = root  BY <1>1, <1>4 DEF Held
<1>6. \A f \in Pointer : dentry'[f] = dentry'[root] => f = root  BY <1>1, <1>4
<1> QED  BY <1>1, <1>2, <1>3, <1>5, <1>6, SameEntries

LEMMA UnmountShape ==
  ASSUME Shape, Unmount
  PROVE  Shape'
<1>1. /\ UNCHANGED <<all_entries, entry, next_ino, allocs, stage, http>>
      /\ mounted' = FALSE /\ dentry' = NoDentries /\ drifted' = {}
  BY DEF Unmount, store_vars
<1>2. dentry' \in [Pointer -> Inodes \cup {NoInode}] /\ \A f \in Pointer : ~Held(f)'
  BY <1>1 DEF NoDentries, Held
<1> QED  BY <1>1, <1>2, SameEntries

LEMMA UndoneShape ==
  ASSUME Shape, NEW parent, NEW name, Undone(parent, name)
  PROVE  Shape'
<1>1. /\ allocs + 1 <= MaxEntries /\ allocs' = allocs + 1 /\ next_ino' = next_ino + 1
      /\ UNCHANGED <<all_entries, entry, stage, http, mounted, dentry, i_nlink, drifted>>
  BY PointersFinite DEF Undone, kernel_vars, inode_vars, Shape, Typed
<1>2. Typed'  BY <1>1, PointersFinite DEF Shape, Typed
<1>3. Dirs' = Dirs /\ Files' = Files /\ HeldDirs' = HeldDirs
  BY <1>1 DEF Dirs, Files, HeldDirs, Held
<1>4. Life' /\ Numbers' /\ DentriesLive'
  BY <1>1, <1>3 DEF Shape, Life, Loaded, Numbers, DentriesLive, Held
<1>5. Tree'
  <2>1. \A e \in all_entries : e \in Int /\ entry[e].ino \in Nat
    BY PointersFinite DEF Shape, Typed, Pointer, Entry
  <2>2. allocs \in Nat /\ next_ino \in Nat  BY DEF Shape, Typed
  <2> QED  BY <1>1, <1>3, <2>1, <2>2 DEF Shape, Tree
<1> QED  BY <1>2, <1>4, <1>5 DEF Shape

\* Loading and unloading, where nothing is mounted.
LEMMA LifeShape ==
  ASSUME Shape,
         \/ InitHttp \/ InitStorage \/ StorageFails \/ Register \/ RegisterFails \/ vtfs_exit
  PROVE  Shape'
<1>1. Typed /\ Life /\ Tree /\ Numbers /\ DentriesLive /\ root \in Pointer
  BY PointersFinite DEF Shape, Pointer, root
<1>2. UNCHANGED <<mounted, dentry, drifted>> /\ ~mounted
  BY <1>1
  DEF InitHttp, InitStorage, StorageFails, Register, RegisterFails, vtfs_exit, Gone,
      inode_vars, Life, MayUnload
<1>3. \A e \in Pointer : ~Held(e) /\ ~Held(e)'  BY <1>1, <1>2 DEF DentriesLive, Held
<1>4. CASE InitStorage
  <2>1. /\ stage' = "storage" /\ http' = http /\ all_entries' = {root}
        /\ entry' = [entry EXCEPT ![root] = Root] /\ next_ino' = 1001 /\ allocs' = 0
    BY <1>4 DEF InitStorage, VTFS_ROOT_INO
  <2>2. Root \in Entry /\ Root.dir = TRUE /\ Root.parent = root /\ Root.ino = 1000
    BY <1>1 DEF Root, Entry, VTFS_ROOT_INO
  <2>3. entry' \in [Pointer -> Entry] /\ entry'[root] = Root
    BY <1>1, <2>1, <2>2 DEF Typed
  <2>4. Typed'  BY <1>1, <1>2, <2>1, <2>3, PointersFinite DEF Typed
  <2>5. Life' /\ Tree' /\ Numbers'
    <3>1. root \in Dirs'  BY <2>1, <2>2, <2>3 DEF Dirs
    <3> QED  BY <1>2, <2>1, <2>2, <2>3, <3>1 DEF Life, Loaded, Tree, Numbers, root
  <2> QED  BY <1>3, <2>4, <2>5 DEF Shape, DentriesLive
<1>5. CASE RegisterFails \/ vtfs_exit
  <2>1. Cleanup /\ stage' = "out" /\ http' = FALSE
    BY <1>5 DEF RegisterFails, vtfs_exit, Gone
  <2>2. all_entries' = {} /\ entry' \in [Pointer -> Entry] /\ next_ino' = 0 /\ allocs' = 0
    BY <2>1, CleanupEmpties
  <2>3. Typed'
    <3>1. next_ino' \in Nat /\ allocs' \in 0 .. MaxEntries  BY <2>2, PointersFinite
    <3>2. http' \in BOOLEAN /\ mounted' \in BOOLEAN  BY <1>1, <1>2, <2>1 DEF Typed
    <3> QED  BY <1>1, <1>2, <2>1, <2>2, <3>1, <3>2 DEF Typed
  <2>4. Life' /\ Tree' /\ Numbers'
    BY <1>2, <2>1, <2>2 DEF Life, Loaded, Tree, Numbers
  <2> QED  BY <1>3, <2>3, <2>4 DEF Shape, DentriesLive
<1>6. CASE InitHttp \/ StorageFails \/ Register
  <2>1. /\ UNCHANGED <<all_entries, entry, next_ino, allocs>>
        /\ \/ stage = "out" /\ stage' = "http" /\ http' = TRUE
           \/ stage = "http" /\ stage' = "out" /\ http' = FALSE
           \/ stage = "storage" /\ stage' = "in" /\ http' = http
    BY <1>6 DEF InitHttp, StorageFails, Register, Gone, store_vars
  <2>2. Typed'  BY <1>1, <1>2, <2>1 DEF Typed
  <2>3. Dirs' = Dirs /\ Files' = Files  BY <2>1 DEF Dirs, Files
  <2>4. Life' /\ Tree' /\ Numbers'
    BY <1>1, <1>2, <2>1, <2>3 DEF Life, Loaded, Tree, Numbers
  <2> QED  BY <1>3, <2>2, <2>4 DEF Shape, DentriesLive
<1> QED  BY <1>4, <1>5, <1>6

LEMMA HandlersShape ==
  ASSUME Shape, mounted, Handlers
  PROVE  Shape'
<1>1. CASE \E e \in all_entries : Evict(e) \/ Lookup(e) \/ Unlink(e) \/ Rmdir(e)
  BY <1>1, EvictShape, LookupShape, UnlinkShape, RmdirShape
<1>2. ASSUME NEW place \in Free,
             \/ \E isdir \in BOOLEAN : Fetch(place[1], place[2], isdir)
             \/ Create(place[1], place[2]) \/ Mkdir(place[1], place[2])
             \/ Undone(place[1], place[2])
             \/ \E e \in all_entries : Link(e, place[1], place[2])
      PROVE  Shape'
  BY <1>2, FetchShape, CreateShape, MkdirShape, UndoneShape, LinkShape
<1> QED  BY <1>1, <1>2 DEF Handlers

LEMMA ShapeInductive == Shape /\ [Next]_vars => Shape'
<1> SUFFICES ASSUME Shape, [Next]_vars PROVE Shape'
  OBVIOUS
<1>1. CASE UNCHANGED vars
  <2>1. UNCHANGED <<all_entries, entry, next_ino, allocs, stage, http, mounted, dentry, drifted>>
    BY <1>1 DEF vars, store_vars, kernel_vars, inode_vars
  <2>2. \A e : Held(e)' <=> Held(e)  BY <2>1 DEF Held
  <2>3. Typed /\ Life /\ DentriesLive  BY DEF Shape
  <2>4. \A e \in Pointer : Held(e)' =>
          /\ mounted' /\ e \in all_entries
          /\ entry[e].parent \in Dirs /\ Held(entry[e].parent)'
          /\ \A f \in Pointer : dentry'[f] = dentry'[e] => entry[f].ino = entry[e].ino
    BY <2>1, <2>2, <2>3 DEF DentriesLive, HeldDirs
  <2>5. mounted' \in BOOLEAN /\ (mounted' => stage = "in")
    BY <2>1, <2>3 DEF Typed, Life
  <2>6. dentry' \in [Pointer -> Inodes \cup {NoInode}] /\ drifted' \subseteq Inodes
    BY <2>1, <2>3 DEF Typed
  <2> QED  BY <2>1, <2>4, <2>5, <2>6, SameEntries
<1> QED
  BY <1>1, LifeShape, MountShape, UnmountShape, HandlersShape DEF Next

LEMMA ShapeInitially == Init => Shape
<1> SUFFICES ASSUME Init PROVE Shape
  OBVIOUS
<1>1. NotAnEntry \in Entry  BY DEF NotAnEntry, Entry
<1>2. Typed
  <2>1. next_ino \in Nat /\ allocs \in 0 .. MaxEntries  BY PointersFinite DEF Init
  <2>2. http \in BOOLEAN /\ mounted \in BOOLEAN  BY DEF Init
  <2> QED  BY <1>1, <2>1, <2>2 DEF Init, Typed, NoDentries
<1>3. \A e \in Pointer : ~Held(e)  BY DEF Init, NoDentries, Held
<1> QED  BY <1>2, <1>3 DEF Init, Shape, Life, Loaded, Tree, Numbers, DentriesLive

LEMMA ShapeInvariance == Spec => []Shape
BY ShapeInitially, ShapeInductive, PTL DEF Spec

\* After an unload, or a load that failed half way, nothing is left
\* (vtfs_exit, the error paths of vtfs_init, vtfs_storage_cleanup).
THEOREM NothingIsLeft == Spec => []NothingLeft
<1>1. Shape => NothingLeft
  BY DEF Shape, Life, Loaded, DentriesLive, NothingLeft
<1> QED  BY <1>1, ShapeInvariance, PTL

\* A dentry that is held leads to an entry that is there, in a directory that
\* is held too, and the names that share an inode share its number
\* (vtfs_lookup, vtfs_link, the removals, and the kernel's dentry cache).
THEOREM DentriesAlwaysLive == Spec => []DentriesLive
<1>1. Shape => DentriesLive  BY DEF Shape
<1> QED  BY <1>1, ShapeInvariance, PTL

-----------------------------------------------------------------------------
(***************************************************************************)
(* Sets of pointers, and counts below the width of an i_nlink.             *)
(***************************************************************************)
LEMMA SomePointers ==
  ASSUME NEW S \in SUBSET Pointer
  PROVE  IsFiniteSet(S) /\ Cardinality(S) \in Nat
BY PointersFinite, FS_Subset, FS_CardinalityType

LEMMA OneMore ==
  ASSUME NEW S \in SUBSET Pointer, NEW e, e \notin S
  PROVE  Cardinality(S \cup {e}) = Cardinality(S) + 1
BY SomePointers, FS_AddElement

LEMMA OneLess ==
  ASSUME NEW S \in SUBSET Pointer, NEW e \in S
  PROVE  Cardinality(S \ {e}) = Cardinality(S) - 1 /\ Cardinality(S) >= 1
<1>1. Cardinality(S \ {e}) = Cardinality(S) - 1  BY SomePointers, FS_RemoveElement
<1>2. Cardinality(S \ {e}) \in Nat /\ Cardinality(S) \in Nat  BY SomePointers
<1> QED  BY <1>1, <1>2

LEMMA Wrapped ==
  ASSUME NEW count \in Int
  PROVE  /\ count % LinkValues \in 0 .. LinkValues - 1
         /\ count \in 0 .. LinkValues - 1 => count % LinkValues = count
BY LinkValuesAssumption

\* inc_nlink and drop_nlink of one inode; the others keep their count.
LEMMA PlusFacts ==
  ASSUME i_nlink \in [Inodes -> 0 .. LinkValues - 1], NEW i \in Inodes, NEW n \in {1, -1}
  PROVE  /\ Plus(i_nlink, i, n) \in [Inodes -> 0 .. LinkValues - 1]
         /\ \A j \in Inodes \ {i} : Plus(i_nlink, i, n)[j] = i_nlink[j]
         /\ i_nlink[i] + n \in 0 .. LinkValues - 1 =>
              Plus(i_nlink, i, n)[i] = i_nlink[i] + n
<1>1. i_nlink[i] + n \in Int  BY LinkValuesAssumption
<1>2. PICK value : value = (i_nlink[i] + n) % LinkValues
  OBVIOUS
<1>3. /\ value \in 0 .. LinkValues - 1
      /\ i_nlink[i] + n \in 0 .. LinkValues - 1 => value = i_nlink[i] + n
  BY <1>1, <1>2, Wrapped
<1>4. Plus(i_nlink, i, n) = [i_nlink EXCEPT ![i] = value]  BY <1>2 DEF Plus
<1> QED  BY <1>3, <1>4

-----------------------------------------------------------------------------
(***************************************************************************)
(* The counts of the entries.                                              *)
(***************************************************************************)
LEMMA EntrySets ==
  ASSUME Typed
  PROVE  /\ all_entries \in SUBSET Pointer /\ Files \in SUBSET all_entries
         /\ Dirs \in SUBSET all_entries /\ allocs \in Nat
         /\ \A e \in all_entries : entry[e].nlink \in Int /\ entry[e].ino \in Nat
         /\ \A x : /\ Children(x) \in SUBSET Pointer
                   /\ Children(x) \cap Dirs \in SUBSET Pointer
                   /\ WithIno(x) \in SUBSET Pointer
                   /\ Cardinality(Children(x) \cap Dirs) \in Nat
                   /\ Cardinality(WithIno(x)) \in Nat
<1>1. /\ all_entries \in SUBSET Pointer /\ Files \in SUBSET all_entries
      /\ Dirs \in SUBSET all_entries /\ allocs \in Nat
      /\ \A e \in all_entries : entry[e].nlink \in Int /\ entry[e].ino \in Nat
  BY DEF Typed, Files, Dirs, Entry
<1>2. ASSUME NEW x
      PROVE  /\ Children(x) \in SUBSET Pointer
             /\ Children(x) \cap Dirs \in SUBSET Pointer
             /\ WithIno(x) \in SUBSET Pointer
  BY <1>1 DEF Children, WithIno
<1>3. ASSUME NEW x
      PROVE  /\ Cardinality(Children(x) \cap Dirs) \in Nat
             /\ Cardinality(WithIno(x)) \in Nat
  BY <1>2, SomePointers
<1> QED  BY <1>1, <1>2, <1>3

LEMMA InsertedLinks ==
  ASSUME Shape, Links, NEW new, NEW parent \in Dirs, NEW isdir \in BOOLEAN,
         NEW links \in {1, 2}, ~isdir => links = 1, Loaded,
         Inserted(new, parent, isdir, links)
  PROVE  Links'
<1>1. /\ Typed /\ Tree /\ Life /\ Numbers /\ root \in Dirs
      /\ new \notin all_entries /\ parent \in all_entries /\ parent # new /\ root # new
      /\ all_entries' = all_entries \cup {new} /\ allocs' = allocs + 1 /\ allocs \in Nat
  BY DEF Shape, Inserted, Dirs, Life, Typed
<1>2. /\ entry'[new].ino = next_ino /\ entry'[new].dir = isdir
      /\ entry'[new].nlink = links /\ entry'[new].parent = parent
  BY DEF Inserted
<1>3. \A f \in all_entries :
        /\ entry'[f].ino = entry[f].ino /\ entry'[f].dir = entry[f].dir
        /\ entry'[f].parent = entry[f].parent /\ entry[f].ino # next_ino
        /\ entry'[f].nlink = entry[f].nlink + IF f = parent /\ isdir THEN 1 ELSE 0
        /\ entry[f].nlink \in Int
  BY <1>1, EntrySets DEF Inserted, SamePlace, Tree, Typed
<1>4. /\ Dirs' = Dirs \cup (IF isdir THEN {new} ELSE {})
      /\ Files' = Files \cup (IF isdir THEN {} ELSE {new})
  BY <1>1, <1>2, <1>3 DEF Files, Dirs
<1>5. ASSUME NEW e \in Files'
      PROVE  entry'[e].nlink = Cardinality(WithIno(entry[e].ino))'
  <2>1. CASE e = new
    <3>1. ~isdir  BY <1>1, <1>2, <1>5, <2>1 DEF Files, Dirs
    <3>2. WithIno(entry[new].ino)' = {new}  BY <1>1, <1>2, <1>3 DEF WithIno
    <3>3. Cardinality({new}) = 1  BY FS_Singleton
    <3> QED  BY <1>2, <2>1, <3>1, <3>2, <3>3
  <2>2. CASE e \in Files
    <3>1. e \in all_entries /\ e # parent  BY <2>2 DEF Files
    <3>2. WithIno(entry[e].ino)' = WithIno(entry[e].ino)
      BY <1>1, <1>2, <1>3, <3>1 DEF WithIno
    <3>3. entry'[e].nlink = entry[e].nlink  BY <1>3, <3>1
    <3> QED  BY <2>2, <3>2, <3>3 DEF Links
  <2> QED  BY <1>4, <1>5, <2>1, <2>2
<1>6. ASSUME NEW d \in Dirs'
      PROVE  Own(d)' \in {1, 2}
  <2>1. CASE d = new
    <3>1. Children(new)' = {}
      BY <1>1, <1>2, <1>3 DEF Children, Tree, Dirs
    <3>2. Cardinality(Children(new) \cap Dirs)' = 0  BY <3>1, FS_EmptySet
    <3> QED  BY <1>2, <2>1, <3>2 DEF Own
  <2>2. CASE d \in Dirs
    <3>1. d \in all_entries /\ Own(d) \in {1, 2} /\ entry[d].nlink \in Int
      BY <1>3, <2>2 DEF Dirs, Links
    <3>2. CASE d = parent /\ isdir
      <4>1. (Children(d) \cap Dirs)' = (Children(d) \cap Dirs) \cup {new}
        BY <1>1, <1>2, <1>3, <1>4, <3>2 DEF Children
      <4>2. /\ Children(d) \cap Dirs \in SUBSET Pointer /\ new \notin Children(d) \cap Dirs
            /\ Cardinality(Children(d) \cap Dirs) \in Nat
        BY <1>1, EntrySets DEF Children
      <4>3. Cardinality(Children(d) \cap Dirs)' = Cardinality(Children(d) \cap Dirs) + 1
        BY <4>1, <4>2, OneMore
      <4>4. entry'[d].nlink = entry[d].nlink + 1  BY <1>3, <3>1, <3>2
      <4> QED  BY <3>1, <4>2, <4>3, <4>4 DEF Own
    <3>3. CASE ~(d = parent /\ isdir)
      <4>1. (Children(d) \cap Dirs)' = Children(d) \cap Dirs
        <5>1. Children(d)' = Children(d) \cup (IF d = parent THEN {new} ELSE {})
          BY <1>1, <1>2, <1>3 DEF Children
        <5>2. new \notin Children(d) /\ new \notin Dirs  BY <1>1 DEF Children, Dirs
        <5> QED  BY <1>4, <3>3, <5>1, <5>2
      <4>2. entry'[d].nlink = entry[d].nlink  BY <1>3, <3>1, <3>3
      <4> QED  BY <3>1, <4>1, <4>2 DEF Own
    <3> QED  BY <3>2, <3>3
  <2> QED  BY <1>4, <1>6, <2>1, <2>2
<1>7. ASSUME NEW e \in all_entries'
      PROVE  entry'[e].nlink <= allocs' + 2
  <2>1. CASE e = new  BY <1>1, <1>2, <2>1
  <2>2. CASE e \in all_entries
    <3>1. entry[e].nlink <= allocs + 2  BY <2>2 DEF Links
    <3>2. \/ entry'[e].nlink = entry[e].nlink + 1
          \/ entry'[e].nlink = entry[e].nlink + 0
      BY <1>3, <2>2
    <3>3. entry[e].nlink \in Int  BY <1>3, <2>2
    <3> QED  BY <1>1, <3>1, <3>2, <3>3
  <2> QED  BY <1>1, <1>7, <2>1, <2>2
<1> QED  BY <1>5, <1>6, <1>7 DEF Links

LEMMA LinkedLinks ==
  ASSUME Shape, Links, Loaded, NEW new, NEW e \in Files, NEW parent \in Dirs, NEW count,
         count = entry[e].nlink + 1, LinkedTo(new, e, parent, count)
  PROVE  Links'
<1>1. /\ Typed /\ Tree /\ Life /\ Numbers
      /\ new \notin all_entries /\ parent \in all_entries /\ parent # new
      /\ e \in all_entries /\ e # new
      /\ all_entries' = all_entries \cup {new} /\ allocs' = allocs + 1 /\ allocs \in Nat
  BY DEF Shape, LinkedTo, Dirs, Files, Typed
<1>2. /\ entry'[new].ino = entry[e].ino /\ entry'[new].dir = FALSE
      /\ entry'[new].nlink = count /\ entry'[new].parent = parent
  BY DEF LinkedTo
<1>3. \A f \in all_entries :
        /\ entry'[f].ino = entry[f].ino /\ entry'[f].dir = entry[f].dir
        /\ entry'[f].parent = entry[f].parent
        /\ entry'[f].nlink = IF entry[f].ino = entry[e].ino THEN count ELSE entry[f].nlink
        /\ entry[f].nlink \in Int
  BY <1>1, EntrySets DEF LinkedTo, SamePlace
<1>4. Dirs' = Dirs /\ Files' = Files \cup {new}
  BY <1>1, <1>2, <1>3 DEF Files, Dirs
<1>5. count = Cardinality(WithIno(entry[e].ino))'
  <2>1. WithIno(entry[e].ino)' = WithIno(entry[e].ino) \cup {new}
    BY <1>1, <1>2, <1>3 DEF WithIno
  <2>2. WithIno(entry[e].ino) \in SUBSET Pointer /\ new \notin WithIno(entry[e].ino)
    BY <1>1, EntrySets DEF WithIno
  <2>3. Cardinality(WithIno(entry[e].ino) \cup {new}) = Cardinality(WithIno(entry[e].ino)) + 1
    BY <2>2, OneMore
  <2>4. entry[e].nlink = Cardinality(WithIno(entry[e].ino))  BY DEF Links
  <2> QED  BY <2>1, <2>3, <2>4
<1>6. ASSUME NEW f \in Files'
      PROVE  entry'[f].nlink = Cardinality(WithIno(entry[f].ino))'
  <2>1. CASE entry'[f].ino = entry[e].ino
    <3>1. entry'[f].nlink = count  BY <1>1, <1>2, <1>3, <1>6, <2>1 DEF Files
    <3>2. entry'[e].ino = entry'[f].ino  BY <1>1, <1>3, <2>1
    <3>3. WithIno(entry[f].ino)' = WithIno(entry[e].ino)'  BY <3>2 DEF WithIno
    <3> QED  BY <1>5, <3>1, <3>3
  <2>2. CASE entry'[f].ino # entry[e].ino
    <3>1. f \in Files /\ f \in all_entries  BY <1>2, <1>4, <1>6, <2>2 DEF Files
    <3>2. WithIno(entry[f].ino)' = WithIno(entry[f].ino)
      BY <1>1, <1>2, <1>3, <2>2, <3>1 DEF WithIno
    <3>3. entry'[f].nlink = entry[f].nlink  BY <1>3, <2>2, <3>1
    <3> QED  BY <3>1, <3>2, <3>3 DEF Links
  <2> QED  BY <2>1, <2>2
<1>7. ASSUME NEW d \in Dirs
      PROVE  Own(d)' \in {1, 2}
  <2>1. d \in all_entries /\ Own(d) \in {1, 2} /\ d # e
    BY DEF Dirs, Files, Links
  <2>2. entry[d].ino # entry[e].ino
    BY <1>1, <2>1 DEF Numbers, Files
  <2>3. (Children(d) \cap Dirs)' = Children(d) \cap Dirs
    BY <1>1, <1>3, <1>4 DEF Children, Dirs
  <2>4. entry'[d].nlink = entry[d].nlink  BY <1>3, <2>1, <2>2
  <2> QED  BY <2>1, <2>3, <2>4 DEF Own
<1>8. ASSUME NEW f \in all_entries'
      PROVE  entry'[f].nlink <= allocs' + 2
  <2>1. count <= allocs' + 2
    <3>1. entry[e].nlink <= allocs + 2 /\ entry[e].nlink \in Int  BY <1>1, <1>3 DEF Links
    <3> QED  BY <1>1, <3>1
  <2>2. CASE f = new  BY <1>2, <2>1, <2>2
  <2>3. CASE f \in all_entries
    <3>1. entry[f].nlink <= allocs + 2 /\ entry[f].nlink \in Int  BY <1>3, <2>3 DEF Links
    <3>2. entry'[f].nlink = count \/ entry'[f].nlink = entry[f].nlink  BY <1>3, <2>3
    <3> QED  BY <1>1, <2>1, <3>1, <3>2
  <2> QED  BY <1>1, <1>8, <2>2, <2>3
<1> QED  BY <1>4, <1>6, <1>7, <1>8 DEF Links

LEMMA DeletedLinks ==
  ASSUME Shape, Links, NEW e \in all_entries \ {root}, Children(e) = {}, Deleted(e)
  PROVE  Links'
<1>1. /\ Typed /\ Tree /\ Numbers /\ e \in all_entries
      /\ all_entries' = all_entries \ {e} /\ allocs' = allocs /\ allocs \in Nat
      /\ entry[e].parent \in Dirs /\ entry[e].parent < e /\ e \in Int
  BY PointersFinite DEF Shape, Deleted, Typed, Tree, Pointer
<1>2. \A f \in all_entries \ {e} :
        /\ entry'[f].ino = entry[f].ino /\ entry'[f].dir = entry[f].dir
        /\ entry'[f].parent = entry[f].parent
        /\ entry'[f].nlink = entry[f].nlink
             - (IF entry[f].ino = entry[e].ino THEN 1 ELSE 0)
             - (IF entry[e].dir /\ f = entry[e].parent THEN 1 ELSE 0)
        /\ entry[f].nlink \in Int
  BY <1>1, EntrySets DEF Deleted, SamePlace
<1>3. Dirs' = Dirs \ {e} /\ Files' = Files \ {e}
  BY <1>1, <1>2 DEF Files, Dirs
<1>4. \A f \in all_entries \ {e} : entry'[f].ino = entry[f].ino  BY <1>2
<1>5. \A x : Children(x)' = Children(x) \ {e}
  <2>1. \A f \in all_entries \ {e} : entry'[f].parent = entry[f].parent  BY <1>2
  <2> QED  BY <1>1, <2>1 DEF Children
<1>6. ASSUME NEW f \in Files \ {e}
      PROVE  entry'[f].nlink = Cardinality(WithIno(entry[f].ino))'
  <2>1. /\ f \in all_entries \ {e} /\ f # entry[e].parent
        /\ entry[f].nlink = Cardinality(WithIno(entry[f].ino)) /\ entry[f].nlink \in Int
    BY <1>1, <1>2 DEF Files, Links
  <2>2. CASE entry[f].ino = entry[e].ino
    <3>1. WithIno(entry[f].ino)' = WithIno(entry[f].ino) \ {e} /\ e \in WithIno(entry[f].ino)
      BY <1>1, <1>4, <2>1, <2>2 DEF WithIno
    <3>2. WithIno(entry[f].ino) \in SUBSET Pointer  BY <1>1, EntrySets
    <3>3. Cardinality(WithIno(entry[f].ino) \ {e}) = Cardinality(WithIno(entry[f].ino)) - 1
      BY <3>1, <3>2, OneLess
    <3>4. entry'[f].nlink = entry[f].nlink - 1  BY <1>2, <2>1, <2>2
    <3> QED  BY <2>1, <3>1, <3>3, <3>4
  <2>3. CASE entry[f].ino # entry[e].ino
    <3>1. WithIno(entry[f].ino)' = WithIno(entry[f].ino)
      BY <1>1, <1>4, <2>1, <2>3 DEF WithIno
    <3>2. entry'[f].nlink = entry[f].nlink  BY <1>2, <2>1, <2>3
    <3> QED  BY <2>1, <3>1, <3>2
  <2> QED  BY <2>2, <2>3
<1>7. ASSUME NEW d \in Dirs \ {e}
      PROVE  Own(d)' \in {1, 2}
  <2>1. /\ d \in all_entries \ {e} /\ Own(d) \in {1, 2} /\ entry[d].nlink \in Int
        /\ entry[d].ino # entry[e].ino
    BY <1>1, <1>2 DEF Dirs, Links, Numbers, Files
  <2>2. Children(d) \cap Dirs \in SUBSET Pointer /\ Cardinality(Children(d) \cap Dirs) \in Nat
    BY <1>1, EntrySets
  <2>3. CASE entry[e].dir /\ d = entry[e].parent
    <3>1. (Children(d) \cap Dirs)' = (Children(d) \cap Dirs) \ {e} /\ e \in Children(d) \cap Dirs
      <4>1. e \in Children(d) /\ e \in Dirs  BY <1>1, <2>3 DEF Children, Dirs
      <4>2. Children(d)' = Children(d) \ {e} /\ Dirs' = Dirs \ {e}  BY <1>3, <1>5
      <4> QED  BY <4>1, <4>2
    <3>2. Cardinality((Children(d) \cap Dirs) \ {e}) = Cardinality(Children(d) \cap Dirs) - 1
      BY <2>2, <3>1, OneLess
    <3>3. entry'[d].nlink = entry[d].nlink - 1  BY <1>2, <2>1, <2>3
    <3>4. Cardinality(Children(d) \cap Dirs)' = Cardinality(Children(d) \cap Dirs) - 1
      BY <3>1, <3>2
    <3> QED  BY <2>1, <2>2, <3>3, <3>4 DEF Own
  <2>4. CASE ~(entry[e].dir /\ d = entry[e].parent)
    <3>1. (Children(d) \cap Dirs)' = Children(d) \cap Dirs
      <4>1. e \notin Children(d) \cap Dirs  BY <1>1, <2>4 DEF Children, Dirs
      <4> QED  BY <1>3, <1>5, <4>1
    <3>2. entry'[d].nlink = entry[d].nlink  BY <1>2, <2>1, <2>4
    <3> QED  BY <2>1, <3>1, <3>2 DEF Own
  <2> QED  BY <2>3, <2>4
<1>8. ASSUME NEW f \in all_entries \ {e}
      PROVE  entry'[f].nlink <= allocs' + 2
  <2>1. entry[f].nlink <= allocs + 2 /\ entry[f].nlink \in Int  BY <1>2 DEF Links
  <2>2. entry'[f].nlink <= entry[f].nlink  BY <1>2, <2>1
  <2> QED  BY <1>1, <1>2, <2>1, <2>2
<1> QED  BY <1>1, <1>3, <1>6, <1>7, <1>8 DEF Links

LEMMA SameLinks ==
  ASSUME Links, Typed, UNCHANGED <<all_entries, entry>>, allocs' \in {allocs, allocs + 1}
  PROVE  Links'
<1>1. Files' = Files /\ Dirs' = Dirs /\ \A x : Children(x)' = Children(x)
      /\ WithIno(x)' = WithIno(x)
  BY DEF Files, Dirs, Children, WithIno
<1>2. \A d : Own(d)' = Own(d)  BY <1>1 DEF Own
<1>3. \A e \in all_entries : entry[e].nlink \in Int /\ allocs \in Nat  BY EntrySets
<1>4. \A e \in all_entries : entry[e].nlink <= allocs' + 2  BY <1>3 DEF Links
<1> QED  BY <1>1, <1>2, <1>4 DEF Links


-----------------------------------------------------------------------------
(***************************************************************************)
(* The counts of the struct inodes.                                        *)
(***************************************************************************)
\* Names that share an inode are names of one number, so a directory shares
\* its inode with none; a name that is held is that of an entry.
LEMMA Sharing ==
  ASSUME Shape, NEW f \in Pointer, Held(f)
  PROVE  /\ f \in all_entries /\ dentry[f] \in Inodes /\ mounted
         /\ entry[f].parent \in HeldDirs
         /\ \A g \in Pointer : dentry[g] = dentry[f] =>
              /\ Held(g) /\ g \in all_entries /\ entry[g].ino = entry[f].ino
              /\ g # f => f \in Files /\ g \in Files
<1>1. Typed /\ Numbers /\ DentriesLive  BY DEF Shape
<1>2. f \in all_entries /\ dentry[f] \in Inodes /\ mounted /\ entry[f].parent \in HeldDirs
  BY <1>1 DEF DentriesLive, Typed, Held
<1>3. ASSUME NEW g \in Pointer, dentry[g] = dentry[f]
      PROVE  Held(g) /\ g \in all_entries /\ entry[g].ino = entry[f].ino
  BY <1>1, <1>3 DEF DentriesLive, Held
<1> QED  BY <1>1, <1>2, <1>3 DEF Numbers

LEMMA LeadingFacts ==
  ASSUME NEW i
  PROVE  Leading(i) \in SUBSET Pointer /\ IsFiniteSet(Leading(i)) /\ Cardinality(Leading(i)) \in Nat
<1>1. Leading(i) \in SUBSET Pointer  BY DEF Leading
<1> QED  BY <1>1, SomePointers

\* A new entry in a directory that is held: no inode but the directory's
\* changes its count.
LEMMA InsertedCounts ==
  ASSUME Counted, NEW new, NEW parent \in HeldDirs, NEW isdir \in BOOLEAN,
         NEW links \in {1, 2}, ~isdir => links = 1, Shape',
         Inserted(new, parent, isdir, links),
         dentry' \in [Pointer -> Inodes \cup {NoInode}],
         \A f \in Pointer \ {new} : dentry'[f] = dentry[f],
         dentry'[new] # NoInode =>
           i_nlink'[dentry'[new]] = links /\ \A f \in Pointer : dentry[f] # dentry'[new],
         i_nlink' \in [Inodes -> 0 .. LinkValues - 1],
         \A f \in Pointer \ {new} : Held(f) =>
           /\ dentry[f] \notin drifted' => dentry[f] \notin drifted
           /\ dentry[f] # dentry[parent] => i_nlink'[dentry[f]] = i_nlink[dentry[f]],
         dentry[parent] \notin drifted' =>
           i_nlink'[dentry[parent]] = i_nlink[dentry[parent]] + IF isdir THEN 1 ELSE 0
  PROVE  Counted'
<1>1. /\ Shape /\ Typed /\ Links /\ CountsAgree /\ Covered /\ parent \in Dirs
      /\ Held(parent) /\ parent \in Pointer /\ Loaded
  BY DEF Counted, Shape, Typed, HeldDirs, Dirs, Life, DentriesLive, Loaded
<1>2. Links'  BY <1>1, InsertedLinks
<1>3. /\ new \in Pointer /\ new \notin all_entries /\ all_entries' = all_entries \cup {new}
      /\ entry'[new].dir = isdir /\ entry'[new].nlink = links
      /\ allocs' = allocs + 1 /\ allocs \in Nat /\ ~Held(new) /\ parent # new
  BY <1>1 DEF Inserted, Shape, Typed, DentriesLive, Dirs
<1>4. \A f \in all_entries :
        /\ f \in Pointer /\ entry'[f].dir = entry[f].dir /\ entry[f].nlink \in Int
        /\ entry'[f].nlink = entry[f].nlink + IF f = parent /\ isdir THEN 1 ELSE 0
  BY <1>1, EntrySets DEF Inserted, SamePlace
<1>5. ASSUME NEW f \in Pointer \ {new}, Held(f)'
      PROVE  /\ Held(f) /\ f \in all_entries /\ dentry'[f] = dentry[f]
             /\ dentry[f] \in Inodes
             /\ dentry[f] = dentry[parent] <=> f = parent
  <2>1. Held(f) /\ dentry'[f] = dentry[f]  BY <1>5 DEF Held
  <2>2. f \in all_entries /\ dentry[f] \in Inodes  BY <1>1, <2>1, Sharing
  <2>3. dentry[f] = dentry[parent] => f = parent
    BY <1>1, <2>1, Sharing DEF Files
  <2> QED  BY <2>1, <2>2, <2>3
<1>6. CountsAgree'
  <2>1. ASSUME NEW f \in Pointer, Held(f)', dentry'[f] \notin drifted'
        PROVE  i_nlink'[dentry'[f]] = entry'[f].nlink
    <3>1. CASE f = new  BY <1>3, <2>1, <3>1 DEF Held
    <3>2. CASE f # new
      <4>1. /\ Held(f) /\ f \in all_entries /\ dentry'[f] = dentry[f]
            /\ dentry[f] = dentry[parent] <=> f = parent
        BY <1>5, <2>1, <3>2
      <4>2. dentry[f] \notin drifted  BY <2>1, <3>2, <4>1
      <4>3. i_nlink[dentry[f]] = entry[f].nlink  BY <1>1, <4>1, <4>2 DEF CountsAgree
      <4>4. CASE f = parent  BY <1>4, <2>1, <4>1, <4>3, <4>4
      <4>5. CASE f # parent
        <5>1. i_nlink'[dentry[f]] = i_nlink[dentry[f]]  BY <3>2, <4>1, <4>5
        <5>2. entry'[f].nlink = entry[f].nlink  BY <1>4, <4>1, <4>5
        <5> QED  BY <4>1, <4>3, <5>1, <5>2
      <4> QED  BY <4>4, <4>5
    <3> QED  BY <3>1, <3>2
  <2> QED  BY <2>1 DEF CountsAgree
<1>7. Covered'
  <2>1. ASSUME NEW f \in Files', Held(f)'
        PROVE  /\ Cardinality(Leading(dentry[f]))' <= i_nlink'[dentry'[f]]
               /\ i_nlink'[dentry'[f]] <= allocs' + 2
    <3>1. CASE f = new
      <4>1. links = 1  BY <1>3, <2>1, <3>1 DEF Files, Dirs
      <4>2. dentry'[new] # NoInode  BY <2>1, <3>1 DEF Held
      <4>3. Leading(dentry[new])' = {new}  BY <1>3, <4>2 DEF Leading
      <4>4. Cardinality({new}) = 1  BY FS_Singleton
      <4> QED  BY <1>3, <3>1, <4>1, <4>2, <4>3, <4>4
    <3>2. CASE f # new
      <4>1. f \in Pointer \ {new}  BY <1>3, <1>4, <2>1, <3>2 DEF Files
      <4>2. /\ Held(f) /\ f \in all_entries /\ dentry'[f] = dentry[f] /\ dentry[f] \in Inodes
            /\ dentry[f] = dentry[parent] <=> f = parent
        BY <1>5, <2>1, <4>1
      <4>3. f \in Files /\ f # parent
        BY <1>1, <1>4, <2>1, <4>2 DEF Files, Dirs
      <4>4. i_nlink'[dentry[f]] = i_nlink[dentry[f]] /\ i_nlink[dentry[f]] \in Int
        BY <4>1, <4>2, <4>3, LinkValuesAssumption DEF Counted
      <4>5. Leading(dentry[f])' = Leading(dentry[f])
        <5>1. dentry'[new] # dentry[f] /\ dentry[new] # dentry[f]
          BY <1>3, <4>1, <4>2 DEF Held
        <5>2. \A g \in Pointer : dentry'[g] = dentry'[f] <=> dentry[g] = dentry[f]
          BY <4>2, <5>1
        <5> QED  BY <5>2 DEF Leading
      <4>6. /\ Cardinality(Leading(dentry[f])) <= i_nlink[dentry[f]]
            /\ i_nlink[dentry[f]] <= allocs + 2
        BY <1>1, <4>2, <4>3 DEF Covered
      <4> QED  BY <1>3, <4>2, <4>4, <4>5, <4>6
    <3> QED  BY <3>1, <3>2
  <2> QED  BY <2>1 DEF Covered
<1> QED  BY <1>2, <1>6, <1>7 DEF Counted

\* The inode that is given to a dentry starts with a count that fits.
LEMMA FreshCount ==
  ASSUME NEW i \in Inodes, NEW count \in 0 .. LinkValues - 1, NEW D \in [Pointer -> Inodes \cup {NoInode}],
         NEW e \in Pointer, D[e] = i, NEW counts \in [Inodes -> 0 .. LinkValues - 1],
         i_nlink' = [j \in Inodes |->
           IF \E f \in Pointer : D[f] = j THEN [counts EXCEPT ![i] = count][j] ELSE 0]
  PROVE  /\ i_nlink' \in [Inodes -> 0 .. LinkValues - 1]
         /\ i_nlink'[i] = count
         /\ \A f \in Pointer : D[f] # i /\ D[f] # NoInode => i_nlink'[D[f]] = counts[D[f]]
<1>1. 0 \in 0 .. LinkValues - 1  BY LinkValuesAssumption
<1>2. [counts EXCEPT ![i] = count] \in [Inodes -> 0 .. LinkValues - 1]  OBVIOUS
<1> QED  BY <1>1, <1>2


LEMMA SmallCounts ==
  ASSUME LinksFit
  PROVE  /\ {0, 1, 2} \subseteq 0 .. LinkValues - 1
         /\ 0 .. MaxEntries + 2 \subseteq 0 .. LinkValues - 1
BY PointersFinite, LinkValuesAssumption DEF LinksFit

LEMMA FetchCounted ==
  ASSUME LinksFit, Counted, mounted, NEW place \in Free, NEW isdir \in BOOLEAN,
         Fetch(place[1], place[2], isdir)
  PROVE  Counted'
<1>1. PICK parent : parent = place[1]
  OBVIOUS
<1>2. PICK missed : missed = IF isdir THEN {dentry[parent]} ELSE {}
  OBVIOUS
<1>3. PICK new : new = allocs + 1
  OBVIOUS
<1>4. /\ parent \in HeldDirs /\ parent \in all_entries /\ place[2] \in Names
      /\ parent \in Pointer /\ missed \in SUBSET Inodes /\ Typed /\ Shape
      /\ i_nlink \in [Inodes -> 0 .. LinkValues - 1]
  BY <1>1, <1>2, PlaceFacts DEF Shape, Counted
<1>5. Inserted(new, parent, isdir, 1) /\ new \in Pointer /\ ~Held(new)
  <2>1. InsertEntry(place[1], place[2], isdir, 0) /\ allocs + 1 <= MaxEntries
    BY DEF Fetch, InsertEntry
  <2> QED  BY <1>1, <1>3, <1>4, <2>1, InsertFacts, UnheldNew
<1>6. Shape'  BY <1>4, FetchShape
<1>7. parent # new  BY <1>4, <1>5 DEF Inserted
<1>8. 1 \in 0 .. LinkValues - 1  BY SmallCounts
<1>9. \/ NewInode(new, 1, missed)
      \/ drifted' = drifted \cup missed /\ UNCHANGED <<dentry, i_nlink>>
  <2>1. allocs' = new  BY <1>5 DEF Inserted
  <2> QED  BY <1>1, <1>2, <2>1 DEF Fetch
<1>10. \A f \in Pointer : Held(f) => dentry[f] \in Inodes
  BY <1>4 DEF Typed, Held
<1>11. isdir => dentry[parent] \in missed  BY <1>2
<1>12. dentry[parent] \in Inodes /\ Held(parent)  BY <1>4, <1>10 DEF HeldDirs
<1>13. CASE NewInode(new, 1, missed)
  <2>1. /\ fresh \in Inodes /\ \A f \in Pointer : dentry[f] # fresh
        /\ dentry' \in [Pointer -> Inodes \cup {NoInode}] /\ dentry'[new] = fresh
        /\ \A f \in Pointer \ {new} : dentry'[f] = dentry[f]
        /\ i_nlink' = [i \in Inodes |->
              IF \E f \in Pointer : dentry'[f] = i
              THEN [i_nlink EXCEPT ![fresh] = 1][i] ELSE 0]
        /\ \A f \in Pointer : dentry'[f] # NoInode =>
              (dentry'[f] \in drifted' <=> dentry'[f] \in drifted \cup missed)
    BY <1>4, <1>5, <1>13, NewInodeFacts
  <2> HIDE DEF fresh
  <2>2. PICK i, D : i = fresh /\ D = dentry'
    OBVIOUS
  <2>3. /\ i_nlink' \in [Inodes -> 0 .. LinkValues - 1]
        /\ i_nlink'[i] = 1
        /\ \A f \in Pointer : D[f] # i /\ D[f] # NoInode => i_nlink'[D[f]] = i_nlink[D[f]]
    BY <1>4, <1>5, <1>8, <2>1, <2>2, FreshCount
  <2>4. ASSUME NEW f \in Pointer \ {new}, Held(f)
        PROVE  /\ dentry[f] \notin drifted' => dentry[f] \notin drifted \cup missed
               /\ i_nlink'[dentry[f]] = i_nlink[dentry[f]]
    <3>1. D[f] = dentry[f] /\ dentry[f] # NoInode /\ dentry[f] # i
      BY <2>1, <2>2, <2>4 DEF Held
    <3> QED  BY <2>1, <2>2, <2>3, <3>1
  <2>5. dentry[parent] \notin drifted' => ~isdir /\ i_nlink'[dentry[parent]] = i_nlink[dentry[parent]]
    BY <1>4, <1>7, <1>11, <1>12, <2>4
  <2>6. i_nlink[dentry[parent]] \in Int  BY <1>4, <1>12, LinkValuesAssumption
  <2> QED  BY <1>4, <1>5, <1>6, <2>1, <2>2, <2>3, <2>4, <2>5, <2>6, InsertedCounts
<1>14. CASE drifted' = drifted \cup missed /\ UNCHANGED <<dentry, i_nlink>>
  <2>1. dentry' \in [Pointer -> Inodes \cup {NoInode}] /\ dentry'[new] = NoInode
    BY <1>4, <1>5, <1>14 DEF Typed, Held
  <2>2. i_nlink[dentry[parent]] \in Int  BY <1>4, <1>12, LinkValuesAssumption
  <2>3. dentry[parent] \notin drifted' => ~isdir  BY <1>11, <1>14
  <2> QED  BY <1>4, <1>5, <1>6, <1>14, <2>1, <2>2, <2>3, InsertedCounts
<1> QED  BY <1>9, <1>13, <1>14

LEMMA CreateCounted ==
  ASSUME LinksFit, Counted, mounted, NEW place \in Free, Create(place[1], place[2])
  PROVE  Counted'
<1>1. PICK parent : parent = place[1]
  OBVIOUS
<1>2. PICK new : new = allocs + 1
  OBVIOUS
<1>3. /\ parent \in HeldDirs /\ parent \in all_entries /\ place[2] \in Names
      /\ parent \in Pointer /\ dentry[parent] \in Inodes /\ Typed /\ Shape
      /\ i_nlink \in [Inodes -> 0 .. LinkValues - 1]
  BY <1>1, PlaceFacts DEF Shape, Counted
<1>4. Inserted(new, parent, FALSE, 1) /\ new \in Pointer /\ ~Held(new)
  <2>1. InsertEntry(place[1], place[2], FALSE, 0) /\ allocs + 1 <= MaxEntries
    BY DEF Create, InsertEntry
  <2> QED  BY <1>1, <1>2, <1>3, <2>1, InsertFacts, UnheldNew
<1>5. Shape'  BY <1>3, CreateShape
<1>6. parent # new  BY <1>3, <1>4 DEF Inserted
<1>7. 1 \in 0 .. LinkValues - 1  BY SmallCounts
<1>8. NewInode(new, 1, {})
  <2>1. allocs' = new  BY <1>4 DEF Inserted
  <2> QED  BY <2>1 DEF Create
<1>9. /\ fresh \in Inodes /\ \A f \in Pointer : dentry[f] # fresh
      /\ dentry' \in [Pointer -> Inodes \cup {NoInode}] /\ dentry'[new] = fresh
      /\ \A f \in Pointer \ {new} : dentry'[f] = dentry[f]
      /\ i_nlink' = [i \in Inodes |->
            IF \E f \in Pointer : dentry'[f] = i
            THEN [i_nlink EXCEPT ![fresh] = 1][i] ELSE 0]
      /\ \A f \in Pointer : dentry'[f] # NoInode =>
            (dentry'[f] \in drifted' <=> dentry'[f] \in drifted \cup {})
  BY <1>3, <1>4, <1>8, NewInodeFacts
<1> HIDE DEF fresh
<1>10. PICK i, D : i = fresh /\ D = dentry'
  OBVIOUS
<1>11. /\ i_nlink' \in [Inodes -> 0 .. LinkValues - 1]
       /\ i_nlink'[i] = 1
       /\ \A f \in Pointer : D[f] # i /\ D[f] # NoInode => i_nlink'[D[f]] = i_nlink[D[f]]
  <2>1. i_nlink' = [j \in Inodes |->
          IF \E f \in Pointer : D[f] = j THEN [i_nlink EXCEPT ![i] = 1][j] ELSE 0]
    BY <1>9, <1>10
  <2>2. /\ D[new] = i /\ D \in [Pointer -> Inodes \cup {NoInode}] /\ i \in Inodes
        /\ new \in Pointer
    BY <1>4, <1>9, <1>10
  <2>3. PICK count \in 0 .. LinkValues - 1 : count = 1
    BY <1>7
  <2>4. /\ i_nlink' \in [Inodes -> 0 .. LinkValues - 1] /\ i_nlink'[i] = count
        /\ \A f \in Pointer : D[f] # i /\ D[f] # NoInode => i_nlink'[D[f]] = i_nlink[D[f]]
    <3>1. i_nlink' = [j \in Inodes |->
            IF \E f \in Pointer : D[f] = j THEN [i_nlink EXCEPT ![i] = count][j] ELSE 0]
      BY <2>1, <2>3
    <3> QED  BY <1>3, <2>2, <3>1, FreshCount
  <2> QED  BY <2>3, <2>4
<1>12. ASSUME NEW f \in Pointer \ {new}, Held(f)
       PROVE  /\ dentry[f] \notin drifted' => dentry[f] \notin drifted
              /\ i_nlink'[dentry[f]] = i_nlink[dentry[f]]
  <2>1. D[f] = dentry[f] /\ dentry[f] # NoInode /\ dentry[f] # i
    BY <1>9, <1>10, <1>12 DEF Held
  <2> QED  BY <1>9, <1>10, <1>11, <2>1
<1>13. /\ i_nlink'[dentry[parent]] = i_nlink[dentry[parent]]
       /\ i_nlink[dentry[parent]] \in Int
  BY <1>3, <1>6, <1>12, LinkValuesAssumption DEF HeldDirs
<1>14. PICK isdir \in BOOLEAN : isdir = FALSE
  OBVIOUS
<1>15. /\ Inserted(new, parent, isdir, 1) /\ 1 \in {1, 2}
       /\ i_nlink'[dentry[parent]] = i_nlink[dentry[parent]] + IF isdir THEN 1 ELSE 0
  <2>1. Inserted(new, parent, isdir, 1)  BY <1>4, <1>14, Zenon
  <2>2. i_nlink'[dentry[parent]] = i_nlink[dentry[parent]] + IF isdir THEN 1 ELSE 0
    BY <1>13, <1>14
  <2> QED  BY <2>1, <2>2
<1>16. dentry'[new] # NoInode =>
         i_nlink'[dentry'[new]] = 1 /\ \A f \in Pointer : dentry[f] # dentry'[new]
  BY <1>9, <1>10, <1>11
<1> QED  BY <1>3, <1>5, <1>9, <1>11, <1>12, <1>15, <1>16, InsertedCounts

LEMMA MkdirCounted ==
  ASSUME LinksFit, Counted, mounted, NEW place \in Free, Mkdir(place[1], place[2])
  PROVE  Counted'
<1>1. PICK parent : parent = place[1]
  OBVIOUS
<1>2. PICK new : new = allocs + 1
  OBVIOUS
<1>3. PICK at : at = dentry[parent]
  OBVIOUS
<1>4. /\ parent \in HeldDirs /\ parent \in all_entries /\ place[2] \in Names
      /\ parent \in Pointer /\ at \in Inodes /\ Held(parent) /\ Typed /\ Shape
      /\ i_nlink \in [Inodes -> 0 .. LinkValues - 1] /\ CountsAgree /\ Links
      /\ Mkdir(parent, place[2])
  BY <1>1, <1>3, PlaceFacts DEF Shape, Counted, HeldDirs
<1>5. Inserted(new, parent, TRUE, 2)  BY <1>2, <1>4, MkdirFacts
<1>6. Shape'  BY <1>4, MkdirShape
<1>7. parent # new  BY <1>4, <1>5 DEF Inserted
<1>8. 2 \in 0 .. LinkValues - 1  BY SmallCounts
<1>9. /\ new \in Pointer /\ fresh \in Inodes /\ \A f \in Pointer : dentry[f] # fresh
      /\ dentry' \in [Pointer -> Inodes \cup {NoInode}] /\ dentry'[new] = fresh
      /\ \A f \in Pointer \ {new} : dentry'[f] = dentry[f]
      /\ i_nlink' = [i \in Inodes |->
            IF \E f \in Pointer : dentry'[f] = i
            THEN [ParentGains(parent) EXCEPT ![fresh] = 2][i] ELSE 0]
      /\ \A f \in Pointer : dentry'[f] # NoInode =>
            (dentry'[f] \in drifted' <=> dentry'[f] \in drifted)
  BY <1>2, <1>4, MkdirDentries
<1> HIDE DEF fresh
<1>10. PICK i, D, counts : i = fresh /\ D = dentry' /\ counts = ParentGains(parent)
  OBVIOUS
<1>11. /\ counts \in [Inodes -> 0 .. LinkValues - 1]
       /\ \A j \in Inodes \ {at} : counts[j] = i_nlink[j]
       /\ i_nlink[at] + 1 \in 0 .. LinkValues - 1 => counts[at] = i_nlink[at] + 1
  <2>1. counts = Plus(i_nlink, at, 1)  BY <1>3, <1>10 DEF ParentGains
  <2> QED  BY <1>4, <2>1, PlusFacts
<1>12. /\ i_nlink' \in [Inodes -> 0 .. LinkValues - 1]
       /\ i_nlink'[i] = 2
       /\ \A f \in Pointer : D[f] # i /\ D[f] # NoInode => i_nlink'[D[f]] = counts[D[f]]
  <2>1. i_nlink' = [j \in Inodes |->
          IF \E f \in Pointer : D[f] = j THEN [counts EXCEPT ![i] = 2][j] ELSE 0]
    BY <1>9, <1>10
  <2>2. /\ D[new] = i /\ D \in [Pointer -> Inodes \cup {NoInode}] /\ i \in Inodes
        /\ new \in Pointer
    BY <1>9, <1>10
  <2>3. PICK count \in 0 .. LinkValues - 1 : count = 2
    BY <1>8
  <2>4. i_nlink' = [j \in Inodes |->
          IF \E f \in Pointer : D[f] = j THEN [counts EXCEPT ![i] = count][j] ELSE 0]
    BY <2>1, <2>3
  <2>5. /\ i_nlink' \in [Inodes -> 0 .. LinkValues - 1]
        /\ i_nlink'[i] = count
        /\ \A f \in Pointer : D[f] # i /\ D[f] # NoInode => i_nlink'[D[f]] = counts[D[f]]
    BY <1>11, <2>2, <2>4, FreshCount
  <2> QED  BY <2>3, <2>5
<1>13. ASSUME NEW f \in Pointer \ {new}, Held(f)
       PROVE  /\ dentry[f] \notin drifted' => dentry[f] \notin drifted
              /\ i_nlink'[dentry[f]] = counts[dentry[f]]
  <2>1. D[f] = dentry[f] /\ dentry[f] # NoInode /\ dentry[f] # i
    BY <1>9, <1>10, <1>13 DEF Held
  <2> QED  BY <1>9, <1>10, <1>12, <2>1
<1>14. ASSUME NEW f \in Pointer \ {new}, Held(f), dentry[f] # at
       PROVE  i_nlink'[dentry[f]] = i_nlink[dentry[f]]
  <2>1. dentry[f] \in Inodes  BY <1>4, <1>14 DEF Typed, Held
  <2> QED  BY <1>11, <1>13, <1>14, <2>1
<1>15. ASSUME at \notin drifted'
       PROVE  i_nlink'[at] = i_nlink[at] + 1
  <2>1. at \notin drifted  BY <1>3, <1>4, <1>7, <1>13, <1>15
  <2>2. i_nlink[at] = entry[parent].nlink  BY <1>3, <1>4, <2>1 DEF CountsAgree
  <2>3. entry[parent].nlink <= allocs + 2 /\ allocs + 1 <= MaxEntries /\ allocs \in Nat
    BY <1>4 DEF Links, Mkdir, Typed
  <2>4. i_nlink[at] + 1 \in 0 .. LinkValues - 1
    <3>1. i_nlink[at] \in 0 .. LinkValues - 1 /\ LinkValues \in Nat /\ MaxEntries \in Nat
      BY <1>4, PointersFinite, LinkValuesAssumption
    <3> QED  BY <2>2, <2>3, <3>1 DEF LinksFit
  <2> QED  BY <1>3, <1>4, <1>7, <1>11, <1>13, <2>4
<1>16. PICK isdir \in BOOLEAN : isdir = TRUE
  OBVIOUS
<1>17. /\ Inserted(new, parent, isdir, 2) /\ 2 \in {1, 2}
       /\ dentry[parent] \notin drifted' =>
            i_nlink'[dentry[parent]] = i_nlink[dentry[parent]] + IF isdir THEN 1 ELSE 0
  <2>1. Inserted(new, parent, isdir, 2)  BY <1>5, <1>16, Zenon
  <2> QED  BY <1>3, <1>15, <1>16, <2>1
<1>18. dentry'[new] # NoInode =>
         i_nlink'[dentry'[new]] = 2 /\ \A f \in Pointer : dentry[f] # dentry'[new]
  BY <1>9, <1>10, <1>12
<1>19. \A f \in Pointer \ {new} : Held(f) =>
         /\ dentry[f] \notin drifted' => dentry[f] \notin drifted
         /\ dentry[f] # dentry[parent] => i_nlink'[dentry[f]] = i_nlink[dentry[f]]
  BY <1>3, <1>13, <1>14
<1>20. /\ dentry' \in [Pointer -> Inodes \cup {NoInode}]
       /\ \A f \in Pointer \ {new} : dentry'[f] = dentry[f]
       /\ i_nlink' \in [Inodes -> 0 .. LinkValues - 1]
       /\ parent \in HeldDirs
  BY <1>4, <1>9, <1>12
<1>21. ~isdir => 2 = 1  BY <1>16
<1> QED  BY <1>6, <1>17, <1>18, <1>19, <1>20, <1>21, InsertedCounts


\* The entries stay; a dentry keeps its inode and the inode its count, or it
\* has one of its own that was given the count of the entry.
LEMMA SameEntriesCounted ==
  ASSUME Counted, Shape', UNCHANGED <<all_entries, entry, allocs>>,
         i_nlink' \in [Inodes -> 0 .. LinkValues - 1],
         \A f \in Pointer : Held(f)' =>
           \/ /\ Held(f) /\ dentry'[f] = dentry[f] /\ i_nlink'[dentry[f]] = i_nlink[dentry[f]]
              /\ dentry[f] \notin drifted' => dentry[f] \notin drifted
              /\ \A g \in Pointer : dentry'[g] = dentry'[f] => dentry[g] = dentry[f]
           \/ /\ i_nlink'[dentry'[f]] = entry[f].nlink
              /\ \A g \in Pointer : dentry'[g] = dentry'[f] => g = f
  PROVE  Counted'
<1>1. Shape /\ Typed /\ Links /\ CountsAgree /\ Covered /\ Files' = Files
  BY DEF Counted, Shape, Files, Dirs
<1>2. Links'  BY <1>1, SameLinks
<1>3. CountsAgree'  BY <1>1 DEF CountsAgree
<1>4. ASSUME NEW f \in Files, Held(f)'
      PROVE  /\ Cardinality(Leading(dentry[f]))' <= i_nlink'[dentry'[f]]
             /\ i_nlink'[dentry'[f]] <= allocs' + 2
  <2>1. f \in Pointer /\ f \in all_entries  BY <1>1, EntrySets
  <2>2. CASE /\ Held(f) /\ dentry'[f] = dentry[f]
             /\ i_nlink'[dentry[f]] = i_nlink[dentry[f]]
             /\ \A g \in Pointer : dentry'[g] = dentry'[f] => dentry[g] = dentry[f]
    <3>1. Leading(dentry[f])' \in SUBSET Leading(dentry[f])  BY <2>2 DEF Leading
    <3>2. Cardinality(Leading(dentry[f])') <= Cardinality(Leading(dentry[f]))
          /\ Cardinality(Leading(dentry[f])') \in Nat
      <4>1. IsFiniteSet(Leading(dentry[f])) /\ Cardinality(Leading(dentry[f])) \in Nat
        BY LeadingFacts
      <4> QED  BY <3>1, <4>1, FS_Subset, FS_CardinalityType
    <3>3. /\ Cardinality(Leading(dentry[f])) <= i_nlink[dentry[f]]
          /\ i_nlink[dentry[f]] <= allocs + 2
      BY <1>1, <2>2 DEF Covered
    <3>4. i_nlink[dentry[f]] \in Int /\ Cardinality(Leading(dentry[f])) \in Nat
      <4>1. dentry[f] \in Inodes  BY <1>1, <2>1, <2>2, Sharing
      <4> QED  BY <4>1, LinkValuesAssumption, LeadingFacts DEF Counted
    <3>5. Cardinality(Leading(dentry[f]))' <= i_nlink[dentry[f]]  BY <3>2, <3>3, <3>4
    <3> QED  BY <2>2, <3>3, <3>5
  <2>3. CASE /\ i_nlink'[dentry'[f]] = entry[f].nlink
             /\ \A g \in Pointer : dentry'[g] = dentry'[f] => g = f
    <3>1. Leading(dentry[f])' = {f}  BY <2>1, <2>3 DEF Leading
    <3>2. Cardinality({f}) = 1  BY FS_Singleton
    <3>3. entry[f].nlink = Cardinality(WithIno(entry[f].ino)) /\ entry[f].nlink <= allocs + 2
      BY <1>1, <2>1 DEF Links
    <3>4. WithIno(entry[f].ino) \in SUBSET Pointer /\ f \in WithIno(entry[f].ino)
      BY <1>1, <2>1, EntrySets DEF WithIno
    <3>5. Cardinality(WithIno(entry[f].ino)) >= 1  BY <3>4, OneLess
    <3> QED  BY <2>3, <3>1, <3>2, <3>3, <3>5
  <2> QED  BY <1>4, <2>1, <2>2, <2>3
<1> QED  BY <1>1, <1>2, <1>3, <1>4 DEF Counted, Covered

\* The count of an entry that is there: positive, and no more than there can be.
LEMMA LinksRange ==
  ASSUME LinksFit, Shape, Links, NEW e \in all_entries
  PROVE  entry[e].nlink \in 0 .. LinkValues - 1 /\ entry[e].nlink >= 1
<1>1. Typed /\ allocs \in 0 .. MaxEntries  BY DEF Shape, Typed
<1>2. entry[e].nlink \in Int /\ entry[e].nlink <= allocs + 2  BY <1>1, EntrySets DEF Links
<1>3. entry[e].nlink >= 1
  <2>1. CASE e \in Files
    <3>1. WithIno(entry[e].ino) \in SUBSET Pointer /\ e \in WithIno(entry[e].ino)
      BY <1>1, EntrySets DEF WithIno
    <3>2. Cardinality(WithIno(entry[e].ino)) >= 1  BY <3>1, OneLess
    <3> QED  BY <2>1, <3>2 DEF Links
  <2>2. CASE e \in Dirs
    <3>1. Own(e) \in {1, 2} /\ Cardinality(Children(e) \cap Dirs) \in Nat
      BY <1>1, <2>2, EntrySets DEF Links
    <3> QED  BY <1>2, <3>1 DEF Own
  <2> QED  BY <2>1, <2>2 DEF Files
<1>4. MaxEntries \in Nat /\ LinkValues \in Nat
  BY PointersFinite, LinkValuesAssumption
<1> QED  BY <1>1, <1>2, <1>3, <1>4 DEF LinksFit

LEMMA LookupCounted ==
  ASSUME LinksFit, Counted, mounted, NEW e \in all_entries, Lookup(e)
  PROVE  Counted'
<1>1. Shape /\ Typed /\ Links /\ i_nlink \in [Inodes -> 0 .. LinkValues - 1]
  BY DEF Counted, Shape
<1>2. Shape'  BY <1>1, LookupShape
<1>3. UNCHANGED <<all_entries, entry, allocs>>  BY DEF Lookup, store_vars
<1>4. /\ e \in Pointer /\ fresh \in Inodes /\ \A f \in Pointer : dentry[f] # fresh
      /\ dentry' \in [Pointer -> Inodes \cup {NoInode}] /\ dentry'[e] = fresh
      /\ \A f \in Pointer \ {e} : dentry'[f] = dentry[f]
      /\ i_nlink' = [i \in Inodes |->
           IF \E f \in Pointer : dentry'[f] = i
           THEN [i_nlink EXCEPT ![fresh] = entry[e].nlink][i] ELSE 0]
      /\ \A f \in Pointer : dentry'[f] # NoInode =>
           (dentry'[f] \in drifted' <=> dentry'[f] \in drifted)
  BY <1>1, LookupDentries
<1> HIDE DEF fresh
<1>5. PICK i, D : i = fresh /\ D = dentry'
  OBVIOUS
<1>6. PICK count \in 0 .. LinkValues - 1 : count = entry[e].nlink
  BY <1>1, LinksRange
<1>7. /\ i_nlink' \in [Inodes -> 0 .. LinkValues - 1]
      /\ i_nlink'[i] = count
      /\ \A f \in Pointer : D[f] # i /\ D[f] # NoInode => i_nlink'[D[f]] = i_nlink[D[f]]
  <2>1. i_nlink' = [j \in Inodes |->
          IF \E f \in Pointer : D[f] = j THEN [i_nlink EXCEPT ![i] = count][j] ELSE 0]
    BY <1>4, <1>5, <1>6
  <2>2. /\ D[e] = i /\ D \in [Pointer -> Inodes \cup {NoInode}] /\ i \in Inodes
        /\ e \in Pointer
    BY <1>4, <1>5
  <2> QED  BY <1>1, <2>1, <2>2, FreshCount
<1>8. \A g \in Pointer : dentry'[g] = i => g = e  BY <1>4, <1>5
<1>9. ASSUME NEW f \in Pointer \ {e}, Held(f)'
      PROVE  /\ Held(f) /\ dentry'[f] = dentry[f] /\ i_nlink'[dentry[f]] = i_nlink[dentry[f]]
             /\ dentry[f] \notin drifted' => dentry[f] \notin drifted
             /\ \A g \in Pointer : dentry'[g] = dentry'[f] => dentry[g] = dentry[f]
  <2>1. dentry'[f] = dentry[f] /\ D[f] = dentry[f] /\ D[f] # NoInode /\ D[f] # i /\ Held(f)
    BY <1>4, <1>5, <1>9 DEF Held
  <2>2. i_nlink'[dentry[f]] = i_nlink[dentry[f]]  BY <1>7, <2>1
  <2>3. dentry[f] \notin drifted' => dentry[f] \notin drifted  BY <1>4, <2>1 DEF Held
  <2>4. \A g \in Pointer : dentry'[g] = dentry'[f] => dentry[g] = dentry[f]
    BY <1>4, <1>5, <2>1
  <2> QED  BY <2>1, <2>2, <2>3, <2>4
<1>10. i_nlink'[dentry'[e]] = entry[e].nlink
       /\ \A g \in Pointer : dentry'[g] = dentry'[e] => g = e
  BY <1>4, <1>5, <1>6, <1>7, <1>8
<1> QED  BY <1>2, <1>3, <1>7, <1>9, <1>10, SameEntriesCounted

\* What is left when a dentry goes.
LEMMA Dropped ==
  ASSUME Typed, NEW e \in Pointer, NEW counts \in [Inodes -> 0 .. LinkValues - 1],
         NEW missed \in SUBSET Inodes, Drop(e, counts, missed)
  PROVE  /\ i_nlink' \in [Inodes -> 0 .. LinkValues - 1]
         /\ \A f \in Pointer : Held(f)' =>
              /\ f # e /\ Held(f) /\ dentry'[f] = dentry[f] /\ dentry[f] \in Inodes
              /\ i_nlink'[dentry[f]] = counts[dentry[f]]
              /\ dentry[f] \notin drifted' => dentry[f] \notin drifted \cup missed
         /\ \A f \in Pointer : Held(f)' => Leading(dentry[f])' = Leading(dentry[f]) \ {e}
<1>1. /\ dentry'[e] = NoInode /\ dentry \in [Pointer -> Inodes \cup {NoInode}]
      /\ \A f \in Pointer \ {e} : dentry'[f] = dentry[f]
      /\ i_nlink' = [i \in Inodes |-> IF \E f \in Pointer : dentry'[f] = i THEN counts[i] ELSE 0]
      /\ \A f \in Pointer : dentry'[f] # NoInode =>
           (dentry'[f] \in drifted' <=> dentry'[f] \in drifted \cup missed)
  BY DropFacts DEF Typed
<1>2. 0 \in 0 .. LinkValues - 1  BY LinkValuesAssumption
<1>3. i_nlink' \in [Inodes -> 0 .. LinkValues - 1]  BY <1>1, <1>2
<1>4. ASSUME NEW f \in Pointer, Held(f)'
      PROVE  /\ f # e /\ Held(f) /\ dentry'[f] = dentry[f] /\ dentry[f] \in Inodes
             /\ i_nlink'[dentry[f]] = counts[dentry[f]]
             /\ dentry[f] \notin drifted' => dentry[f] \notin drifted \cup missed
             /\ Leading(dentry[f])' = Leading(dentry[f]) \ {e}
  <2>1. f # e /\ Held(f) /\ dentry'[f] = dentry[f]  BY <1>1, <1>4 DEF Held
  <2>2. dentry[f] \in Inodes  BY <1>1, <2>1 DEF Held
  <2>3. i_nlink'[dentry[f]] = counts[dentry[f]]
    <3>1. \E g \in Pointer : dentry'[g] = dentry[f]  BY <2>1
    <3> QED  BY <1>1, <2>2, <3>1
  <2>4. dentry[f] \notin drifted' => dentry[f] \notin drifted \cup missed
    BY <1>1, <2>1 DEF Held
  <2>5. Leading(dentry[f])' = Leading(dentry[f]) \ {e}
    BY <1>1, <2>1 DEF Leading, Held
  <2> QED  BY <2>1, <2>2, <2>3, <2>4, <2>5
<1> QED  BY <1>3, <1>4

LEMMA EvictCounted ==
  ASSUME Counted, mounted, NEW e \in all_entries, Evict(e)
  PROVE  Counted'
<1>1. /\ Shape /\ Typed /\ e \in Pointer /\ i_nlink \in [Inodes -> 0 .. LinkValues - 1]
      /\ Drop(e, i_nlink, {}) /\ UNCHANGED <<all_entries, entry, allocs>>
  BY DEF Counted, Shape, Typed, Evict, store_vars
<1>2. Shape'  BY <1>1, EvictShape
<1>3. /\ i_nlink' \in [Inodes -> 0 .. LinkValues - 1]
      /\ \A f \in Pointer : Held(f)' =>
           /\ Held(f) /\ dentry'[f] = dentry[f] /\ i_nlink'[dentry[f]] = i_nlink[dentry[f]]
           /\ dentry[f] \notin drifted' => dentry[f] \notin drifted \cup {}
      /\ \A f \in Pointer : Held(f)' => Leading(dentry[f])' = Leading(dentry[f]) \ {e}
  BY <1>1, Dropped
<1>4. ASSUME NEW f \in Pointer, Held(f)', NEW g \in Pointer, dentry'[g] = dentry'[f]
      PROVE  dentry[g] = dentry[f]
  BY <1>3, <1>4 DEF Leading
<1> QED  BY <1>1, <1>2, <1>3, <1>4, SameEntriesCounted


LEMMA MountCounted ==
  ASSUME LinksFit, Counted, Mount
  PROVE  Counted'
<1>1. Shape /\ Typed /\ Links /\ i_nlink \in [Inodes -> 0 .. LinkValues - 1]
      /\ root \in Dirs
  BY DEF Counted, Shape, Mount, Life, Loaded
<1>2. Shape'  BY <1>1, MountShape
<1>3. UNCHANGED <<all_entries, entry, allocs>>  BY DEF Mount, store_vars
<1>4. /\ root \in Pointer /\ fresh \in Inodes
      /\ dentry' \in [Pointer -> Inodes \cup {NoInode}] /\ dentry'[root] = fresh
      /\ \A f \in Pointer \ {root} : dentry'[f] = NoInode
      /\ i_nlink' = [i \in Inodes |->
           IF \E f \in Pointer : dentry'[f] = i
           THEN [i_nlink EXCEPT ![fresh] = 2][i] ELSE 0]
      /\ fresh \notin drifted' => entry[root].nlink = 2
  BY <1>1, MountDentries
<1> HIDE DEF fresh
<1>5. PICK i, D : i = fresh /\ D = dentry'
  OBVIOUS
<1>6. PICK count \in 0 .. LinkValues - 1 : count = 2
  BY SmallCounts
<1>7. /\ i_nlink' \in [Inodes -> 0 .. LinkValues - 1]
      /\ i_nlink'[i] = count
  <2>1. i_nlink' = [j \in Inodes |->
          IF \E f \in Pointer : D[f] = j THEN [i_nlink EXCEPT ![i] = count][j] ELSE 0]
    BY <1>4, <1>5, <1>6
  <2>2. /\ D[root] = i /\ D \in [Pointer -> Inodes \cup {NoInode}] /\ i \in Inodes
        /\ root \in Pointer
    BY <1>4, <1>5
  <2> QED  BY <1>1, <2>1, <2>2, FreshCount
<1>8. \A f \in Pointer : Held(f)' => f = root  BY <1>4 DEF Held
<1>9. CountsAgree'  BY <1>3, <1>4, <1>5, <1>6, <1>7, <1>8 DEF CountsAgree
<1>10. Files' = Files /\ root \notin Files  BY <1>1, <1>3 DEF Files, Dirs
<1>11. Files \subseteq Pointer  BY <1>1, EntrySets
<1>12. Covered'  BY <1>8, <1>10, <1>11 DEF Covered
<1>13. Links'  BY <1>1, <1>3, SameLinks
<1> QED  BY <1>2, <1>7, <1>9, <1>12, <1>13 DEF Counted

\* No dentry is held, before or after.
LEMMA UnheldCounted ==
  ASSUME Shape', Links', i_nlink' \in [Inodes -> 0 .. LinkValues - 1],
         \A e \in Pointer : ~Held(e)'
  PROVE  Counted'
<1>1. CountsAgree'  BY DEF CountsAgree
<1>2. Files' \subseteq Pointer  BY DEF Shape, Typed, Files
<1>3. Covered'  BY <1>2 DEF Covered
<1> QED  BY <1>1, <1>3 DEF Counted

LEMMA UnmountCounted ==
  ASSUME Counted, Unmount
  PROVE  Counted'
<1>1. Shape /\ Typed /\ Links  BY DEF Counted, Shape
<1>2. Shape'  BY <1>1, UnmountShape
<1>3. /\ UNCHANGED <<all_entries, entry, allocs>>
      /\ dentry' = NoDentries /\ i_nlink' = NoCounts
  BY DEF Unmount, store_vars
<1>4. Links'  BY <1>1, <1>3, SameLinks
<1>5. \A e \in Pointer : ~Held(e)'  BY <1>3 DEF Held, NoDentries
<1>6. i_nlink' \in [Inodes -> 0 .. LinkValues - 1]
  BY <1>3, LinkValuesAssumption DEF NoCounts
<1> QED  BY <1>2, <1>4, <1>5, <1>6, UnheldCounted

LEMMA LifeCounted ==
  ASSUME Counted,
         \/ InitHttp \/ InitStorage \/ StorageFails \/ Register \/ RegisterFails \/ vtfs_exit
  PROVE  Counted'
<1>1. /\ Shape /\ Typed /\ Links /\ i_nlink \in [Inodes -> 0 .. LinkValues - 1]
      /\ Life /\ DentriesLive
  BY DEF Counted, Shape
<1>2. Shape' /\ Typed'
  <2>1. Shape'  BY <1>1, LifeShape
  <2> QED  BY <2>1 DEF Shape
<1>3. /\ UNCHANGED <<mounted, dentry, i_nlink>> /\ ~mounted
  BY <1>1
  DEF InitHttp, InitStorage, StorageFails, Register, RegisterFails, vtfs_exit, Gone,
      inode_vars, Life, MayUnload
<1>4. \A e \in Pointer : ~Held(e)'  BY <1>1, <1>3 DEF DentriesLive, Held
<1>5. Links'
  <2>1. CASE InitStorage
    <3>1. /\ all_entries' = {root} /\ entry' = [entry EXCEPT ![root] = Root] /\ allocs' = 0
      BY <2>1 DEF InitStorage
    <3>2. root \in Pointer  BY PointersFinite DEF Pointer, root
    <3>3. entry'[root].nlink = 2 /\ entry'[root].dir = TRUE
      BY <1>1, <3>1, <3>2 DEF Typed, Root
    <3>4. Files' = {} /\ Dirs' = {root}  BY <3>1, <3>3 DEF Files, Dirs
    <3>5. Cardinality(Children(root) \cap Dirs)' = 0
      <4>1. Children(root)' = {}  BY <3>1 DEF Children
      <4> QED  BY <4>1, FS_EmptySet
    <3>6. Own(root)' = 2  BY <3>3, <3>5 DEF Own
    <3> QED  BY <3>1, <3>3, <3>4, <3>6 DEF Links
  <2>2. CASE RegisterFails \/ vtfs_exit
    <3>1. all_entries' = {}
      BY <1>1, <2>2, CleanupEmpties DEF RegisterFails, vtfs_exit
    <3> QED  BY <3>1 DEF Links, Files, Dirs
  <2>3. CASE InitHttp \/ StorageFails \/ Register
    <3>1. UNCHANGED <<all_entries, entry, allocs>>
      BY <2>3 DEF InitHttp, StorageFails, Register, store_vars
    <3> QED  BY <1>1, <3>1, SameLinks
  <2> QED  BY <2>1, <2>2, <2>3
<1>6. i_nlink' \in [Inodes -> 0 .. LinkValues - 1]  BY <1>1, <1>3
<1> QED  BY <1>2, <1>4, <1>5, <1>6, UnheldCounted

LEMMA UndoneCounted ==
  ASSUME Counted, NEW parent, NEW name, Undone(parent, name)
  PROVE  Counted'
<1>1. Shape /\ Typed /\ Links /\ CountsAgree /\ Covered  BY DEF Counted, Shape
<1>2. Shape'  BY <1>1, UndoneShape
<1>3. /\ UNCHANGED <<all_entries, entry, dentry, i_nlink, drifted>> /\ allocs' = allocs + 1
  BY DEF Undone, inode_vars
<1>4. Links'  BY <1>1, <1>3, SameLinks
<1>5. Files' = Files /\ \A e : Held(e)' <=> Held(e)  BY <1>3 DEF Files, Dirs, Held
<1>6. CountsAgree'  BY <1>1, <1>3, <1>5 DEF CountsAgree
<1>7. ASSUME NEW e \in Files, Held(e)
      PROVE  /\ Cardinality(Leading(dentry[e]))' <= i_nlink'[dentry'[e]]
             /\ i_nlink'[dentry'[e]] <= allocs' + 2
  <2>1. Leading(dentry[e])' = Leading(dentry[e])  BY <1>3 DEF Leading
  <2>2. e \in Pointer /\ allocs \in Nat  BY <1>1, EntrySets
  <2>3. dentry[e] \in Inodes  BY <1>1, <1>7, <2>2, Sharing
  <2>4. i_nlink[dentry[e]] \in Int  BY <2>3, LinkValuesAssumption DEF Counted
  <2>5. /\ Cardinality(Leading(dentry[e])) <= i_nlink[dentry[e]]
        /\ i_nlink[dentry[e]] <= allocs + 2
    BY <1>1, <1>7 DEF Covered
  <2> QED  BY <1>3, <2>1, <2>2, <2>4, <2>5
<1>8. Covered'  BY <1>5, <1>7 DEF Covered
<1>9. i_nlink' \in [Inodes -> 0 .. LinkValues - 1]  BY <1>3 DEF Counted
<1> QED  BY <1>2, <1>4, <1>6, <1>8, <1>9 DEF Counted

LEMMA RmdirCounted ==
  ASSUME LinksFit, Counted, mounted, NEW e \in all_entries, Rmdir(e)
  PROVE  Counted'
<1>1. PICK d, at : d = entry[e].parent /\ at = dentry[d]
  OBVIOUS
<1>2. /\ Shape /\ Typed /\ Links /\ CountsAgree /\ Covered /\ Numbers /\ Tree
      /\ i_nlink \in [Inodes -> 0 .. LinkValues - 1] /\ Held(e) /\ e \in Dirs
      /\ e \in all_entries \ {root} /\ Children(e) = {} /\ DeleteEntry(e) /\ e \in Pointer
      /\ Drop(e, Plus(i_nlink, at, -1), {})
  BY <1>1 DEF Counted, Shape, Typed, Rmdir, MayRmdir, HeldDirs
<1>3. /\ d \in HeldDirs /\ d \in Dirs /\ d \in all_entries /\ d \in Pointer /\ Held(d)
      /\ at \in Inodes /\ d # e
  <2>1. d \in HeldDirs  BY <1>1, <1>2, Sharing
  <2>2. d \in Dirs /\ d \in all_entries /\ d \in Pointer /\ Held(d)
    BY <1>2, <2>1, EntrySets DEF HeldDirs
  <2>3. at \in Inodes  BY <1>1, <1>2, <2>2, Sharing
  <2>4. d < e /\ e \in Int  BY <1>1, <1>2, PointersFinite DEF Tree, Pointer
  <2> QED  BY <2>1, <2>2, <2>3, <2>4
<1>4. Shape'  BY <1>2, RmdirShape
<1>5. Deleted(e)  BY <1>2, DeleteFacts
<1>6. Links'  BY <1>2, <1>5, DeletedLinks
<1>7. PICK counts \in [Inodes -> 0 .. LinkValues - 1] :
        /\ counts = Plus(i_nlink, at, -1)
        /\ \A j \in Inodes \ {at} : counts[j] = i_nlink[j]
        /\ i_nlink[at] + (-1) \in 0 .. LinkValues - 1 => counts[at] = i_nlink[at] + (-1)
  BY <1>2, <1>3, PlusFacts
<1>8. /\ i_nlink' \in [Inodes -> 0 .. LinkValues - 1]
      /\ \A f \in Pointer : Held(f)' =>
           /\ f # e /\ Held(f) /\ dentry'[f] = dentry[f] /\ dentry[f] \in Inodes
           /\ i_nlink'[dentry[f]] = counts[dentry[f]]
           /\ dentry[f] \notin drifted' => dentry[f] \notin drifted \cup {}
      /\ \A f \in Pointer : Held(f)' => Leading(dentry[f])' = Leading(dentry[f]) \ {e}
  <2>1. Drop(e, counts, {})  BY <1>2, <1>7, Zenon
  <2> QED  BY <1>2, <2>1, Dropped
<1>9. ASSUME NEW f \in Pointer, Held(f)'
      PROVE  /\ f \in all_entries \ {e} /\ (dentry[f] = at <=> f = d)
             /\ dentry[e] # dentry[f] /\ entry[f].ino # entry[e].ino
             /\ entry'[f].nlink = entry[f].nlink - (IF f = d THEN 1 ELSE 0)
             /\ entry'[f].dir = entry[f].dir /\ entry[f].nlink \in Int
  <2>1. f # e /\ Held(f) /\ f \in all_entries  BY <1>2, <1>8, <1>9, Sharing
  <2>2. dentry[f] = at <=> f = d
    BY <1>1, <1>2, <1>3, <2>1, Sharing DEF Files
  <2>3. dentry[e] # dentry[f]  BY <1>2, <2>1, Sharing DEF Files
  <2>4. entry[f].ino # entry[e].ino  BY <1>2, <2>1 DEF Numbers, Files
  <2>5. entry[e].dir = TRUE  BY <1>2 DEF Dirs, Typed, Entry
  <2>6. entry[f].nlink \in Int  BY <1>2, <2>1, EntrySets
  <2>7. entry'[f].dir = entry[f].dir /\
        entry'[f].nlink = entry[f].nlink - 0 - (IF f = d THEN 1 ELSE 0)
    BY <1>1, <1>5, <2>1, <2>4, <2>5 DEF Deleted, SamePlace
  <2> QED  BY <2>1, <2>2, <2>3, <2>4, <2>6, <2>7
<1>10. ASSUME at \notin drifted
       PROVE  counts[at] = entry[d].nlink - 1
  <2>1. i_nlink[at] = entry[d].nlink  BY <1>1, <1>2, <1>3, <1>10 DEF CountsAgree
  <2>2. entry[d].nlink - 1 \in 0 .. LinkValues - 1
    <3>1. entry[d].nlink \in 0 .. LinkValues - 1 /\ entry[d].nlink >= 1
      BY <1>2, <1>3, LinksRange
    <3> QED  BY <3>1, LinkValuesAssumption
  <2>3. entry[d].nlink \in Int  BY <1>2, <1>3, EntrySets
  <2> QED  BY <1>7, <2>1, <2>2, <2>3
<1>11. CountsAgree'
  <2>1. ASSUME NEW f \in Pointer, Held(f)', dentry'[f] \notin drifted'
        PROVE  i_nlink'[dentry'[f]] = entry'[f].nlink
    <3>1. /\ Held(f) /\ dentry'[f] = dentry[f] /\ dentry[f] \in Inodes
          /\ i_nlink'[dentry[f]] = counts[dentry[f]] /\ dentry[f] \notin drifted
      BY <1>8, <2>1
    <3>2. CASE f = d  BY <1>1, <1>9, <1>10, <2>1, <3>1, <3>2
    <3>3. CASE f # d
      <4>1. counts[dentry[f]] = i_nlink[dentry[f]]  BY <1>7, <1>9, <2>1, <3>1, <3>3
      <4>2. i_nlink[dentry[f]] = entry[f].nlink  BY <1>2, <3>1 DEF CountsAgree
      <4>3. entry'[f].nlink = entry[f].nlink  BY <1>9, <2>1, <3>3
      <4> QED  BY <3>1, <4>1, <4>2, <4>3
    <3> QED  BY <3>2, <3>3
  <2> QED  BY <2>1 DEF CountsAgree
<1>12. Covered'
  <2>1. ASSUME NEW f \in Files', Held(f)'
        PROVE  /\ Cardinality(Leading(dentry[f]))' <= i_nlink'[dentry'[f]]
               /\ i_nlink'[dentry'[f]] <= allocs' + 2
    <3>1. f \in Pointer  BY <1>4, <2>1 DEF Shape, Typed, Files
    <3>2. /\ dentry'[f] = dentry[f] /\ dentry[f] \in Inodes /\ Held(f)
          /\ i_nlink'[dentry[f]] = counts[dentry[f]]
          /\ Leading(dentry[f])' = Leading(dentry[f]) \ {e}
      BY <1>8, <2>1, <3>1
    <3>3. f \in Files /\ f # d
      BY <1>2, <1>3, <1>9, <2>1, <3>1 DEF Files, Dirs
    <3>4. counts[dentry[f]] = i_nlink[dentry[f]]  BY <1>7, <1>9, <2>1, <3>1, <3>2, <3>3
    <3>5. Leading(dentry[f])' = Leading(dentry[f])
      BY <1>9, <2>1, <3>1, <3>2 DEF Leading
    <3>6. allocs' = allocs  BY <1>5 DEF Deleted
    <3> QED  BY <1>2, <3>2, <3>3, <3>4, <3>5, <3>6 DEF Covered
  <2> QED  BY <2>1 DEF Covered
<1> QED  BY <1>4, <1>6, <1>8, <1>11, <1>12 DEF Counted


LEMMA UnlinkCounted ==
  ASSUME LinksFit, Counted, mounted, NEW e \in all_entries, Unlink(e)
  PROVE  Counted'
<1>1. PICK at : at = dentry[e]
  OBVIOUS
<1>2. /\ Shape /\ Typed /\ Links /\ CountsAgree /\ Covered /\ Numbers
      /\ i_nlink \in [Inodes -> 0 .. LinkValues - 1] /\ Held(e) /\ e \in Files
      /\ DeleteEntry(e) /\ e \in Pointer /\ Drop(e, UnlinkCount(e), Others(e))
  BY DEF Counted, Shape, Typed, Unlink
<1>3. /\ e \in all_entries \ {root} /\ Children(e) = {} /\ entry[e].dir = FALSE
      /\ at \in Inodes /\ Others(e) \in SUBSET Inodes
  BY <1>1, <1>2, FileIsLeaf, Sharing, OthersFacts
<1>4. Shape'  BY <1>2, UnlinkShape
<1>5. Deleted(e)  BY <1>2, DeleteFacts
<1>6. Links'  BY <1>2, <1>3, <1>5, DeletedLinks
<1>7. PICK counts \in [Inodes -> 0 .. LinkValues - 1] :
        /\ counts = Plus(i_nlink, at, -1)
        /\ \A j \in Inodes \ {at} : counts[j] = i_nlink[j]
        /\ i_nlink[at] + (-1) \in 0 .. LinkValues - 1 => counts[at] = i_nlink[at] + (-1)
  BY <1>2, <1>3, PlusFacts
<1>8. PICK missed \in SUBSET Inodes : missed = Others(e)
  BY <1>3
<1>9. /\ i_nlink' \in [Inodes -> 0 .. LinkValues - 1]
      /\ \A f \in Pointer : Held(f)' =>
           /\ f # e /\ Held(f) /\ dentry'[f] = dentry[f] /\ dentry[f] \in Inodes
           /\ i_nlink'[dentry[f]] = counts[dentry[f]]
           /\ dentry[f] \notin drifted' => dentry[f] \notin drifted \cup missed
      /\ \A f \in Pointer : Held(f)' => Leading(dentry[f])' = Leading(dentry[f]) \ {e}
  <2>1. UnlinkCount(e) = counts  BY <1>1, <1>7 DEF UnlinkCount
  <2>2. Drop(e, counts, missed)  BY <1>2, <1>8, <2>1, Zenon
  <2> QED  BY <1>2, <2>2, Dropped
  \* the inode has the link that goes: one for each of its dentries
<1>10. /\ Leading(at) \in SUBSET Pointer /\ e \in Leading(at)
       /\ Cardinality(Leading(at) \ {e}) = Cardinality(Leading(at)) - 1
       /\ Cardinality(Leading(at)) \in Nat /\ Cardinality(Leading(at)) >= 1
       /\ Cardinality(Leading(at)) <= i_nlink[at] /\ i_nlink[at] <= allocs + 2
  <2>1. Leading(at) \in SUBSET Pointer /\ e \in Leading(at)
    BY <1>1, <1>2 DEF Leading
  <2>2. Cardinality(Leading(at)) <= i_nlink[at] /\ i_nlink[at] <= allocs + 2
    BY <1>1, <1>2 DEF Covered
  <2> QED  BY <2>1, <2>2, OneLess, SomePointers
<1>11. counts[at] = i_nlink[at] - 1 /\ i_nlink[at] \in Int /\ allocs \in Nat
  <2>1. i_nlink[at] \in 0 .. LinkValues - 1  BY <1>2, <1>3
  <2>2. i_nlink[at] + (-1) \in 0 .. LinkValues - 1
    BY <1>10, <2>1, LinkValuesAssumption
  <2> QED  BY <1>2, <1>7, <2>1, <2>2, LinkValuesAssumption DEF Typed
<1>12. ASSUME NEW f \in Pointer, Held(f)'
       PROVE  /\ f \in all_entries \ {e} /\ entry'[f].dir = entry[f].dir
              /\ entry[f].nlink \in Int
              /\ entry'[f].nlink = entry[f].nlink
                                   - (IF entry[f].ino = entry[e].ino THEN 1 ELSE 0)
              /\ dentry[f] = at => entry[f].ino = entry[e].ino
              /\ dentry[f] # at /\ entry[f].ino = entry[e].ino => dentry[f] \in missed
  <2>1. f # e /\ Held(f) /\ f \in all_entries  BY <1>2, <1>9, <1>12, Sharing
  <2>2. dentry[f] = at => entry[f].ino = entry[e].ino  BY <1>1, <1>2, Sharing
  <2>3. dentry[f] # at /\ entry[f].ino = entry[e].ino => dentry[f] \in missed
    BY <1>1, <1>8, <2>1 DEF Others, WithIno, Held
  <2>4. entry'[f].dir = entry[f].dir
        /\ entry'[f].nlink = entry[f].nlink
                             - (IF entry[f].ino = entry[e].ino THEN 1 ELSE 0) - 0
    BY <1>3, <1>5, <2>1 DEF Deleted, SamePlace
  <2>5. entry[f].nlink \in Int  BY <1>2, <2>1, EntrySets
  <2> QED  BY <2>1, <2>2, <2>3, <2>4, <2>5
<1>13. CountsAgree'
  <2>1. ASSUME NEW f \in Pointer, Held(f)', dentry'[f] \notin drifted'
        PROVE  i_nlink'[dentry'[f]] = entry'[f].nlink
    <3>1. /\ Held(f) /\ dentry'[f] = dentry[f] /\ dentry[f] \in Inodes
          /\ i_nlink'[dentry[f]] = counts[dentry[f]]
          /\ dentry[f] \notin drifted /\ dentry[f] \notin missed
      BY <1>9, <2>1
    <3>2. i_nlink[dentry[f]] = entry[f].nlink  BY <1>2, <3>1 DEF CountsAgree
    <3>3. CASE dentry[f] = at
      <4>1. entry'[f].nlink = entry[f].nlink - 1  BY <1>12, <2>1, <3>3
      <4> QED  BY <1>11, <3>1, <3>2, <3>3, <4>1
    <3>4. CASE dentry[f] # at
      <4>1. entry[f].ino # entry[e].ino  BY <1>12, <2>1, <3>1, <3>4
      <4>2. entry'[f].nlink = entry[f].nlink - 0 /\ entry[f].nlink \in Int
        BY <1>12, <2>1, <4>1
      <4>3. counts[dentry[f]] = i_nlink[dentry[f]]  BY <1>7, <3>1, <3>4
      <4> QED  BY <3>1, <3>2, <4>2, <4>3
    <3> QED  BY <3>3, <3>4
  <2> QED  BY <2>1 DEF CountsAgree
<1>14. Covered'
  <2>1. ASSUME NEW f \in Files', Held(f)'
        PROVE  /\ Cardinality(Leading(dentry[f]))' <= i_nlink'[dentry'[f]]
               /\ i_nlink'[dentry'[f]] <= allocs' + 2
    <3>1. f \in Pointer  BY <1>4, <2>1 DEF Shape, Typed, Files
    <3>2. /\ dentry'[f] = dentry[f] /\ dentry[f] \in Inodes /\ Held(f)
          /\ i_nlink'[dentry[f]] = counts[dentry[f]]
          /\ Leading(dentry[f])' = Leading(dentry[f]) \ {e}
      BY <1>9, <2>1, <3>1
    <3>3. allocs' = allocs  BY <1>5 DEF Deleted
    <3>4. CASE dentry[f] = at
      <4>1. Cardinality(Leading(dentry[f]))' = Cardinality(Leading(at)) - 1
        BY <1>10, <3>2, <3>4
      <4>2. i_nlink'[dentry'[f]] = i_nlink[at] - 1  BY <1>11, <3>2, <3>4
      <4> QED  BY <1>10, <1>11, <3>3, <4>1, <4>2
    <3>5. CASE dentry[f] # at
      <4>1. f \in Files  BY <1>12, <2>1, <3>1 DEF Files, Dirs
      <4>2. Leading(dentry[f])' = Leading(dentry[f])
        BY <1>1, <3>2, <3>5 DEF Leading
      <4>3. counts[dentry[f]] = i_nlink[dentry[f]]  BY <1>7, <3>2, <3>5
      <4> QED  BY <1>2, <3>2, <3>3, <4>1, <4>2, <4>3 DEF Covered
    <3> QED  BY <3>4, <3>5
  <2> QED  BY <2>1 DEF Covered
<1> QED  BY <1>4, <1>6, <1>9, <1>13, <1>14 DEF Counted

LEMMA LinkCounted ==
  ASSUME LinksFit, Counted, mounted, NEW e \in all_entries, NEW place \in Free,
         Link(e, place[1], place[2])
  PROVE  Counted'
<1>1. PICK at, new, parent : at = dentry[e] /\ new = allocs + 1 /\ parent = place[1]
  OBVIOUS
<1>2. /\ Shape /\ Typed /\ Links /\ CountsAgree /\ Covered /\ Numbers /\ Loaded
      /\ i_nlink \in [Inodes -> 0 .. LinkValues - 1] /\ Held(e) /\ e \in Files
      /\ e \in Pointer /\ parent \in Dirs /\ parent \in all_entries /\ place[2] \in Names
      /\ Link(e, parent, place[2])
  BY <1>1, PlaceFacts DEF Counted, Shape, Typed, Link, Life, Loaded, HeldDirs
<1>3. PICK count : count = entry[e].nlink + 1
  OBVIOUS
<1>4. LinkedTo(new, e, parent, count)
  <2>1. PICK found : found = vtfs_storage_get_by_ino(entry[e].ino)
    OBVIOUS
  <2>2. found \in all_entries /\ entry[found].ino = entry[e].ino
    BY <1>2, <2>1, GetByInoFinds
  <2>3. found \in Files  BY <1>2, <2>2 DEF Numbers
  <2>4. entry[found].nlink = entry[e].nlink  BY <1>2, <2>2, <2>3 DEF Links
  <2>5. count = entry[vtfs_storage_get_by_ino(entry[e].ino)].nlink + 1
    BY <1>3, <2>1, <2>4
  <2>6. LinkedTo(allocs + 1, e, parent, count)  BY <1>2, <2>5, LinkFacts
  <2> QED  BY <1>1, <2>6
<1>5. Shape'  BY <1>2, LinkShape
<1>6. Links'  BY <1>2, <1>3, <1>4, LinkedLinks
<1>7. /\ new \in Pointer /\ new \notin all_entries /\ all_entries' = all_entries \cup {new}
      /\ entry'[new].nlink = count /\ entry'[new].ino = entry[e].ino
      /\ entry'[new].dir = FALSE /\ allocs' = allocs + 1 /\ allocs \in Nat
      /\ allocs + 1 <= MaxEntries /\ MaxEntries \in Nat
  BY <1>1, <1>2, <1>4, PointersFinite DEF LinkedTo, Typed, Pointer
<1>8. /\ at \in Inodes /\ ~Held(new)
      /\ dentry' \in [Pointer -> Inodes \cup {NoInode}] /\ dentry'[new] = at
      /\ \A f \in Pointer \ {new} : dentry'[f] = dentry[f]
      /\ i_nlink' = [i \in Inodes |->
           IF \E f \in Pointer : dentry'[f] = i THEN LinkGains(e)[i] ELSE 0]
      /\ \A f \in Pointer : dentry'[f] # NoInode =>
           (dentry'[f] \in drifted' <=> dentry'[f] \in drifted \cup Others(e))
  BY <1>1, <1>2, LinkDentries
<1>9. PICK counts \in [Inodes -> 0 .. LinkValues - 1] :
        /\ counts = Plus(i_nlink, at, 1)
        /\ \A j \in Inodes \ {at} : counts[j] = i_nlink[j]
        /\ i_nlink[at] + 1 \in 0 .. LinkValues - 1 => counts[at] = i_nlink[at] + 1
  BY <1>2, <1>8, PlusFacts
<1>10. /\ Cardinality(Leading(at)) <= i_nlink[at] /\ i_nlink[at] <= allocs + 2
       /\ i_nlink[at] \in 0 .. LinkValues - 1 /\ Cardinality(Leading(at)) \in Nat
       /\ counts[at] = i_nlink[at] + 1 /\ i_nlink[at] \in Nat
  <2>1. Cardinality(Leading(at)) <= i_nlink[at] /\ i_nlink[at] <= allocs + 2
    BY <1>1, <1>2 DEF Covered
  <2>2. i_nlink[at] \in 0 .. LinkValues - 1 /\ Cardinality(Leading(at)) \in Nat
    BY <1>2, <1>8, LeadingFacts
  <2>3. i_nlink[at] + 1 \in 0 .. LinkValues - 1
    BY <1>7, <2>1, <2>2, LinkValuesAssumption DEF LinksFit
  <2> QED  BY <1>9, <2>1, <2>2, <2>3, LinkValuesAssumption
<1>11. /\ i_nlink' \in [Inodes -> 0 .. LinkValues - 1]
       /\ \A f \in Pointer : Held(f)' =>
            dentry'[f] \in Inodes /\ i_nlink'[dentry'[f]] = counts[dentry'[f]]
  <2>1. LinkGains(e) = counts  BY <1>1, <1>9 DEF LinkGains
  <2>2. i_nlink' = [i \in Inodes |->
          IF \E f \in Pointer : dentry'[f] = i THEN counts[i] ELSE 0]
    BY <1>8, <2>1
  <2>3. 0 \in 0 .. LinkValues - 1  BY LinkValuesAssumption
  <2>4. i_nlink' \in [Inodes -> 0 .. LinkValues - 1]  BY <2>2, <2>3
  <2>5. ASSUME NEW f \in Pointer, Held(f)'
        PROVE  dentry'[f] \in Inodes /\ i_nlink'[dentry'[f]] = counts[dentry'[f]]
    <3>1. dentry'[f] \in Inodes  BY <1>8, <2>5 DEF Held
    <3> QED  BY <2>2, <3>1
  <2> QED  BY <2>4, <2>5
<1>12. ASSUME NEW f \in Pointer \ {new}, Held(f)'
       PROVE  /\ f \in all_entries /\ entry'[f].dir = entry[f].dir
              /\ Held(f) /\ dentry'[f] = dentry[f] /\ dentry[f] \in Inodes
              /\ entry'[f].nlink = IF entry[f].ino = entry[e].ino THEN count ELSE entry[f].nlink
              /\ dentry[f] = at => entry[f].ino = entry[e].ino
              /\ dentry[f] \notin drifted' => dentry[f] \notin drifted
              /\ dentry[f] \notin drifted' /\ dentry[f] # at => entry[f].ino # entry[e].ino
  <2>1. Held(f) /\ dentry'[f] = dentry[f]  BY <1>8, <1>12 DEF Held
  <2>2. f \in all_entries /\ dentry[f] \in Inodes  BY <1>2, <2>1, Sharing
  <2>3. dentry[f] = at => entry[f].ino = entry[e].ino  BY <1>1, <1>2, Sharing
  <2>4. entry[f].ino = entry[e].ino /\ dentry[f] # at => dentry[f] \in Others(e)
    BY <1>1, <2>1, <2>2 DEF Others, WithIno, Held
  <2>5. dentry[f] \notin drifted' => dentry[f] \notin drifted \cup Others(e)
    BY <1>8, <2>1 DEF Held
  <2>6. entry'[f].dir = entry[f].dir
        /\ entry'[f].nlink = IF entry[f].ino = entry[e].ino THEN count ELSE entry[f].nlink
    BY <1>4, <2>2 DEF LinkedTo, SamePlace
  <2> QED  BY <2>1, <2>2, <2>3, <2>4, <2>5, <2>6
<1>13. at \notin drifted' => at \notin drifted
  <2>1. e # new /\ dentry'[e] = at /\ at # NoInode
    BY <1>1, <1>2, <1>7, <1>8 DEF Held, Files
  <2> QED  BY <1>2, <1>8, <2>1
<1>14. at \notin drifted => counts[at] = count
  BY <1>1, <1>2, <1>3, <1>10 DEF CountsAgree
<1>15. CountsAgree'
  <2>1. ASSUME NEW f \in Pointer, Held(f)', dentry'[f] \notin drifted'
        PROVE  i_nlink'[dentry'[f]] = entry'[f].nlink
    <3>1. CASE f = new
      BY <1>7, <1>8, <1>11, <1>13, <1>14, <2>1, <3>1
    <3>2. CASE f # new /\ dentry'[f] = at
      <4>1. entry'[f].nlink = count  BY <1>12, <2>1, <3>2
      <4> QED  BY <1>11, <1>13, <1>14, <2>1, <3>2, <4>1
    <3>3. CASE f # new /\ dentry'[f] # at
      <4>1. /\ Held(f) /\ dentry'[f] = dentry[f] /\ dentry[f] \in Inodes
            /\ dentry[f] \notin drifted /\ entry'[f].nlink = entry[f].nlink
        BY <1>12, <2>1, <3>3
      <4>2. i_nlink[dentry[f]] = entry[f].nlink  BY <1>2, <4>1 DEF CountsAgree
      <4>3. counts[dentry[f]] = i_nlink[dentry[f]]  BY <1>9, <3>3, <4>1
      <4> QED  BY <1>11, <2>1, <4>1, <4>2, <4>3
    <3> QED  BY <3>1, <3>2, <3>3
  <2> QED  BY <2>1 DEF CountsAgree
<1>16. Covered'
  <2>1. ASSUME NEW f \in Files', Held(f)'
        PROVE  /\ Cardinality(Leading(dentry[f]))' <= i_nlink'[dentry'[f]]
               /\ i_nlink'[dentry'[f]] <= allocs' + 2
    <3>1. f \in Pointer  BY <1>5, <2>1 DEF Shape, Typed, Files
    <3>2. i_nlink'[dentry'[f]] = counts[dentry'[f]]  BY <1>11, <2>1, <3>1
    <3>3. CASE dentry'[f] = at
      <4>1. Leading(dentry[f])' = Leading(at) \cup {new}
        BY <1>7, <1>8, <3>3 DEF Leading
      <4>2. new \notin Leading(at)  BY <1>8 DEF Leading, Held, Inodes, NoInode
      <4>3. Cardinality(Leading(at) \cup {new}) = Cardinality(Leading(at)) + 1
        BY <4>2, LeadingFacts, OneMore
      <4>4. Cardinality(Leading(dentry[f]))' = Cardinality(Leading(at)) + 1
        BY <4>1, <4>3
      <4> QED  BY <1>7, <1>10, <3>2, <3>3, <4>4
    <3>4. CASE dentry'[f] # at
      <4>1. f \in Pointer \ {new}  BY <1>8, <3>1, <3>4
      <4>2. /\ Held(f) /\ dentry'[f] = dentry[f] /\ dentry[f] \in Inodes
            /\ f \in all_entries /\ entry'[f].dir = entry[f].dir
        BY <1>12, <2>1, <4>1
      <4>3. f \in Files  BY <2>1, <4>2 DEF Files, Dirs
      <4>4. Leading(dentry[f])' = Leading(dentry[f])
        <5>1. dentry'[new] # dentry[f] /\ dentry[new] # dentry[f]
          BY <1>8, <3>4, <4>2 DEF Held
        <5>2. \A g \in Pointer : dentry'[g] = dentry'[f] <=> dentry[g] = dentry[f]
          BY <1>8, <4>2, <5>1
        <5> QED  BY <5>2 DEF Leading
      <4>5. counts[dentry[f]] = i_nlink[dentry[f]] /\ i_nlink[dentry[f]] \in Int
        BY <1>2, <1>9, <3>4, <4>2, LinkValuesAssumption
      <4>6. /\ Cardinality(Leading(dentry[f])) <= i_nlink[dentry[f]]
            /\ i_nlink[dentry[f]] <= allocs + 2
        BY <1>2, <4>2, <4>3 DEF Covered
      <4> QED  BY <1>7, <3>2, <4>2, <4>4, <4>5, <4>6
    <3> QED  BY <3>3, <3>4
  <2> QED  BY <2>1 DEF Covered
<1> QED  BY <1>5, <1>6, <1>11, <1>15, <1>16 DEF Counted

-----------------------------------------------------------------------------
(***************************************************************************)
(* The second layer is invariant, and what it says.                        *)
(***************************************************************************)
LEMMA HandlersCounted ==
  ASSUME LinksFit, Counted, mounted, Handlers
  PROVE  Counted'
<1>1. CASE \E e \in all_entries : Evict(e) \/ Lookup(e) \/ Unlink(e) \/ Rmdir(e)
  BY <1>1, EvictCounted, LookupCounted, UnlinkCounted, RmdirCounted
<1>2. ASSUME NEW place \in Free,
             \/ \E isdir \in BOOLEAN : Fetch(place[1], place[2], isdir)
             \/ Create(place[1], place[2]) \/ Mkdir(place[1], place[2])
             \/ Undone(place[1], place[2])
             \/ \E e \in all_entries : Link(e, place[1], place[2])
      PROVE  Counted'
  BY <1>2, FetchCounted, CreateCounted, MkdirCounted, UndoneCounted, LinkCounted
<1> QED  BY <1>1, <1>2 DEF Handlers

LEMMA CountedInductive ==
  ASSUME LinksFit
  PROVE  Counted /\ [Next]_vars => Counted'
<1> SUFFICES ASSUME Counted, [Next]_vars PROVE Counted'
  OBVIOUS
<1>1. CASE UNCHANGED vars
  <2>1. UNCHANGED <<all_entries, entry, next_ino, allocs, stage, http, mounted, dentry, i_nlink, drifted>>
    BY <1>1 DEF vars, store_vars, kernel_vars, inode_vars
  <2>2. Shape'
    <3>1. Shape  BY DEF Counted
    <3> QED  BY <3>1, ShapeInductive
  <2>3. \A f \in Pointer : Held(f)' =>
          /\ Held(f) /\ dentry'[f] = dentry[f] /\ i_nlink'[dentry[f]] = i_nlink[dentry[f]]
          /\ dentry[f] \notin drifted' => dentry[f] \notin drifted
          /\ \A g \in Pointer : dentry'[g] = dentry'[f] => dentry[g] = dentry[f]
    BY <2>1 DEF Held
  <2>4. i_nlink' \in [Inodes -> 0 .. LinkValues - 1]  BY <2>1 DEF Counted
  <2> QED  BY <2>1, <2>2, <2>3, <2>4, SameEntriesCounted
<1> QED
  BY <1>1, LifeCounted, MountCounted, UnmountCounted, HandlersCounted DEF Next

LEMMA CountedInitially == Init => Counted
<1> SUFFICES ASSUME Init PROVE Counted
  OBVIOUS
<1>1. Shape  BY ShapeInitially
<1>2. all_entries = {} /\ dentry = NoDentries /\ i_nlink = NoCounts  BY DEF Init
<1>3. i_nlink \in [Inodes -> 0 .. LinkValues - 1]
  BY <1>2, LinkValuesAssumption DEF NoCounts
<1>4. Links /\ Covered  BY <1>2 DEF Links, Covered, Files, Dirs
<1>5. CountsAgree  BY <1>2 DEF CountsAgree, Held, NoDentries
<1> QED  BY <1>1, <1>3, <1>4, <1>5 DEF Counted

LEMMA CountedInvariance ==
  ASSUME LinksFit
  PROVE  Spec => []Counted
<1>1. Counted /\ [Next]_vars => Counted'  BY CountedInductive
<1> QED  BY <1>1, CountedInitially, PTL DEF Spec

\* Every variable keeps its type, the counts of the struct inodes among them.
THEOREM TypesHold ==
  ASSUME LinksFit
  PROVE  Spec => []TypeOK
<1>1. Counted => TypeOK  BY DEF Counted, Shape, Typed, TypeOK
<1> QED  BY <1>1, CountedInvariance, PTL

\* A struct inode has the link count of the entry unless it missed a change
\* that went through no inode or another one (vtfs_fill_super, vtfs_lookup,
\* vtfs_mkdir, vtfs_rmdir, vtfs_unlink, vtfs_link).
THEOREM CountsAlwaysAgree ==
  ASSUME LinksFit
  PROVE  Spec => []CountsAgree
<1>1. Counted => CountsAgree  BY DEF Counted
<1> QED  BY <1>1, CountedInvariance, PTL

\* The drop_nlink of vtfs_unlink never meets a count of zero: an inode of a file
\* has a link for each dentry that leads to it, whichever changes it missed.
THEOREM UnlinksAlwaysCovered ==
  ASSUME LinksFit
  PROVE  Spec => []UnlinksCovered
<1>1. ASSUME Counted PROVE UnlinksCovered
  <2>1. Shape /\ Typed /\ Covered  BY <1>1 DEF Counted, Shape
  <2>2. ASSUME NEW e \in Pointer, Held(e), ~entry[e].dir
        PROVE  Cardinality({f \in Pointer : dentry[f] = dentry[e]}) <= i_nlink[dentry[e]]
    <3>1. e \in all_entries  BY <2>1, <2>2, Sharing
    <3>2. e \in Files  BY <2>2, <3>1 DEF Files, Dirs
    <3>3. Cardinality(Leading(dentry[e])) <= i_nlink[dentry[e]]
      BY <2>1, <2>2, <3>2 DEF Covered
    <3> QED  BY <3>3 DEF Leading
  <2> QED  BY <2>2 DEF UnlinksCovered
<1> QED  BY <1>1, CountedInvariance, PTL

=============================================================================
