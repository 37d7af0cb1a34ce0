------------------------- MODULE VtfsInodeOpsProofs -------------------------
(***************************************************************************)
(* Proofs about VtfsInodeOps, for any set of threads, names and bounds, on *)
(* one mount.  Every name of a file is taken to have a struct inode of its *)
(* own, so nothing rests on two names excluding each other.                *)
(***************************************************************************)
EXTENDS VtfsInodeOps, FiniteSetTheorems, WellFoundedInduction, TLAPS

\* The store is mounted once: two handlers in one directory, or on one name,
\* take the same lock.
OneMount == \A m, n \in Mounts : m = n

-----------------------------------------------------------------------------
(***************************************************************************)
(* The inductive invariant: the tree and the numbers, what each call knows *)
(* of the store at the step it is at, and what keeps two calls apart.      *)
(***************************************************************************)
StoreOK ==
  /\ all_entries \subseteq 0 .. allocs
  /\ \A e \in all_entries \ {root} : entry[e].name \in Names
  /\ UniqueNames
  /\ WellFormedTree
  /\ InoDiscipline

StepsOf(op) ==
  CASE op = "create" -> {"check", "insert", "get_inode", "delete"}
    [] op = "mkdir"  -> {"check", "insert", "init_nlink", "get_inode", "delete"}
    [] op = "link"   -> {"check", "insert", "add_link", "undefined"}
    [] op = "lookup" -> {"find", "fetch", "check", "insert", "get_inode"}
    [] OTHER         -> {"find", "delete"}

Holding == {"init_nlink", "get_inode", "add_link", "delete"}

\* The inode i is the one and only struct inode of entry e.
InodeOf(i, e) == i.mount \in Mounts /\ i.entry = e

\* e is the entry c.name in the directory of the call.
IsName(c, e) ==
  e \in Children(c.parent) /\ entry[e].name = c.name

InStep(c) ==
  /\ c.op \in Ops /\ c.step \in StepsOf(c.op) /\ c.name \in Names
  /\ c.isdir => c.op \in {"mkdir", "lookup"}
  /\ c.op = "mkdir" => c.isdir
  /\ c.op # "link" => c.ino = 0
  /\ c.op \in {"create", "mkdir", "lookup"} => c.node = NoInode
  /\ c.step \notin Holding \cup {"undefined"} => c.child = NULL
  /\ c.step \in Holding => c.child # NULL

HasParent(c) == c.parent \in Dirs /\ InodeOf(c.dir, c.parent)
HasChild(c) == c.child # NULL => IsName(c, c.child)
HasVictim(c) ==
  c.op \in {"unlink", "rmdir"} => IsName(c, c.node.entry) /\ c.node.mount \in Mounts

\* The name a link starts from stays, locked, and with it its number; the
\* target, if it is there, is a name of the same file.
Source(c) == c.node.entry
HasSource(c) ==
  c.op = "link" =>
    /\ c.node.mount \in Mounts /\ Source(c) \in Files
    /\ c.target \in 0 .. allocs
    /\ c.target \in all_entries =>
         c.target \in Files /\ entry[c.target].ino = entry[Source(c)].ino
    /\ c.step \in {"insert", "add_link"} => c.ino = entry[Source(c)].ino

\* Nothing can take the name, or fill the directory, before the next step.
NameIsFree(c) == c.step = "insert" => \A e \in all_entries : ~IsName(c, e)
ChildMayGo(c) == c.step = "delete" => MayDelete(c.child)

\* The entry just linked is another name of the target, the entry just created
\* is of the type asked for, the only name of its inode, and empty.
IsLinked(c) ==
  c.step = "add_link" =>
    /\ c.child \in Files /\ c.child # c.target
    /\ entry[c.child].ino = c.ino
IsFresh(c) ==
  c.op \in {"create", "mkdir"} /\ c.step \in Holding =>
    /\ WithIno(entry[c.child].ino) = {c.child} /\ Children(c.child) = {}
    /\ entry[c.child].dir = c.isdir

CallOK(c) ==
  c # Idle =>
    /\ InStep(c) /\ HasParent(c) /\ HasChild(c) /\ HasSource(c) /\ HasVictim(c)
    /\ NameIsFree(c) /\ ChildMayGo(c) /\ IsLinked(c) /\ IsFresh(c)

\* Two calls: their locks agree, and what one has just created is not known to
\* the other.
Apart(c, d) ==
  c # Idle /\ d # Idle =>
    /\ ~Conflict(c, d)
    /\ c.op \in {"create", "mkdir"} /\ c.step \in Holding =>
         c.child # d.parent /\ c.child # d.node.entry

IInv ==
  /\ TypeOK
  /\ StoreOK
  /\ \A p \in Procs : CallOK(call[p])
  /\ \A p, q \in Procs : p # q => Apart(call[p], call[q])

-----------------------------------------------------------------------------
(***************************************************************************)
(* Walks of the lists.                                                     *)
(***************************************************************************)

\* A nonempty bounded set of numbers has a greatest element.
LEMMA Greatest ==
  ASSUME NEW n \in Nat, NEW S \in SUBSET (0 .. n), S # {}
  PROVE  \E e \in S : \A f \in S : f <= e
<1> DEFINE Less == OpToRel(<, Nat)
           T == {k \in Nat : n - k \in S}
<1>1. IsWellFoundedOn(Less, Nat)
  BY NatLessThanWellFounded
<1>2. T \subseteq Nat /\ T # {}
  <2>1. PICK e \in S : TRUE  OBVIOUS
  <2>2. n - e \in T  BY <2>1
  <2> QED  BY <2>2
<1>3. PICK k \in T : \A j \in T : ~(<<j, k>> \in Less)
  <2> HIDE DEF Less, T
  <2> QED  BY <1>1, <1>2, WFMin
<1>4. ASSUME NEW f \in S PROVE f <= n - k
  <2>1. n - f \in T  OBVIOUS
  <2>2. ~(n - f < k)  BY <1>3, <2>1 DEF OpToRel
  <2> QED  BY <2>2
<1> QED  BY <1>3, <1>4

\* A walk that has something to match returns a match, the newest one.
LEMMA FirstMatches ==
  ASSUME NEW S \in SUBSET Pointer, S # {}, MaxEntries \in Nat
  PROVE  First(S) \in S /\ \A f \in S : f <= First(S)
<1>1. \E e \in S : \A f \in S : f <= e  BY Greatest DEF Pointer
<1> QED  BY <1>1 DEF First

LEMMA FirstType ==
  ASSUME NEW S \in SUBSET Pointer, MaxEntries \in Nat
  PROVE  First(S) \in S \cup {NULL} /\ (First(S) = NULL <=> S = {})
<1>1. CASE S = {}  BY <1>1 DEF First
<1>2. CASE S # {}
  <2>1. First(S) \in S  BY <1>2, FirstMatches
  <2>2. First(S) # NULL  BY <2>1 DEF Pointer, NULL
  <2> QED  BY <1>2, <2>1, <2>2
<1> QED  BY <1>1, <1>2

\* A lookup that finds nothing proves the name free; one that finds an entry
\* finds the only one.
LEMMA LookupFinds ==
  ASSUME TypeOK, NEW d, NEW n
  PROVE  LET e == vtfs_storage_lookup(d, n)
         IN  /\ e = NULL => \A f \in Children(d) : entry[f].name # n
             /\ e # NULL => e \in Children(d) /\ entry[e].name = n
<1> DEFINE S == {e \in Children(d) : entry[e].name = n}
<1>1. S \in SUBSET Pointer  BY DEF TypeOK, Children
<1>2. First(S) \in S \cup {NULL} /\ (First(S) = NULL <=> S = {})
  BY <1>1, FirstType, MaxEntriesAssumption
<1> QED  BY <1>2 DEF vtfs_storage_lookup

\* A directory is found by its number, a file's number finds a name of it.
LEMMA GetByInoFinds ==
  ASSUME TypeOK, StoreOK, NEW e \in all_entries
  PROVE  LET f == vtfs_storage_get_by_ino(entry[e].ino)
         IN  /\ f \in all_entries /\ entry[f].ino = entry[e].ino
             /\ e \in Dirs => f = e
             /\ e \in Files => f \in Files
<1> DEFINE S == WithIno(entry[e].ino)
<1>1. S \in SUBSET Pointer /\ e \in S  BY DEF TypeOK, WithIno
<1>2. First(S) \in S  BY <1>1, FirstMatches, MaxEntriesAssumption
<1> QED  BY <1>2 DEF vtfs_storage_get_by_ino, WithIno, StoreOK, InoDiscipline, Files, Dirs

-----------------------------------------------------------------------------
(***************************************************************************)
(* The invariant at the start and across steps that leave the store alone. *)
(***************************************************************************)
LEMMA InitIInv == Init => IInv
<1> SUFFICES ASSUME Init PROVE IInv  OBVIOUS
<1> USE DEF Init, StoreInit
<1>1. TypeOK
  BY MaxEntriesAssumption, NamesAssumption
  DEF TypeOK, Entry, Root, NotAnEntry, Call, Idle, Inodes, NoInode, Steps,
      Pointer, NULL, VTFS_ROOT_INO, root
<1>2. StoreOK
  <2>1. all_entries = {root} /\ entry[root] = Root /\ allocs = 0
    BY MaxEntriesAssumption DEF Pointer, root
  <2>2. next_ino = 1001 /\ entry[root].ino = 1000 /\ entry[root].dir
    BY <2>1 DEF Root, VTFS_ROOT_INO
  <2> QED
    BY <2>1, <2>2
    DEF StoreOK, UniqueNames, WellFormedTree, InoDiscipline, VTFS_ROOT_INO, root
<1> QED  BY <1>1, <1>2 DEF IInv, CallOK, Apart

\* A step that keeps every entry where it is, of the type and number it has.
SameShape ==
  /\ all_entries' = all_entries /\ allocs' = allocs
  /\ next_ino' \in Nat /\ next_ino <= next_ino'
  /\ entry' \in [Pointer -> Entry]
  /\ \A e \in Pointer :
       /\ entry'[e].name = entry[e].name /\ entry'[e].parent = entry[e].parent
       /\ entry'[e].ino = entry[e].ino /\ entry'[e].dir = entry[e].dir

\* What a call knows survives such a step, whoever takes it.
LEMMA CallKept ==
  ASSUME TypeOK, SameShape, NEW q \in Procs, CallOK(call'[q])
  PROVE  CallOK(call[q])'
<1>1. all_entries \subseteq Pointer  BY DEF TypeOK
<1>2. SUFFICES ASSUME call'[q] # Idle PROVE CallOK(call[q])'
  BY DEF CallOK
<1>3. /\ InStep(call'[q]) /\ HasParent(call'[q]) /\ HasChild(call'[q])
      /\ HasSource(call'[q]) /\ HasVictim(call'[q]) /\ NameIsFree(call'[q])
      /\ ChildMayGo(call'[q]) /\ IsLinked(call'[q]) /\ IsFresh(call'[q])
  BY <1>2 DEF CallOK
<1> USE <1>1, <1>3 DEF SameShape
<1>4. InStep(call[q])'  BY DEF InStep
<1>5. HasParent(call[q])'  BY DEF HasParent, InodeOf, Dirs
<1>6. HasChild(call[q])'  BY DEF HasChild, IsName, Children
<1>7. HasSource(call[q])'  BY DEF HasSource, InodeOf, Files, Dirs
<1>8. HasVictim(call[q])'  BY DEF HasVictim, IsName, Children, InodeOf
<1>9. NameIsFree(call[q])'  BY DEF NameIsFree, IsName, Children
<1>10. ChildMayGo(call[q])'
  BY DEF ChildMayGo, InStep, HasChild, IsName, Holding, MayDelete, Children
<1>11. IsLinked(call[q])'
  BY DEF IsLinked, HasSource, InStep, StepsOf, Files, Dirs
<1>12. IsFresh(call[q])'
  BY DEF IsFresh, HasChild, IsName, WithIno, Children
<1> QED
  BY <1>4, <1>5, <1>6, <1>7, <1>8, <1>9, <1>10, <1>11, <1>12 DEF CallOK

LEMMA SameShapeStep ==
  ASSUME IInv, SameShape, miscounted' \subseteq Nat,
         NEW p \in Procs, NEW c \in Call, CallOK(c),
         \A q \in Procs \ {p} : Apart(c, call[q]) /\ Apart(call[q], c),
         call' = [call EXCEPT ![p] = c]
  PROVE  IInv'
<1> USE DEF IInv
<1>1. TypeOK'  BY DEF TypeOK, SameShape
<1>2. all_entries \subseteq Pointer /\ root \in Pointer
  BY MaxEntriesAssumption DEF TypeOK, Pointer, root
<1>3. StoreOK'
  <2>1. (all_entries \subseteq 0 .. allocs)'  BY DEF StoreOK, SameShape
  <2>2. (\A e \in all_entries \ {root} : entry[e].name \in Names)'
    BY <1>2 DEF StoreOK, SameShape
  <2>3. UniqueNames'  BY <1>2 DEF StoreOK, SameShape, UniqueNames
  <2>4. InoDiscipline'
    <3>1. next_ino \in Nat /\ next_ino' \in Nat  BY DEF TypeOK, SameShape
    <3> QED
      BY <1>2, <3>1 DEF StoreOK, SameShape, InoDiscipline, Files, Dirs, VTFS_ROOT_INO
  <2>5. WellFormedTree'
    BY <1>2 DEF StoreOK, SameShape, WellFormedTree, Dirs
  <2> QED  BY <2>1, <2>2, <2>3, <2>4, <2>5 DEF StoreOK
<1>4. \A q \in Procs : call'[q] = IF q = p THEN c ELSE call[q]
  BY DEF TypeOK
<1>5. ASSUME NEW q \in Procs PROVE CallOK(call[q])'
  <2>1. CallOK(call'[q])  BY <1>4
  <2> QED  BY <2>1, CallKept
<1>6. ASSUME NEW q \in Procs, NEW r \in Procs, q # r
      PROVE  Apart(call[q], call[r])'
  <2>1. Apart(call'[q], call'[r])  BY <1>4, <1>6
  <2> QED  BY <2>1 DEF Apart, Conflict
<1> QED  BY <1>1, <1>3, <1>5, <1>6

\* A step that only moves one call on: the new call must know what it needs
\* and keep apart from the others.
LEMMA QuietStep ==
  ASSUME IInv, NEW p \in Procs, NEW c \in Call, CallOK(c),
         \A q \in Procs \ {p} : Apart(c, call[q]) /\ Apart(call[q], c),
         call' = [call EXCEPT ![p] = c], UNCHANGED <<store_vars, miscounted>>
  PROVE  IInv'
<1>1. SameShape /\ miscounted' \subseteq Nat
  BY DEF IInv, TypeOK, SameShape, store_vars
<1> QED  BY <1>1, SameShapeStep

LEMMA SameStore ==
  ASSUME IInv, UNCHANGED <<store_vars, miscounted>>
  PROVE  SameShape /\ miscounted' \subseteq Nat
BY DEF IInv, TypeOK, SameShape, store_vars

LEMMA ReturnStep ==
  ASSUME IInv, NEW p \in Procs, Return(p), SameShape, miscounted' \subseteq Nat
  PROVE  IInv'
<1>1. Idle \in Call
  BY MaxEntriesAssumption
  DEF Call, Idle, Inodes, NoInode, Steps, NULL
<1>2. CallOK(Idle) /\ \A q \in Procs : Apart(Idle, call[q]) /\ Apart(call[q], Idle)
  BY DEF CallOK, Apart
<1> QED  BY <1>1, <1>2, SameShapeStep DEF Return

\* The step of a call that stays at work on the entries it has.
LEMMA MoveStep ==
  ASSUME IInv, NEW p \in Procs, NEW c \in Call,
         CallOK(c), call[p].step # "idle",
         c.op = call[p].op, c.dir = call[p].dir, c.node = call[p].node,
         c.name = call[p].name, c.parent = call[p].parent,
         c.target = call[p].target,
         c.op \in {"create", "mkdir"} /\ c.step \in Holding =>
           call[p].step \in Holding /\ c.child = call[p].child,
         call' = [call EXCEPT ![p] = c], UNCHANGED <<store_vars, miscounted>>
  PROVE  IInv'
<1>1. call[p] # Idle  BY DEF Idle
<1>2. ASSUME NEW q \in Procs \ {p}
      PROVE  Apart(c, call[q]) /\ Apart(call[q], c)
  <2>1. Apart(call[p], call[q]) /\ Apart(call[q], call[p])
    BY DEF IInv
  <2> QED  BY <1>1, <2>1 DEF Apart, Conflict
<1> QED  BY <1>2, QuietStep

LEMMA FindVictimStep ==
  ASSUME IInv, NEW p \in Procs, FindVictim(p) PROVE IInv'
<1> DEFINE c == call[p]
           victim == vtfs_storage_lookup(c.parent, c.name)
           new == [c EXCEPT !.step = "delete", !.child = victim]
<1>1. CASE Return(p)
  BY <1>1, SameStore, ReturnStep DEF FindVictim
<1>2. CASE ~Return(p)
  <2>1. /\ victim # NULL /\ MayDelete(victim)
        /\ GotoWith(p, "delete", victim) /\ UNCHANGED <<store_vars, miscounted>>
        /\ c.step = "find" /\ c.op \in {"unlink", "rmdir"}
    BY <1>2 DEF FindVictim, At
  <2>2. c \in Call /\ CallOK(c) /\ TypeOK  BY DEF IInv, TypeOK
  <2>3. victim \in Children(c.parent) /\ entry[victim].name = c.name
    BY <2>1, <2>2, LookupFinds
  <2>4. victim \in Pointer  BY <2>2, <2>3 DEF TypeOK, Children
  <2>5. new \in Call  BY <2>2, <2>4 DEF Call, Steps
  <2>6. call' = [call EXCEPT ![p] = new]
    BY <2>1, <2>2 DEF GotoWith, TypeOK
  <2>7. CallOK(new)
    BY <2>1, <2>2, <2>3, <2>5
    DEF CallOK, InStep, HasParent, HasChild, HasSource, HasVictim, NameIsFree,
      ChildMayGo, IsLinked, IsFresh, IsName, Idle, StepsOf, Holding, Call
  <2> HIDE DEF new, victim
  <2> QED
    BY <2>1, <2>2, <2>5, <2>6, <2>7, MoveStep DEF Call, new
<1> QED  BY <1>1, <1>2


LEMMA FindChildStep ==
  ASSUME IInv, NEW p \in Procs, FindChild(p) PROVE IInv'
<1> DEFINE c == call[p]
           child == vtfs_storage_lookup(c.parent, c.name)
           found == [c EXCEPT !.step = "get_inode", !.child = child]
           ask == [c EXCEPT !.step = "fetch"]
<1>1. c \in Call /\ CallOK(c) /\ TypeOK /\ c.step = "find" /\ c.op = "lookup"
  BY DEF IInv, TypeOK, FindChild, At
<1>2. CASE child # NULL
  <2>1. child \in Children(c.parent) /\ entry[child].name = c.name
    BY <1>1, <1>2, LookupFinds
  <2>2. child \in Pointer  BY <1>1, <2>1 DEF TypeOK, Children
  <2>3. found \in Call  BY <1>1, <2>2 DEF Call, Steps
  <2>4. call' = [call EXCEPT ![p] = found] /\ UNCHANGED <<store_vars, miscounted>>
    BY <1>1, <1>2 DEF FindChild, GotoWith, TypeOK
  <2>5. CallOK(found)
    BY <1>1, <1>2, <2>1, <2>3 DEF CallOK, InStep, HasParent, HasChild, HasSource, HasVictim, NameIsFree,
      ChildMayGo, IsLinked, IsFresh, IsName, Idle, StepsOf, Holding, Call
  <2> HIDE DEF found, child
  <2> QED  BY <1>1, <2>3, <2>4, <2>5, MoveStep DEF Call, found
<1>3. CASE child = NULL
  <2>1. ask \in Call  BY <1>1 DEF Call, Steps
  <2>2. call' = [call EXCEPT ![p] = ask] /\ UNCHANGED <<store_vars, miscounted>>
    BY <1>1, <1>3 DEF FindChild, Goto, TypeOK
  <2>3. CallOK(ask)
    BY <1>1, <2>1 DEF CallOK, InStep, HasParent, HasChild, HasSource, HasVictim, NameIsFree,
      ChildMayGo, IsLinked, IsFresh, IsName, Idle, StepsOf, Holding, Call
  <2> HIDE DEF ask
  <2> QED  BY <1>1, <2>1, <2>2, <2>3, MoveStep DEF Call, ask
<1> QED  BY <1>2, <1>3

LEMMA FetchFoundStep ==
  ASSUME IInv, NEW p \in Procs, FetchFound(p) PROVE IInv'
<1>1. PICK isdir \in BOOLEAN :
        call' = [call EXCEPT ![p].step = "check", ![p].isdir = isdir]
  BY DEF FetchFound
<1> DEFINE c == call[p]
           new == [c EXCEPT !.step = "check", !.isdir = isdir]
<1>2. c \in Call /\ CallOK(c) /\ TypeOK /\ c.step = "fetch" /\ UNCHANGED <<store_vars, miscounted>>
  BY DEF IInv, TypeOK, FetchFound, At
<1>3. new \in Call  BY <1>2 DEF Call, Steps
<1>4. call' = [call EXCEPT ![p] = new]  BY <1>1, <1>2 DEF TypeOK
<1>5. CallOK(new)
  BY <1>2, <1>3 DEF CallOK, InStep, HasParent, HasChild, HasSource, HasVictim, NameIsFree,
      ChildMayGo, IsLinked, IsFresh, IsName, Idle, StepsOf, Holding, Call
<1> HIDE DEF new
<1> QED  BY <1>2, <1>3, <1>4, <1>5, MoveStep DEF Call, new, Holding

LEMMA CheckNameStep ==
  ASSUME IInv, NEW p \in Procs, CheckName(p) PROVE IInv'
<1> DEFINE c == call[p]
           new == [c EXCEPT !.step = "insert", !.ino = InoArgument(c)]
<1>1. CASE Return(p)
  BY <1>1, SameStore, ReturnStep DEF CheckName
<1>2. CASE ~Return(p)
  <2>1. c \in Call /\ CallOK(c) /\ TypeOK /\ c.step = "check" /\ UNCHANGED <<store_vars, miscounted>>
    BY DEF IInv, TypeOK, CheckName, At
  <2>2. call' = [call EXCEPT ![p] = new]
    BY <1>2, <2>1 DEF CheckName, TypeOK
  <2>3. vtfs_storage_lookup(c.parent, c.name) = NULL
    BY <1>2 DEF CheckName
  <2>4. \A e \in all_entries : ~IsName(c, e)
    BY <2>1, <2>3, LookupFinds DEF IsName
  <2>5. /\ c.op # "link" => InoArgument(c) = 0
        /\ c.op = "link" => /\ InoArgument(c) = entry[Source(c)].ino
                            /\ InoArgument(c) \in Nat
    <3>1. c.op = "link" => c.target \in all_entries /\ HasSource(c)
      BY <2>1 DEF CheckName, TargetFreed, UsesTarget, CallOK, Idle
    <3> QED  BY <2>1, <3>1 DEF HasSource, InoArgument, TypeOK, Entry
  <2>6. new \in Call
    <3>1. InoArgument(c) \in Nat  BY <2>5
    <3> HIDE DEF InoArgument
    <3> QED  BY <2>1, <3>1 DEF Call, Steps
  <2>7. /\ new.op = c.op /\ new.dir = c.dir /\ new.node = c.node /\ new.name = c.name
        /\ new.parent = c.parent /\ new.child = c.child /\ new.target = c.target
        /\ new.isdir = c.isdir /\ new.step = "insert" /\ new.ino = InoArgument(c)
    BY <2>1 DEF Call
  <2> HIDE DEF new
  <2>8. /\ InStep(c) /\ HasParent(c) /\ HasChild(c) /\ HasSource(c)
        /\ c.op \in {"create", "mkdir", "link", "lookup"}
    BY <2>1 DEF CallOK, InStep, StepsOf, Ops, Idle
  <2>9. InStep(new)  BY <2>1, <2>5, <2>7, <2>8 DEF InStep, StepsOf, Holding
  <2>10. HasSource(new)  BY <2>1, <2>5, <2>7, <2>8 DEF HasSource, Source
  <2>11. NameIsFree(new)  BY <2>4, <2>7 DEF NameIsFree, IsName
  <2>12. HasParent(new) /\ HasChild(new)
    BY <2>7, <2>8 DEF HasParent, HasChild, IsName
  <2>13. HasVictim(new) /\ ChildMayGo(new) /\ IsLinked(new) /\ IsFresh(new)
    BY <2>7, <2>8 DEF HasVictim, ChildMayGo, IsLinked, IsFresh, Holding
  <2>14. CallOK(new)
    BY <2>9, <2>10, <2>11, <2>12, <2>13 DEF CallOK
  <2> QED  BY <2>1, <2>2, <2>6, <2>7, <2>14, MoveStep DEF Holding
<1> QED  BY <1>1, <1>2

LEMMA UndefinedStep ==
  ASSUME IInv, NEW p \in Procs, Undefined(p) PROVE IInv'
<1> DEFINE c == call[p]
           new == [c EXCEPT !.step = "undefined"]
<1>1. /\ c \in Call /\ CallOK(c) /\ TypeOK /\ c # Idle /\ c.op = "link"
      /\ UNCHANGED <<store_vars, miscounted>> /\ call' = [call EXCEPT ![p] = new]
      /\ c.step \in {"check", "add_link"}
  BY DEF IInv, TypeOK, Undefined, TargetFreed, UsesTarget, Goto, Idle
<1>2. new \in Call  BY <1>1 DEF Call, Steps
<1>3. CallOK(new)
  BY <1>1, <1>2
  DEF Source, CallOK, InStep, HasParent, HasChild, HasSource, HasVictim, NameIsFree,
      ChildMayGo, IsLinked, IsFresh, IsName, Idle, StepsOf, Holding, Call
<1> HIDE DEF new
<1> QED  BY <1>1, <1>2, <1>3, MoveStep DEF Call, new, Holding, Idle

LEMMA GetInodeNoMemoryStep ==
  ASSUME IInv, NEW p \in Procs, GetInodeNoMemory(p) PROVE IInv'
<1> DEFINE c == call[p]
           new == [c EXCEPT !.step = "delete"]
<1>1. CASE Return(p)
  BY <1>1, SameStore, ReturnStep DEF GetInodeNoMemory
<1>2. CASE ~Return(p)
  <2>1. /\ c \in Call /\ CallOK(c) /\ TypeOK /\ c.step = "get_inode"
        /\ UNCHANGED <<store_vars, miscounted>> /\ c.op \in {"create", "mkdir"}
        /\ MayDelete(c.child) /\ Goto(p, "delete")
    BY <1>2 DEF IInv, TypeOK, GetInodeNoMemory, At
  <2>2. call' = [call EXCEPT ![p] = new]  BY <2>1 DEF Goto, TypeOK
  <2>3. new \in Call  BY <2>1 DEF Call, Steps
  <2>4. CallOK(new)
    BY <2>1, <2>3 DEF CallOK, InStep, HasParent, HasChild, HasSource, HasVictim, NameIsFree,
      ChildMayGo, IsLinked, IsFresh, IsName, Idle, StepsOf, Holding, Call
  <2> HIDE DEF new
  <2> QED  BY <2>1, <2>2, <2>3, <2>4, MoveStep DEF Call, new, Holding
<1> QED  BY <1>1, <1>2


-----------------------------------------------------------------------------
(***************************************************************************)
(* Calls that begin.                                                       *)
(***************************************************************************)
LEMMA BeginStep ==
  ASSUME IInv, NEW p \in Procs, NEW c \in Call, Begin(p, c), CallOK(c),
         c.step \notin Holding,
         \A q \in Procs :
           call[q].op \in {"create", "mkdir"} /\ call[q].step \in Holding =>
             call[q].child # c.parent /\ call[q].child # c.node.entry
  PROVE  IInv'
<1>1. ASSUME NEW q \in Procs \ {p}
      PROVE  Apart(c, call[q]) /\ Apart(call[q], c)
  <2>1. ~Conflict(c, call[q])  BY DEF Begin
  <2>2. ~Conflict(call[q], c)  BY <2>1 DEF Conflict
  <2> QED  BY <2>1, <2>2 DEF Apart
<1> QED  BY <1>1, QuietStep DEF Begin

\* What create or mkdir has just inserted has no dentry yet.
LEMMA FreshIsHidden ==
  ASSUME OneMount, IInv, NEW q \in Procs, NEW m \in Mounts,
         NEW e, Visible(m, e),
         call[q].op \in {"create", "mkdir"}, call[q].step \in Holding
  PROVE  call[q].child # e
<1>1. CallOK(call[q]) /\ call[q] # Idle
  BY DEF IInv, Idle
<1>2. call[q].dir.mount = m
  BY <1>1 DEF CallOK, HasParent, InodeOf, OneMount
<1> QED  BY <1>2 DEF Visible

\* What is known of the call record of op as it enters directory d.
Enters(c, op, step, d, n) ==
  /\ c \in Call /\ c.op = op /\ c.step = step /\ c.name = n
  /\ c.parent = d /\ InodeOf(c.dir, d) /\ c.isdir = (op = "mkdir")
  /\ c.child = NULL /\ c.node = NoInode /\ c.ino = 0

LEMMA NewCallEnters ==
  ASSUME OneMount, IInv, NEW m \in Mounts, NEW d \in Dirs, NEW n \in Names,
         NEW op \in Ops, NEW step \in Steps
  PROVE  Enters(NewCall(op, step, m, d, n), op, step, d, n)
<1>1. d \in all_entries /\ d \in Pointer /\ entry[d].ino \in Nat /\ entry[d].dir
  BY DEF Dirs, IInv, TypeOK, Entry
<1>2. vtfs_storage_get_by_ino(entry[d].ino) = d
  BY <1>1, GetByInoFinds DEF IInv
<1>3. Inode(m, d) = [mount |-> m, entry |-> d]
  BY DEF Inode
<1> DEFINE c == [op |-> op, step |-> step, dir |-> Inode(m, d), node |-> NoInode,
                 name |-> n, parent |-> d, child |-> NULL, target |-> NULL,
                 ino |-> 0, isdir |-> (op = "mkdir")]
<1>4. NewCall(op, step, m, d, n) = c
  BY <1>2 DEF NewCall
<1>5. Inode(m, d) \in Inodes /\ NoInode \in Inodes
  BY <1>1, <1>3 DEF Inodes, NoInode
<1>6. c \in Call
  BY <1>1, <1>5 DEF Call
<1>7. InodeOf(Inode(m, d), d)
  BY <1>3 DEF InodeOf
<1> HIDE DEF IInv
<1> QED
  BY <1>4, <1>6, <1>7 DEF Enters

\* A handler that holds a child holds an entry, and never the root.
LEMMA HeldChild ==
  ASSUME IInv, NEW q \in Procs, call[q].step \in Holding
  PROVE  /\ call[q].child \in Children(call[q].parent)
         /\ call[q].child \in all_entries \ {root}
         /\ call[q].child \in Pointer /\ call[q].child # NULL
<1>1. CallOK(call[q]) /\ call[q] # Idle /\ all_entries \subseteq Pointer
  BY DEF IInv, TypeOK, Idle, Holding
<1>2. call[q].child # NULL  BY <1>1 DEF CallOK, InStep
<1>3. call[q].child \in Children(call[q].parent)
  BY <1>1, <1>2 DEF CallOK, HasChild, IsName
<1>4. call[q].child \in all_entries \ {root}  BY <1>3 DEF Children
<1> QED  BY <1>1, <1>2, <1>3, <1>4

LEMMA BeginCreateStep ==
  ASSUME OneMount, IInv, NEW p \in Procs, BeginCreate(p) PROVE IInv'
<1>1. PICK m \in Mounts, d \in Dirs, n \in Names, op \in {"create", "mkdir"} :
        Visible(m, d) /\ Begin(p, NewCall(op, "check", m, d, n))
  BY DEF BeginCreate
<1> DEFINE c == NewCall(op, "check", m, d, n)
<1>2. Enters(c, op, "check", d, n)
  BY NewCallEnters DEF Ops, Steps
<1> HIDE DEF c
<1>3. CallOK(c)
  BY <1>2 DEF CallOK, InStep, HasParent, HasChild, HasSource, HasVictim, NameIsFree,
      ChildMayGo, IsLinked, IsFresh, Enters, Ops, StepsOf, Holding
<1>4. \A q \in Procs :
        call[q].op \in {"create", "mkdir"} /\ call[q].step \in Holding =>
          call[q].child # d /\ call[q].child # NULL
  BY <1>1, FreshIsHidden, HeldChild
<1> QED  BY <1>1, <1>2, <1>3, <1>4, BeginStep DEF Enters, Holding, NoInode, c

LEMMA BeginLookupStep ==
  ASSUME OneMount, IInv, NEW p \in Procs, BeginLookup(p) PROVE IInv'
<1>1. PICK m \in Mounts, d \in Dirs, n \in Names :
        Visible(m, d) /\ Begin(p, NewCall("lookup", "find", m, d, n))
  BY DEF BeginLookup
<1> DEFINE c == NewCall("lookup", "find", m, d, n)
<1>2. Enters(c, "lookup", "find", d, n)
  BY NewCallEnters DEF Ops, Steps
<1> HIDE DEF c
<1>3. CallOK(c)
  BY <1>2 DEF CallOK, InStep, HasParent, HasChild, HasSource, HasVictim, NameIsFree,
      ChildMayGo, IsLinked, IsFresh, Enters, Ops, StepsOf, Holding
<1>4. \A q \in Procs :
        call[q].op \in {"create", "mkdir"} /\ call[q].step \in Holding =>
          call[q].child # d /\ call[q].child # NULL
  BY <1>1, FreshIsHidden, HeldChild
<1> QED  BY <1>1, <1>2, <1>3, <1>4, BeginStep DEF Enters, Holding, NoInode, c

LEMMA BeginRemoveStep ==
  ASSUME OneMount, IInv, NEW p \in Procs, BeginRemove(p) PROVE IInv'
<1>1. PICK m \in Mounts, e \in all_entries \ {root} :
        /\ Visible(m, e)
        /\ Begin(p, [NewCall(IF entry[e].dir THEN "rmdir" ELSE "unlink", "find",
                             m, entry[e].parent, entry[e].name)
                     EXCEPT !.node = Inode(m, e)])
  BY DEF BeginRemove
<1> DEFINE d == entry[e].parent
           n == entry[e].name
           op == IF entry[e].dir THEN "rmdir" ELSE "unlink"
           new == NewCall(op, "find", m, d, n)
           c == [new EXCEPT !.node = Inode(m, e)]
<1>2. /\ d \in Dirs /\ e \in Pointer /\ entry[e] \in Entry /\ e \in Children(d)
      /\ n \in Names
  BY DEF IInv, StoreOK, WellFormedTree, TypeOK, Children
<1>3. Enters(new, op, "find", d, n)
  BY <1>2, NewCallEnters DEF Ops, Steps
<1>4. Inode(m, e) \in Inodes /\ InodeOf(Inode(m, e), e)
  BY <1>2 DEF Inode, Inodes, InodeOf
<1> HIDE DEF new
<1>5. /\ c \in Call /\ c.op = op /\ c.step = "find" /\ c.name = n
      /\ c.parent = d /\ InodeOf(c.dir, d) /\ ~c.isdir /\ InodeOf(c.node, e)
      /\ c.child = NULL /\ c.ino = 0
  BY <1>3, <1>4 DEF Call, Enters
<1> HIDE DEF c
<1>6. CallOK(c)
  BY <1>2, <1>5 DEF InodeOf, CallOK, InStep, HasParent, HasChild, HasSource, HasVictim, NameIsFree,
      ChildMayGo, IsLinked, IsFresh, Ops, StepsOf, Holding, IsName
<1>7. \A q \in Procs :
        call[q].op \in {"create", "mkdir"} /\ call[q].step \in Holding =>
          call[q].child # d /\ call[q].child # e
  <2>1. ASSUME NEW q \in Procs, call[q].op \in {"create", "mkdir"},
               call[q].step \in Holding
        PROVE  Children(call[q].child) = {}
    BY <2>1 DEF IInv, CallOK, IsFresh, Idle, Holding
  <2> QED  BY <1>1, <1>2, <2>1, HeldChild, FreshIsHidden
<1>8. Begin(p, c)  BY <1>1 DEF c, new
<1> QED  BY <1>5, <1>6, <1>7, <1>8, BeginStep DEF Holding, InodeOf

LEMMA BeginLinkStep ==
  ASSUME OneMount, IInv, NEW p \in Procs, BeginLink(p) PROVE IInv'
<1>1. PICK m \in Mounts, e \in Files, d \in Dirs, n \in Names :
        /\ Visible(m, e) /\ Visible(m, d)
        /\ Begin(p, [NewCall("link", "check", m, d, n)
                     EXCEPT !.node = Inode(m, e),
                            !.target = vtfs_storage_get_by_ino(entry[e].ino)])
  BY DEF BeginLink
<1> DEFINE target == vtfs_storage_get_by_ino(entry[e].ino)
           new == NewCall("link", "check", m, d, n)
           c == [new EXCEPT !.node = Inode(m, e), !.target = target]
<1>2. e \in all_entries /\ e \in Pointer /\ entry[e] \in Entry /\ entry[e].ino \in Nat
  BY DEF IInv, TypeOK, Files, Entry
<1>3. target \in Files /\ entry[target].ino = entry[e].ino /\ target \in Pointer
  BY <1>2, GetByInoFinds DEF IInv, TypeOK, Files
<1>4. Enters(new, "link", "check", d, n)
  BY NewCallEnters DEF Ops, Steps
<1>5. Inode(m, e) \in Inodes /\ InodeOf(Inode(m, e), e)
  BY <1>2 DEF Inode, Inodes, InodeOf
<1> HIDE DEF new, target
<1>6. /\ c \in Call /\ c.op = "link" /\ c.step = "check" /\ c.name = n
      /\ c.parent = d /\ InodeOf(c.dir, d) /\ ~c.isdir
      /\ c.target = target /\ InodeOf(c.node, e) /\ c.child = NULL
  BY <1>3, <1>4, <1>5 DEF Call, Enters
<1> HIDE DEF c
<1>7. CallOK(c)
  <2>1. target \in 0 .. allocs  BY <1>3 DEF IInv, StoreOK, Files
  <2> QED
    BY <1>2, <1>3, <1>6, <2>1 DEF InodeOf, Source, CallOK, InStep, HasParent, HasChild, HasSource, HasVictim, NameIsFree,
      ChildMayGo, IsLinked, IsFresh, Ops, StepsOf, Holding
<1>8. ASSUME NEW q \in Procs, call[q].op \in {"create", "mkdir"},
             call[q].step \in Holding
      PROVE  call[q].child # d /\ call[q].child # e
  BY <1>1, <1>8, FreshIsHidden
<1> QED
  BY <1>1, <1>6, <1>7, <1>8, BeginStep DEF Holding, c, new, target, InodeOf


-----------------------------------------------------------------------------
(***************************************************************************)
(* Steps that change counts and counters, but no entry's place.            *)
(***************************************************************************)
LEMMA InsertNoMemoryStep ==
  ASSUME IInv, NEW p \in Procs, InsertNoMemory(p) PROVE IInv'
<1>1. SameShape
  BY DEF IInv, TypeOK, InsertNoMemory, InsertFails, InoAfter, SameShape
<1> QED  BY <1>1, ReturnStep DEF InsertNoMemory, IInv, TypeOK

LEMMA InitNlinkStep ==
  ASSUME IInv, NEW p \in Procs, InitNlink(p) PROVE IInv'
<1> DEFINE c == call[p]
           new == [c EXCEPT !.step = "get_inode"]
<1>1. /\ c \in Call /\ CallOK(c) /\ TypeOK /\ c.step = "init_nlink"
      /\ c # Idle /\ c.op = "mkdir" /\ c.child \in Pointer
  BY HeldChild
  DEF IInv, TypeOK, InitNlink, At, Idle, CallOK, InStep, StepsOf, Ops, Holding
<1>2. SameShape
  BY <1>1 DEF InitNlink, SameShape, TypeOK, Entry
<1>3. new \in Call /\ call' = [call EXCEPT ![p] = new]
  BY <1>1 DEF InitNlink, Goto, TypeOK, Call, Steps
<1>4. CallOK(new)
  BY <1>1
  DEF CallOK, InStep, HasParent, HasChild, HasSource, HasVictim, NameIsFree,
      ChildMayGo, IsLinked, IsFresh, IsName, StepsOf, Holding, Call
<1>5. ASSUME NEW q \in Procs \ {p}
      PROVE  Apart(new, call[q]) /\ Apart(call[q], new)
  <2>1. Apart(c, call[q]) /\ Apart(call[q], c)  BY DEF IInv
  <2> QED  BY <1>1, <2>1 DEF Apart, Conflict, Call, Holding
<1> HIDE DEF new
<1>6. miscounted' \subseteq Nat  BY DEF InitNlink, IInv, TypeOK
<1> QED  BY <1>2, <1>3, <1>4, <1>5, <1>6, SameShapeStep

LEMMA FinishLinkStep ==
  ASSUME IInv, NEW p \in Procs, FinishLink(p) PROVE IInv'
<1> DEFINE target == call[p].target
<1>1. TypeOK /\ CallOK(call[p]) /\ call[p] # Idle /\ call[p].step = "add_link"
  BY DEF IInv, FinishLink, At, Idle
<1>2. target \in Pointer
  BY <1>1
  DEF CallOK, InStep, StepsOf, Ops, TypeOK, FinishLink, TargetFreed, UsesTarget
<1>3. SameShape
  <2>1. entry[target].nlink + 1 \in Int  BY <1>1, <1>2 DEF TypeOK, Entry
  <2> HIDE DEF target
  <2>2. entry' = [e \in Pointer |->
           IF e \in WithIno(entry[target].ino)
           THEN [entry[e] EXCEPT !.nlink = entry[target].nlink + 1]
           ELSE entry[e]]
    BY DEF FinishLink, AddLink, target
  <2>3. entry' \in [Pointer -> Entry]  BY <1>1, <2>1, <2>2 DEF TypeOK, Entry
  <2> QED
    BY <1>1, <2>1, <2>2, <2>3 DEF FinishLink, AddLink, SameShape, TypeOK, Entry
<1>4. miscounted' \subseteq Nat
  BY <1>1, <1>2 DEF FinishLink, TypeOK, Entry
<1> QED  BY <1>3, <1>4, ReturnStep DEF FinishLink

-----------------------------------------------------------------------------
(***************************************************************************)
(* What the locks of the VFS give.                                         *)
(***************************************************************************)

\* Two handlers in one directory are lookups of different names.
LEMMA SameDirectory ==
  ASSUME OneMount, IInv, NEW p \in Procs, NEW q \in Procs, p # q,
         call[p] # Idle, call[q] # Idle, call[p].parent = call[q].parent
  PROVE  /\ call[p].op = "lookup" /\ call[q].op = "lookup"
         /\ call[p].name # call[q].name
<1>1. /\ call[p] \in Call /\ call[q] \in Call /\ ~Conflict(call[p], call[q])
      /\ HasParent(call[p]) /\ HasParent(call[q])
  BY DEF IInv, TypeOK, Apart, CallOK
<1>2. call[p].dir = call[q].dir
  BY <1>1 DEF HasParent, InodeOf, OneMount, Call, Inodes
<1> QED  BY <1>1, <1>2 DEF Conflict

\* The entry a handler is about to delete is known to no other one.
LEMMA VictimApart ==
  ASSUME OneMount, IInv, NEW p \in Procs, NEW q \in Procs, p # q,
         call[p].step = "delete", call[q] # Idle
  PROVE  /\ call[q].parent # call[p].child
         /\ call[q].op = "link" => Source(call[q]) # call[p].child
         /\ \A e : IsName(call[q], e) => e # call[p].child
<1> DEFINE c == call[p]
           d == call[q]
           v == c.child
<1>1. /\ c \in Call /\ d \in Call /\ ~Conflict(c, d) /\ CallOK(c) /\ CallOK(d)
      /\ c # Idle /\ Apart(c, d) /\ StoreOK
  BY DEF IInv, TypeOK, Apart, Idle
<1>2. /\ v \in Children(c.parent) /\ v \in all_entries \ {root} /\ v # NULL
      /\ IsName(c, v) /\ c.op # "lookup" /\ c.op # "link"
  BY <1>1, HeldChild
  DEF CallOK, HasChild, InStep, StepsOf, Ops, Holding
<1>3. ASSUME NEW e, IsName(d, e) PROVE e # v
  BY <1>1, <1>2, <1>3, SameDirectory DEF IsName, Children
<1>4. CASE c.op \in {"create", "mkdir"}
  BY <1>1, <1>3, <1>4 DEF Apart, Holding, Source
<1>5. CASE c.op \in {"unlink", "rmdir"}
  <2>1. InodeOf(c.node, v)
    BY <1>1, <1>2, <1>5
    DEF CallOK, HasVictim, IsName, Children, StoreOK, UniqueNames, InodeOf
  <2>2. c.node # NoInode  BY <1>2, <2>1 DEF InodeOf, NoInode
  <2>3. d.parent # v
    <3>1. SUFFICES ASSUME d.parent = v PROVE FALSE  OBVIOUS
    <3>2. InodeOf(d.dir, v)  BY <1>1, <3>1 DEF CallOK, HasParent
    <3>3. d.dir = c.node
      BY <1>1, <2>1, <3>2 DEF InodeOf, OneMount, Call, Inodes
    <3> QED  BY <1>1, <2>2, <3>3 DEF Conflict
  <2>4. d.op = "link" => Source(d) # v
    <3>1. SUFFICES ASSUME d.op = "link", Source(d) = v PROVE FALSE  OBVIOUS
    <3>2. InodeOf(d.node, v)  BY <1>1, <3>1 DEF CallOK, HasSource, Source, InodeOf
    <3>3. d.node = c.node
      BY <1>1, <2>1, <3>2 DEF InodeOf, OneMount, Call, Inodes
    <3> QED  BY <1>1, <2>2, <3>3 DEF Conflict
  <2> QED  BY <1>3, <2>3, <2>4
<1>6. c.op \in {"create", "mkdir", "unlink", "rmdir"}
  BY <1>1, <1>2 DEF CallOK, InStep, Ops
<1> QED  BY <1>4, <1>5, <1>6


-----------------------------------------------------------------------------
(***************************************************************************)
(* The insertion of an entry.                                              *)
(***************************************************************************)
\* What the insertion of new, with number ino, by the call c finds and leaves.
Inserted(p, c, new, ino) ==
  /\ c = call[p] /\ c \in Call /\ c.step = "insert" /\ c # Idle
  /\ InStep(c) /\ HasParent(c) /\ HasSource(c) /\ NameIsFree(c)
  /\ c.op \in {"create", "mkdir", "link", "lookup"} /\ c.name \in Names
  /\ c.parent \in Dirs /\ c.parent \in Pointer
  /\ allocs \in Nat /\ new = allocs + 1
  /\ new \in Pointer /\ new \notin all_entries /\ new # root /\ new # NULL
  /\ \A e \in all_entries : e < new /\ e \in Pointer
  /\ next_ino \in Nat /\ next_ino' \in Nat /\ next_ino <= next_ino'
  /\ \A e \in all_entries : entry[e].ino \in 1000 .. next_ino - 1
  /\ ino \in Nat /\ ino \in 1000 .. next_ino' - 1
  /\ c.op # "link" => ino = next_ino /\ next_ino' = next_ino + 1
  /\ c.op = "link" => /\ Source(c) \in Files /\ ino = entry[Source(c)].ino
                      /\ next_ino' = next_ino
  /\ allocs' = new /\ all_entries' = all_entries \cup {new} /\ miscounted' = miscounted
  /\ call' = [call EXCEPT ![p] =
                [c EXCEPT !.step = AfterInsert(c.op), !.child = new]]
  /\ entry' \in [Pointer -> Entry]
  /\ \A e \in all_entries :
       /\ entry'[e].name = entry[e].name /\ entry'[e].parent = entry[e].parent
       /\ entry'[e].ino = entry[e].ino /\ entry'[e].dir = entry[e].dir
       /\ entry'[e].nlink =
            entry[e].nlink + (IF e = c.parent /\ c.isdir THEN 1 ELSE 0)
  /\ entry'[new] = [name |-> c.name, ino |-> ino, dir |-> c.isdir, nlink |-> 1,
                    parent |-> c.parent]

LEMMA InsertFacts ==
  ASSUME IInv, NEW p \in Procs, Insert(p)
  PROVE  \E c, new, ino : Inserted(p, c, new, ino)
<1> DEFINE c == call[p]
           new == allocs + 1
           ino == IF c.ino = 0 THEN next_ino ELSE c.ino
<1>1. /\ TypeOK /\ StoreOK /\ c \in Call /\ c.step = "insert" /\ c # Idle
      /\ InStep(c) /\ HasParent(c) /\ HasSource(c) /\ NameIsFree(c)
      /\ c.op \in {"create", "mkdir", "link", "lookup"} /\ c.name \in Names
  BY DEF IInv, TypeOK, Insert, At, Idle, CallOK, InStep, Ops, StepsOf
<1>2. /\ new \in Pointer /\ new \notin all_entries /\ new # root /\ new # NULL
      /\ allocs \in Nat /\ \A e \in all_entries : e < new /\ e \in Pointer
  BY <1>1 DEF Insert, InsertEntry, StoreOK, TypeOK, Pointer, root, NULL
<1>3. c.parent \in Dirs /\ c.parent \in Pointer
  BY <1>1, <1>2 DEF HasParent, Dirs, TypeOK
<1>4. /\ next_ino \in Nat
      /\ \A e \in all_entries : entry[e].ino \in 1000 .. next_ino - 1
  BY <1>1 DEF StoreOK, InoDiscipline, VTFS_ROOT_INO, TypeOK
<1>5. /\ ino \in Nat /\ next_ino' \in Nat /\ next_ino <= next_ino'
      /\ ino \in 1000 .. next_ino' - 1
      /\ c.op # "link" => ino = next_ino /\ next_ino' = next_ino + 1
      /\ c.op = "link" => /\ Source(c) \in Files /\ ino = entry[Source(c)].ino
                          /\ next_ino' = next_ino
  <2> USE DEF Insert, InsertEntry, InoAfter
  <2>1. CASE c.op # "link"
    <3>1. 1000 \leq next_ino /\ c.ino = 0
      BY <1>1, <1>4, <2>1 DEF StoreOK, WellFormedTree, InStep
    <3> QED  BY <1>4, <2>1, <3>1
  <2>2. CASE c.op = "link"
    <3>1. /\ Source(c) \in Files /\ c.ino = entry[Source(c)].ino
          /\ c.ino \in 1000 .. next_ino - 1
      BY <1>1, <1>4, <2>2 DEF HasSource, Files
    <3> QED  BY <1>4, <2>2, <3>1
  <2> QED  BY <2>1, <2>2
<1> DEFINE fields == [name |-> c.name, ino |-> ino, dir |-> c.isdir, nlink |-> 1,
                      parent |-> c.parent]
<1>6. /\ allocs' = new /\ all_entries' = all_entries \cup {new}
      /\ miscounted' = miscounted
      /\ entry' = [e \in Pointer |->
            CASE e = new -> fields
              [] e = c.parent /\ c.isdir -> [entry[e] EXCEPT !.nlink = @ + 1]
              [] OTHER -> entry[e]]
      /\ call' = [call EXCEPT ![p] =
                    [c EXCEPT !.step = AfterInsert(c.op), !.child = new]]
  BY <1>1 DEF Insert, InsertEntry, GotoWith, TypeOK
<1> HIDE DEF ino, new
<1>7. fields \in Entry
  BY <1>1, <1>3, <1>5 DEF Entry, Call
<1> HIDE DEF fields
<1>8. entry' \in [Pointer -> Entry] /\ entry'[new] = fields
  <2> DEFINE value(e) ==
        CASE e = new -> fields
          [] e = c.parent /\ c.isdir -> [entry[e] EXCEPT !.nlink = @ + 1]
          [] OTHER -> entry[e]
  <2>1. entry' = [e \in Pointer |-> value(e)]  BY <1>6
  <2>2. value(new) = fields  BY <1>2, <1>3 DEF Dirs
  <2>3. ASSUME NEW e \in Pointer PROVE value(e) \in Entry
    <3>1. entry[e] \in Entry /\ [entry[e] EXCEPT !.nlink = @ + 1] \in Entry
      BY <1>1 DEF TypeOK, Entry
    <3> QED  BY <1>7, <3>1
  <2> HIDE DEF value
  <2> QED  BY <1>2, <2>1, <2>2, <2>3
<1>9. ASSUME NEW e \in all_entries
      PROVE  /\ entry'[e].name = entry[e].name /\ entry'[e].parent = entry[e].parent
             /\ entry'[e].ino = entry[e].ino /\ entry'[e].dir = entry[e].dir
             /\ entry'[e].nlink =
                  entry[e].nlink + (IF e = c.parent /\ c.isdir THEN 1 ELSE 0)
  <2>1. e \in Pointer /\ e # new /\ entry[e] \in Entry
    BY <1>1, <1>2 DEF TypeOK
  <2> QED  BY <1>6, <2>1 DEF Entry
<1> HIDE DEF c
<1>10. c = call[p] /\ new = allocs + 1  BY DEF c, new
<1>11. Inserted(p, c, new, ino)
  BY <1>1, <1>2, <1>3, <1>4, <1>5, <1>6, <1>8, <1>9, <1>10 DEF fields, Inserted
<1> QED  BY <1>11

LEMMA InsertStep ==
  ASSUME OneMount, IInv, NEW p \in Procs, Insert(p) PROVE IInv'
<1>0. PICK c, new, ino : Inserted(p, c, new, ino)
  BY InsertFacts
<1> DEFINE moved == [c EXCEPT !.step = AfterInsert(c.op), !.child = new]
<1>1. /\ TypeOK /\ StoreOK /\ c \in Call /\ c.step = "insert" /\ c # Idle
      /\ InStep(c) /\ HasParent(c) /\ HasSource(c) /\ NameIsFree(c)
      /\ c.op \in {"create", "mkdir", "link", "lookup"} /\ c.name \in Names
  BY <1>0 DEF Inserted, IInv
<1>2. /\ new \in Pointer /\ new \notin all_entries /\ new # root /\ new # NULL
      /\ \A e \in all_entries : e < new /\ e \in Pointer
  BY <1>0 DEF Inserted
<1>3. c.parent \in all_entries /\ entry[c.parent].dir /\ c.parent \in Pointer
      /\ c.parent # new
  BY <1>0, <1>2 DEF Inserted, Dirs
<1>4. /\ next_ino \in Nat
      /\ \A e \in all_entries : entry[e].ino \in 1000 .. next_ino - 1
  BY <1>0 DEF Inserted
<1>6. /\ ino \in Nat /\ next_ino' \in Nat /\ next_ino <= next_ino'
      /\ ino \in 1000 .. next_ino' - 1
      /\ c.op # "link" => ino = next_ino /\ next_ino' = next_ino + 1
      /\ c.op = "link" => /\ Source(c) \in Files /\ ino = entry[Source(c)].ino
                          /\ next_ino' = next_ino
  BY <1>0 DEF Inserted
<1>7. /\ allocs' = new /\ all_entries' = all_entries \cup {new}
      /\ miscounted' = miscounted
      /\ call' = [call EXCEPT ![p] = moved]
  BY <1>0 DEF Inserted
<1>9. entry' \in [Pointer -> Entry]
  BY <1>0 DEF Inserted
<1>10. \A e \in all_entries :
         /\ entry'[e].name = entry[e].name /\ entry'[e].parent = entry[e].parent
         /\ entry'[e].ino = entry[e].ino /\ entry'[e].dir = entry[e].dir
  BY <1>0 DEF Inserted
<1>11. /\ entry'[new].name = c.name /\ entry'[new].parent = c.parent
       /\ entry'[new].ino = ino /\ entry'[new].dir = c.isdir
  BY <1>0 DEF Inserted
<1> HIDE DEF moved
<1>12. TypeOK'
  <2>1. moved \in Call
    BY <1>1, <1>2 DEF moved, Call, Steps, AfterInsert
  <2> QED  BY <1>1, <1>2, <1>6, <1>7, <1>9, <2>1 DEF TypeOK
<1>13. StoreOK'
  <2>1. (all_entries \subseteq 0 .. allocs)'
    BY <1>0, <1>1, <1>2, <1>7 DEF StoreOK, Inserted
  <2>2. (\A e \in all_entries \ {root} : entry[e].name \in Names)'
    BY <1>1, <1>7, <1>10, <1>11 DEF StoreOK
  <2>3. UniqueNames'
    BY <1>1, <1>2, <1>7, <1>10, <1>11
    DEF StoreOK, UniqueNames, NameIsFree, IsName, Children
  <2>4. WellFormedTree'
    BY <1>1, <1>2, <1>3, <1>7, <1>10, <1>11 DEF StoreOK, WellFormedTree, Dirs
  <2>5. InoDiscipline'
    <3>1. ASSUME NEW e \in all_entries' PROVE entry'[e].ino \in 1000 .. next_ino' - 1
      <4>1. CASE e = new  BY <1>6, <1>11, <4>1
      <4>2. CASE e # new
        <5>1. entry'[e].ino \in 1000 .. next_ino - 1
          BY <1>4, <1>7, <1>10, <4>2
        <5> QED  BY <1>4, <1>6, <5>1
      <4> QED  BY <4>1, <4>2
    <3>2. ASSUME NEW e \in all_entries, entry[e].ino = ino
          PROVE  ~entry[e].dir /\ ~c.isdir
      <4>1. c.op = "link" /\ Source(c) \in Files /\ ino = entry[Source(c)].ino
        BY <1>4, <1>6, <3>2
      <4> QED  BY <1>1, <3>2, <4>1 DEF StoreOK, InoDiscipline, Files, Dirs, InStep
    <3>3. ASSUME NEW e \in all_entries', NEW f \in all_entries',
                 entry'[e].ino = entry'[f].ino, e # f
          PROVE  ~entry'[e].dir /\ ~entry'[f].dir
      <4>1. CASE e = new \/ f = new  BY <1>7, <1>10, <1>11, <3>2, <3>3, <4>1
      <4>2. CASE e \in all_entries /\ f \in all_entries
        BY <1>1, <1>10, <3>3, <4>2 DEF StoreOK, InoDiscipline, Files, Dirs
      <4> QED  BY <1>7, <4>1, <4>2
    <3> QED  BY <3>1, <3>3 DEF InoDiscipline, Files, Dirs, VTFS_ROOT_INO
  <2> QED  BY <2>1, <2>2, <2>3, <2>4, <2>5 DEF StoreOK
<1>14. \A q \in Procs : call'[q] = IF q = p THEN moved ELSE call[q]
  BY <1>1, <1>7 DEF TypeOK
<1>15. /\ moved.op = c.op /\ moved.dir = c.dir /\ moved.node = c.node
       /\ moved.name = c.name /\ moved.parent = c.parent /\ moved.isdir = c.isdir
       /\ moved.target = c.target /\ moved.ino = c.ino /\ moved.child = new
       /\ moved.step = AfterInsert(c.op)
  BY <1>1 DEF moved, Call
<1>16. c.op = "link" =>
         /\ Source(c) \in all_entries /\ Source(c) # new /\ ~entry[Source(c)].dir
         /\ c.target \in 0 .. allocs /\ c.target # new /\ c.ino = ino
  BY <1>0, <1>1, <1>2 DEF HasSource, Files, Dirs, Inserted
<1>22. allocs \in Nat /\ new = allocs + 1  BY <1>0 DEF Inserted
<1>17. CallOK(call[p])'
  <2>1. InStep(call[p])'
    BY <1>1, <1>2, <1>14, <1>15 DEF InStep, StepsOf, AfterInsert, Holding
  <2>2. HasParent(call[p])'
    BY <1>1, <1>3, <1>7, <1>10, <1>14, <1>15 DEF HasParent, InodeOf, Dirs
  <2>3. HasChild(call[p])'
    BY <1>2, <1>7, <1>11, <1>14, <1>15 DEF HasChild, IsName, Children
  <2>4. HasSource(call[p])'
    <3>1. CASE c.op # "link"  BY <1>14, <1>15, <3>1 DEF HasSource
    <3>2. CASE c.op = "link"
      <4>1. c.target \in 0 .. allocs'
        BY <1>7, <1>16, <1>22, <3>2
      <4> QED
        BY <1>1, <1>7, <1>10, <1>14, <1>15, <1>16, <3>2, <4>1
        DEF HasSource, Source, Files, Dirs
    <3> QED  BY <3>1, <3>2
  <2>5. HasVictim(call[p])' /\ NameIsFree(call[p])' /\ ChildMayGo(call[p])'
    BY <1>1, <1>14, <1>15 DEF HasVictim, NameIsFree, ChildMayGo, AfterInsert
  <2>6. IsLinked(call[p])'
    BY <1>1, <1>6, <1>7, <1>10, <1>11, <1>14, <1>15, <1>16
    DEF IsLinked, AfterInsert, Files, Dirs, InStep
  <2>7. IsFresh(call[p])'
    <3>1. CASE c.op \notin {"create", "mkdir"}
      BY <1>14, <1>15, <3>1 DEF IsFresh
    <3>2. CASE c.op \in {"create", "mkdir"}
      <4>1. \A e \in all_entries' : entry'[e].ino = ino <=> e = new
        BY <1>4, <1>6, <1>7, <1>10, <1>11, <3>2
      <4>2. \A e \in all_entries' \ {root} : entry'[e].parent # new
        BY <1>1, <1>2, <1>3, <1>7, <1>10, <1>11 DEF StoreOK, WellFormedTree, Dirs
      <4>3. /\ call'[p].child = new /\ new \in all_entries' /\ entry'[new].ino = ino
            /\ entry'[new].dir = call'[p].isdir
        BY <1>7, <1>11, <1>14, <1>15
      <4> QED  BY <4>1, <4>2, <4>3 DEF IsFresh, WithIno, Children
    <3> QED  BY <3>1, <3>2
  <2> QED  BY <2>1, <2>2, <2>3, <2>4, <2>5, <2>6, <2>7 DEF CallOK
<1>18. ASSUME NEW q \in Procs, q # p, call[q] # Idle PROVE CallOK(call[q])'
  <2> DEFINE d == call[q]
  <2>1. /\ InStep(d) /\ HasParent(d) /\ HasChild(d) /\ HasSource(d) /\ HasVictim(d)
        /\ NameIsFree(d) /\ ChildMayGo(d) /\ IsLinked(d) /\ IsFresh(d)
        /\ Apart(d, c) /\ call'[q] = d
    BY <1>0, <1>14, <1>18 DEF IInv, CallOK, Inserted
  <2>2. InStep(call[q])'  BY <2>1 DEF InStep
  <2>3. HasParent(call[q])'
    BY <1>7, <1>10, <2>1 DEF HasParent, InodeOf, Dirs
  <2>4. HasChild(call[q])'
    BY <1>7, <1>10, <2>1 DEF HasChild, IsName, Children
  <2>5. HasSource(call[q])'
    <3>1. d.op = "link" => d.target \in 0 .. allocs' /\ d.target # new
      BY <1>7, <1>22, <2>1 DEF HasSource
    <3> QED
      BY <1>7, <1>10, <2>1, <3>1 DEF HasSource, Source, Files, Dirs
  <2>6. HasVictim(call[q])'
    BY <1>7, <1>10, <2>1 DEF HasVictim, IsName, Children, InodeOf
  <2>7. NameIsFree(call[q])'
    <3>1. d.parent = c.parent => d.name # c.name
      BY <1>0, <1>1, <1>18, SameDirectory DEF Inserted
    <3> QED
      BY <1>7, <1>10, <1>11, <2>1, <3>1 DEF NameIsFree, IsName, Children
  <2>8. ChildMayGo(call[q])'
    <3>1. SUFFICES ASSUME d.step = "delete" PROVE MayDelete(d.child)'
      BY <2>1 DEF ChildMayGo
    <3>2. c.parent # d.child  BY <1>0, <1>1, <1>18, <3>1, VictimApart DEF Inserted
    <3>3. d.child \in all_entries
      BY <2>1, <3>1 DEF InStep, HasChild, IsName, Children, Holding
    <3>4. MayDelete(d.child)  BY <2>1, <3>1 DEF ChildMayGo
    <3> QED
      BY <1>7, <1>10, <1>11, <2>1, <3>2, <3>3, <3>4 DEF MayDelete, Children
  <2>9. IsLinked(call[q])'
    BY <1>7, <1>10, <2>1 DEF IsLinked, Files, Dirs, HasSource, InStep, StepsOf, Ops
  <2>10. IsFresh(call[q])'
    <3>1. SUFFICES ASSUME d.op \in {"create", "mkdir"}, d.step \in Holding
                   PROVE (WithIno(entry[d.child].ino) = {d.child}
                          /\ Children(d.child) = {}
                          /\ entry[d.child].dir = d.isdir)'
      BY <2>1 DEF IsFresh
    <3>2. /\ WithIno(entry[d.child].ino) = {d.child} /\ Children(d.child) = {}
          /\ entry[d.child].dir = d.isdir
          /\ d.child # c.parent /\ d.child # Source(c) /\ d.child \in all_entries
      BY <1>1, <1>18, <2>1, <3>1
      DEF IsFresh, Apart, HasChild, IsName, Children, InStep, Source
    <3>3. entry[d.child].ino # ino
      BY <1>4, <1>6, <1>16, <3>2 DEF WithIno
    <3> QED  BY <1>7, <1>10, <1>11, <2>1, <3>2, <3>3 DEF WithIno, Children
  <2> QED
    BY <2>2, <2>3, <2>4, <2>5, <2>6, <2>7, <2>8, <2>9, <2>10 DEF CallOK
<1>19. ASSUME NEW q \in Procs, q # p, call[q] # Idle
       PROVE  Apart(moved, call[q]) /\ Apart(call[q], moved)
  <2>1. Apart(c, call[q]) /\ Apart(call[q], c) /\ HasParent(call[q])
        /\ HasSource(call[q]) /\ InStep(call[q])
    BY <1>0, <1>19 DEF IInv, CallOK, Inserted
  <2>2. new # call[q].parent /\ new # call[q].node.entry
    BY <1>2, <2>1, <1>19
    DEF HasParent, HasSource, HasVictim, Source, IsName, Children, InStep, Ops, Dirs,
        Files, NoInode, IInv, CallOK
  <2> QED  BY <1>1, <1>15, <1>19, <2>1, <2>2 DEF Apart, Conflict
<1>20. ASSUME NEW q \in Procs, NEW r \in Procs, q # r
       PROVE  Apart(call[q], call[r])'
  <2>1. Apart(call'[q], call'[r])
    BY <1>14, <1>19, <1>20 DEF IInv, Apart
  <2> QED  BY <2>1 DEF Apart, Conflict
<1>21. \A q \in Procs : CallOK(call[q])'
  BY <1>14, <1>17, <1>18 DEF CallOK
<1> QED  BY <1>12, <1>13, <1>20, <1>21 DEF IInv

-----------------------------------------------------------------------------
(***************************************************************************)
(* The removal of an entry.                                                *)
(***************************************************************************)
LEMMA DeleteStep ==
  ASSUME OneMount, IInv, NEW p \in Procs, Delete(p) PROVE IInv'
<1> DEFINE c == call[p]
           v == c.child
<1>1. /\ TypeOK /\ StoreOK /\ c \in Call /\ c.step = "delete" /\ c # Idle
      /\ CallOK(c) /\ MayDelete(v)
  BY DEF IInv, TypeOK, Delete, At, Idle, CallOK, ChildMayGo
<1>2. v \in all_entries \ {root} /\ v \in Pointer /\ all_entries \subseteq Pointer
  BY <1>1, HeldChild DEF Holding, TypeOK
<1>3. /\ allocs' = allocs /\ next_ino' = next_ino /\ all_entries' = all_entries \ {v}
      /\ miscounted' = miscounted
      /\ call' = [call EXCEPT ![p] = Idle]
  BY DEF Delete, DeleteEntry, Return
<1>4. /\ entry' \in [Pointer -> Entry]
      /\ \A e \in all_entries \ {v} :
           /\ entry'[e].name = entry[e].name /\ entry'[e].parent = entry[e].parent
           /\ entry'[e].ino = entry[e].ino /\ entry'[e].dir = entry[e].dir
  <2> DEFINE ino == entry[v].ino
             Lost(e) == IF e \in all_entries \ {v} /\ entry[e].ino = ino THEN 1 ELSE 0
             LostDir(e) == IF entry[v].dir /\ e = entry[v].parent THEN 1 ELSE 0
  <2>1. entry' = [e \in Pointer |->
           IF e = v THEN NotAnEntry
           ELSE [entry[e] EXCEPT !.nlink = @ - Lost(e) - LostDir(e)]]
    BY DEF Delete, DeleteEntry
  <2>2. \A e \in Pointer : Lost(e) \in Int /\ LostDir(e) \in Int
    OBVIOUS
  <2> HIDE DEF Lost, LostDir
  <2>3. NotAnEntry \in Entry  BY DEF NotAnEntry, Entry
  <2> QED  BY <1>1, <1>2, <2>1, <2>2, <2>3 DEF TypeOK, Entry
<1>5. Idle \in Call
  BY MaxEntriesAssumption DEF Call, Idle, Inodes, NoInode, Steps, NULL
<1>6. TypeOK'
  BY <1>1, <1>3, <1>4, <1>5 DEF TypeOK
<1>7. \A e \in all_entries \ {root} : entry[e].parent # v
  BY <1>1, <1>2 DEF MayDelete, Children, StoreOK, WellFormedTree, Dirs
<1>8. StoreOK'
  <2>1. (all_entries \subseteq 0 .. allocs)'
    BY <1>1, <1>3 DEF StoreOK
  <2>2. (\A e \in all_entries \ {root} : entry[e].name \in Names)'
    BY <1>1, <1>3, <1>4 DEF StoreOK
  <2>3. UniqueNames'  BY <1>1, <1>3, <1>4 DEF StoreOK, UniqueNames
  <2>4. WellFormedTree'
    <3>1. /\ root \in all_entries /\ entry[root].dir /\ entry[root].ino = VTFS_ROOT_INO
          /\ \A e \in all_entries \ {root} : entry[e].parent \in Dirs /\ entry[e].parent < e
      BY <1>1 DEF StoreOK, WellFormedTree
    <3>2. root \in all_entries \ {v}  BY <1>2, <3>1
    <3>3. (root \in all_entries /\ entry[root].dir /\ entry[root].ino = VTFS_ROOT_INO)'
      BY <1>3, <1>4, <3>1, <3>2 DEF root, VTFS_ROOT_INO
    <3>4. ASSUME NEW e \in all_entries' \ {root}
          PROVE  entry'[e].parent \in Dirs' /\ entry'[e].parent < e
      <4>1. e \in all_entries \ {root} /\ e # v  BY <1>3, <3>4
      <4>2. entry[e].parent \in all_entries \ {v} /\ entry[entry[e].parent].dir
        BY <1>7, <3>1, <4>1 DEF Dirs
      <4>3. /\ entry'[e].parent = entry[e].parent
            /\ entry'[entry[e].parent].dir = entry[entry[e].parent].dir
        BY <1>4, <4>1, <4>2
      <4> QED  BY <1>3, <3>1, <4>1, <4>2, <4>3 DEF Dirs
    <3> QED  BY <3>3, <3>4 DEF WellFormedTree, root, VTFS_ROOT_INO
  <2>5. InoDiscipline'
    BY <1>1, <1>3, <1>4 DEF StoreOK, InoDiscipline, Files, Dirs
  <2> QED  BY <2>1, <2>2, <2>3, <2>4, <2>5 DEF StoreOK
<1>9. \A q \in Procs : call'[q] = IF q = p THEN Idle ELSE call[q]
  BY <1>1, <1>3 DEF TypeOK
<1>10. ASSUME NEW q \in Procs, q # p, call[q] # Idle PROVE CallOK(call[q])'
  <2> DEFINE d == call[q]
  <2>1. /\ InStep(d) /\ HasParent(d) /\ HasChild(d) /\ HasSource(d) /\ HasVictim(d)
        /\ NameIsFree(d) /\ ChildMayGo(d) /\ IsLinked(d) /\ IsFresh(d)
        /\ call'[q] = d
    BY <1>9, <1>10 DEF IInv, CallOK
  <2>2. d.parent # v /\ (d.op = "link" => Source(d) # v) /\ \A e : IsName(d, e) => e # v
    BY <1>1, <1>10, VictimApart
  <2>3. InStep(call[q])'  BY <2>1 DEF InStep
  <2>4. HasParent(call[q])'
    BY <1>3, <1>4, <2>1, <2>2 DEF HasParent, InodeOf, Dirs
  <2>5. HasChild(call[q])'
    BY <1>3, <1>4, <2>1, <2>2 DEF HasChild, IsName, Children
  <2>6. HasSource(call[q])'
    BY <1>3, <1>4, <2>1, <2>2 DEF HasSource, InodeOf, Files, Dirs
  <2>7. HasVictim(call[q])'
    BY <1>3, <1>4, <2>1, <2>2 DEF HasVictim, IsName, Children, InodeOf
  <2>8. NameIsFree(call[q])'
    BY <1>3, <1>4, <2>1 DEF NameIsFree, IsName, Children
  <2>9. ChildMayGo(call[q])'
    BY <1>3, <1>4, <2>1, <2>2
    DEF InStep, ChildMayGo, MayDelete, Children, HasChild, IsName, Holding
  <2>10. IsLinked(call[q])'
    BY <1>3, <1>4, <2>1, <2>2
    DEF IsLinked, Files, Dirs, HasSource, InStep, StepsOf, Ops, HasChild, IsName, Holding
  <2>11. IsFresh(call[q])'
    BY <1>3, <1>4, <2>1, <2>2 DEF InStep, IsFresh, WithIno, Children, HasChild, IsName
  <2> QED
    BY <2>3, <2>4, <2>5, <2>6, <2>7, <2>8, <2>9, <2>10, <2>11 DEF CallOK
<1>11. ASSUME NEW q \in Procs, NEW r \in Procs, q # r
       PROVE  Apart(call[q], call[r])'
  <2>1. Apart(call'[q], call'[r])
    BY <1>9, <1>11 DEF IInv, Apart
  <2> QED  BY <2>1 DEF Apart, Conflict
<1>12. \A q \in Procs : CallOK(call[q])'
  BY <1>9, <1>10 DEF CallOK
<1> QED  BY <1>6, <1>8, <1>11, <1>12 DEF IInv

-----------------------------------------------------------------------------
(***************************************************************************)
(* The theorems.                                                           *)
(***************************************************************************)
LEMMA NextIInv ==
  ASSUME OneMount PROVE IInv /\ [Next]_vars => IInv'
<1> SUFFICES ASSUME IInv, [Next]_vars PROVE IInv'
  OBVIOUS
<1>1. CASE UNCHANGED vars
  <2>1. TypeOK' /\ SameShape
    BY <1>1 DEF vars, IInv, TypeOK, SameShape
  <2>2. StoreOK'
    BY <1>1 DEF vars, IInv, StoreOK, UniqueNames, WellFormedTree, InoDiscipline,
                Dirs, Files
  <2>3. \A q \in Procs : CallOK(call[q])'
    <3>1. ASSUME NEW q \in Procs PROVE CallOK(call'[q])
      BY <1>1 DEF vars, IInv
    <3> QED  BY <2>1, <3>1, CallKept DEF IInv
  <2>4. \A q, r \in Procs : q # r => Apart(call[q], call[r])'
    BY <1>1 DEF vars, IInv, Apart, Conflict
  <2> QED  BY <2>1, <2>2, <2>3, <2>4 DEF IInv
<1>2. ASSUME NEW p \in Procs, Step(p) PROVE IInv'
  <2>1. CASE FindVictim(p)  BY <2>1, FindVictimStep
  <2>2. CASE FindChild(p)  BY <2>2, FindChildStep
  <2>3. CASE FetchFound(p)  BY <2>3, FetchFoundStep
  <2>4. CASE FetchNothing(p)
    BY <2>4, SameStore, ReturnStep DEF FetchNothing
  <2>5. CASE CheckName(p)  BY <2>5, CheckNameStep
  <2>6. CASE Insert(p)  BY <2>6, InsertStep
  <2>7. CASE InsertNoMemory(p)  BY <2>7, InsertNoMemoryStep
  <2>8. CASE InitNlink(p)  BY <2>8, InitNlinkStep
  <2>9. CASE GetInode(p)
    BY <2>9, SameStore, ReturnStep DEF GetInode
  <2>10. CASE GetInodeNoMemory(p)  BY <2>10, GetInodeNoMemoryStep
  <2>11. CASE FinishLink(p)  BY <2>11, FinishLinkStep
  <2>12. CASE Delete(p)  BY <2>12, DeleteStep
  <2>13. CASE Undefined(p)  BY <2>13, UndefinedStep
  <2> QED
    BY <1>2, <2>1, <2>2, <2>3, <2>4, <2>5, <2>6, <2>7, <2>8, <2>9, <2>10, <2>11,
       <2>12, <2>13 DEF Step
<1>3. ASSUME NEW p \in Procs,
             BeginCreate(p) \/ BeginLookup(p) \/ BeginRemove(p) \/ BeginLink(p)
      PROVE  IInv'
  BY <1>3, BeginCreateStep, BeginLookupStep, BeginRemoveStep, BeginLinkStep
<1> QED  BY <1>1, <1>2, <1>3 DEF Next


LEMMA Invariance == ASSUME OneMount PROVE Spec => []IInv
<1>1. Init => IInv  BY InitIInv
<1>2. IInv /\ [Next]_vars => IInv'  BY NextIInv
<1> QED  BY <1>1, <1>2, PTL DEF Spec

\* The store and the calls in progress are always of the types declared.
THEOREM TypeCorrect == ASSUME OneMount PROVE Spec => []TypeOK
<1>1. IInv => TypeOK  BY DEF IInv
<1> QED  BY <1>1, Invariance, PTL

\* No directory ever holds one name twice, although create_entry_internal looks
\* the name up under one hold of the spinlock and inserts under another.
THEOREM NamesUnique == ASSUME OneMount PROVE Spec => []UniqueNames
<1>1. IInv => UniqueNames  BY DEF IInv, StoreOK
<1> QED  BY <1>1, Invariance, PTL

\* Every entry is always below a live, older directory, so every walk up the
\* parent pointers ends at the root.
THEOREM TreeWellFormed == ASSUME OneMount PROVE Spec => []WellFormedTree
<1>1. IInv => WellFormedTree  BY DEF IInv, StoreOK
<1> QED  BY <1>1, Invariance, PTL

\* Entries share an inode number only as names of one file.
THEOREM NumbersDisciplined == ASSUME OneMount PROVE Spec => []InoDiscipline
<1>1. IInv => InoDiscipline  BY DEF IInv, StoreOK
<1> QED  BY <1>1, Invariance, PTL

\* The directory and the child a handler works on are never freed by another
\* handler.  Nothing is claimed of the target of a link.
THEOREM PointersLive == ASSUME OneMount PROVE Spec => []LivePointers
<1>1. IInv => LivePointers
  <2> SUFFICES ASSUME IInv, NEW p \in Procs
               PROVE  {call[p].parent, call[p].child}
                        \subseteq all_entries \cup {NULL}
    BY DEF LivePointers
  <2>1. CASE call[p] = Idle  BY <2>1 DEF Idle
  <2>2. CASE call[p] # Idle
    BY <2>2
    DEF IInv, CallOK, InStep, HasParent, HasChild, HasSource, IsName, Children, Dirs,
        Files
  <2> QED  BY <2>1, <2>2
<1> QED  BY <1>1, Invariance, PTL

\* What a handler frees is empty, and no other handler is at work in it or on it.
THEOREM DeletesSafe == ASSUME OneMount PROVE Spec => []DeleteIsSafe
<1>1. IInv => DeleteIsSafe
  <2> SUFFICES ASSUME IInv, NEW p \in Procs, call[p].step = "delete"
               PROVE  /\ MayDelete(call[p].child)
                      /\ \A q \in Procs \ {p} :
                           call[p].child \notin {call[q].parent, call[q].child}
    BY DEF DeleteIsSafe, At
  <2>1. MayDelete(call[p].child)
    BY DEF IInv, CallOK, ChildMayGo, Idle
  <2>2. call[p].child # NULL  BY HeldChild DEF Holding
  <2>3. ASSUME NEW q \in Procs \ {p}
        PROVE  call[p].child \notin {call[q].parent, call[q].child}
    <3>1. CASE call[q] = Idle  BY <2>2, <3>1 DEF Idle
    <3>2. CASE call[q] # Idle
      BY <2>2, <3>2, VictimApart DEF IInv, CallOK, HasChild, InStep
    <3> QED  BY <3>1, <3>2
  <2> QED  BY <2>1, <2>3
<1> QED  BY <1>1, Invariance, PTL


-----------------------------------------------------------------------------
(***************************************************************************)
(* Inode numbers.                                                          *)
(***************************************************************************)

\* Every step but an insertion leaves at most the entries there were.
LEMMA OnlyInsertAdds ==
  ASSUME IInv, [Next]_vars, ~ \E p \in Procs : Insert(p)
  PROVE  all_entries' \subseteq all_entries /\ next_ino <= next_ino'
<1>1. next_ino \in Nat  BY DEF IInv, TypeOK
<1>2. CASE UNCHANGED vars  BY <1>1, <1>2 DEF vars
<1>3. ASSUME NEW p \in Procs, Step(p), ~Insert(p)
      PROVE  all_entries' \subseteq all_entries /\ next_ino <= next_ino'
  BY <1>1, <1>3
  DEF Step, FindVictim, FindChild, FetchFound, FetchNothing, CheckName,
      InsertNoMemory, InsertFails, InoAfter, InitNlink, GetInode, GetInodeNoMemory,
      FinishLink, AddLink, Delete, DeleteEntry, Undefined, store_vars
<1>4. ASSUME NEW p \in Procs,
             BeginCreate(p) \/ BeginLookup(p) \/ BeginRemove(p) \/ BeginLink(p)
      PROVE  all_entries' \subseteq all_entries /\ next_ino <= next_ino'
  <2>1. BeginCreate(p) => \E c : Begin(p, c)  BY DEF BeginCreate
  <2>2. BeginLookup(p) => \E c : Begin(p, c)  BY DEF BeginLookup
  <2>3. BeginRemove(p) => \E c : Begin(p, c)  BY DEF BeginRemove
  <2>4. BeginLink(p) => \E c : Begin(p, c)  BY DEF BeginLink
  <2>5. PICK c : Begin(p, c)  BY <1>4, <2>1, <2>2, <2>3, <2>4
  <2> QED  BY <1>1, <2>5 DEF Begin, store_vars
<1> QED  BY <1>2, <1>3, <1>4 DEF Next

\* The number of a file whose last name is gone never serves another file.
THEOREM NumbersNeverReused == ASSUME OneMount PROVE Spec => NumbersFresh
<1>1. IInv /\ [Next]_vars => [NumbersFreshStep]_vars
  <2> SUFFICES ASSUME IInv, [Next]_vars PROVE NumbersFreshStep
    OBVIOUS
  <2>1. CASE ~ \E p \in Procs : Insert(p)
    BY <2>1, OnlyInsertAdds DEF NumbersFreshStep
  <2>2. ASSUME NEW p \in Procs, Insert(p) PROVE NumbersFreshStep
    <3>1. PICK c, new, ino : Inserted(p, c, new, ino)
      BY <2>2, InsertFacts
    <3>2. entry'[new].ino = ino /\ all_entries' \ all_entries = {new}
          /\ next_ino \in Nat /\ next_ino <= next_ino'
      BY <3>1 DEF Inserted
    <3>3. ino \in (next_ino .. next_ino' - 1) \cup {entry[f].ino : f \in Files}
      BY <3>1 DEF Inserted
    <3> QED  BY <3>2, <3>3 DEF NumbersFreshStep
  <2> QED  BY <2>1, <2>2
<1> QED  BY <1>1, Invariance, PTL DEF Spec, NumbersFresh

-----------------------------------------------------------------------------
(***************************************************************************)
(* The interleaved operations implement VtfsNamespace: the insertion of an *)
(* entry is one Create or one Link, its removal one Remove, a failed       *)
(* allocation loses a number, and no other step is seen by the namespace.  *)
(* First what a step may do to the entries: insert one, delete one, or     *)
(* keep all of them in shape.                                              *)
(***************************************************************************)

\* The value the refinement gives to the variable names.
NamesNow == {NameOf(e) : e \in all_entries \ {root}}

LEMMA InitNlinkShape ==
  ASSUME IInv, NEW p \in Procs, InitNlink(p)
  PROVE  SameShape /\ next_ino' = next_ino
<1>1. TypeOK /\ call[p].child \in Pointer
  BY HeldChild DEF IInv, InitNlink, At, Holding
<1> QED  BY <1>1 DEF InitNlink, SameShape, TypeOK, Entry

LEMMA FinishLinkShape ==
  ASSUME IInv, NEW p \in Procs, FinishLink(p)
  PROVE  SameShape /\ next_ino' = next_ino
<1> DEFINE target == call[p].target
<1>1. TypeOK /\ CallOK(call[p]) /\ call[p] # Idle /\ call[p].step = "add_link"
  BY DEF IInv, FinishLink, At, Idle
<1>2. target \in Pointer
  BY <1>1
  DEF CallOK, InStep, StepsOf, Ops, TypeOK, FinishLink, TargetFreed, UsesTarget
<1>3. entry[target].nlink + 1 \in Int  BY <1>1, <1>2 DEF TypeOK, Entry
<1> HIDE DEF target
<1>4. entry' = [e \in Pointer |->
         IF e \in WithIno(entry[target].ino)
         THEN [entry[e] EXCEPT !.nlink = entry[target].nlink + 1]
         ELSE entry[e]]
  BY DEF FinishLink, AddLink, target
<1>5. entry' \in [Pointer -> Entry]  BY <1>1, <1>3, <1>4 DEF TypeOK, Entry
<1> QED
  BY <1>1, <1>3, <1>4, <1>5 DEF FinishLink, AddLink, SameShape, TypeOK, Entry

LEMMA OtherStepsKeepShape ==
  ASSUME IInv, [Next]_vars, ~ \E p \in Procs : Insert(p) \/ Delete(p)
  PROVE  SameShape /\ next_ino' \in {next_ino, next_ino + 1}
<1>1. next_ino \in Nat  BY DEF IInv, TypeOK
<1>2. UNCHANGED <<store_vars, miscounted>> => SameShape /\ next_ino' = next_ino
  BY SameStore DEF store_vars
<1>3. CASE UNCHANGED vars  BY <1>2, <1>3 DEF vars, store_vars
<1>4. ASSUME NEW p \in Procs, Step(p)
      PROVE  SameShape /\ next_ino' \in {next_ino, next_ino + 1}
  <2>1. CASE InitNlink(p)  BY <2>1, InitNlinkShape
  <2>2. CASE FinishLink(p)  BY <2>2, FinishLinkShape
  <2>3. CASE InsertNoMemory(p)
    BY <1>1, <2>3 DEF InsertNoMemory, InsertFails, InoAfter, SameShape, IInv, TypeOK
  <2>4. CASE \/ FindVictim(p) \/ FindChild(p) \/ FetchFound(p) \/ FetchNothing(p)
             \/ CheckName(p) \/ GetInode(p) \/ GetInodeNoMemory(p) \/ Undefined(p)
    BY <1>2, <2>4
    DEF FindVictim, FindChild, FetchFound, FetchNothing, CheckName, GetInode,
        GetInodeNoMemory, Undefined
  <2> QED  BY <1>4, <2>1, <2>2, <2>3, <2>4 DEF Step
<1>5. ASSUME NEW p \in Procs,
             BeginCreate(p) \/ BeginLookup(p) \/ BeginRemove(p) \/ BeginLink(p)
      PROVE  SameShape /\ next_ino' = next_ino
  <2>1. BeginCreate(p) => \E c : Begin(p, c)  BY DEF BeginCreate
  <2>2. BeginLookup(p) => \E c : Begin(p, c)  BY DEF BeginLookup
  <2>3. BeginRemove(p) => \E c : Begin(p, c)  BY DEF BeginRemove
  <2>4. BeginLink(p) => \E c : Begin(p, c)  BY DEF BeginLink
  <2>5. PICK c : Begin(p, c)  BY <1>5, <2>1, <2>2, <2>3, <2>4
  <2> QED  BY <1>2, <2>5 DEF Begin
<1> QED  BY <1>3, <1>4, <1>5 DEF Next

-----------------------------------------------------------------------------
(***************************************************************************)
(* Entries and their names.                                                *)
(***************************************************************************)

\* The names of two entries differ: a directory is known by its number.
LEMMA NamesTellApart ==
  ASSUME IInv, NEW e \in all_entries \ {root}, NEW f \in all_entries \ {root},
         NameOf(e) = NameOf(f)
  PROVE  e = f
<1>1. entry[e].parent \in Dirs /\ entry[f].parent \in Dirs
  BY DEF IInv, StoreOK, WellFormedTree
<1>2. entry[entry[e].parent].ino = entry[entry[f].parent].ino
      /\ entry[e].name = entry[f].name
  BY DEF NameOf
<1>3. entry[e].parent = entry[f].parent
  BY <1>1, <1>2 DEF IInv, StoreOK, InoDiscipline, Dirs, Files
<1> QED  BY <1>2, <1>3 DEF IInv, StoreOK, UniqueNames

\* A live directory is one the namespace knows by its number.
LEMMA DirectoryIsNamed ==
  ASSUME IInv, NEW d \in Dirs
  PROVE  /\ entry[d].ino \in {Namespace!RootIno} \cup {x.ino : x \in NamesNow}
         /\ Namespace!IsDirectory(entry[d].ino)
<1>1. CASE d = root
  BY <1>1 DEF IInv, StoreOK, WellFormedTree, VTFS_ROOT_INO, Namespace!RootIno,
              Namespace!IsDirectory
<1>2. CASE d # root
  <2>1. NameOf(d) \in NamesNow /\ NameOf(d).ino = entry[d].ino /\ NameOf(d).isdir
    BY <1>2 DEF NamesNow, NameOf, Dirs
  <2> QED  BY <2>1 DEF Namespace!IsDirectory, NamesNow
<1> QED  BY <1>1, <1>2

\* A name no entry of a directory has is free in the namespace.
LEMMA UnusedIsFree ==
  ASSUME IInv, NEW d \in Dirs, NEW n,
         \A e \in Children(d) : entry[e].name # n
  PROVE  Namespace!Free(entry[d].ino, n)
<1>1. ASSUME NEW e \in all_entries \ {root}, NameOf(e).dir = entry[d].ino
      PROVE  NameOf(e).name # n
  <2>1. entry[e].parent \in Dirs  BY DEF IInv, StoreOK, WellFormedTree
  <2>2. entry[entry[e].parent].ino = entry[d].ino  BY <1>1 DEF NameOf
  <2>3. entry[e].parent = d
    BY <2>1, <2>2 DEF IInv, StoreOK, InoDiscipline, Dirs, Files
  <2> QED  BY <2>3 DEF Children, NameOf
<1> QED  BY <1>1 DEF Namespace!Free

-----------------------------------------------------------------------------
(***************************************************************************)
(* The three kinds of steps.                                               *)
(***************************************************************************)
LEMMA ShapeKeepsNames ==
  ASSUME IInv, SameShape PROVE NamesNow' = NamesNow
<1>1. all_entries \subseteq Pointer /\ all_entries' = all_entries
  BY DEF IInv, TypeOK, SameShape
<1>2. ASSUME NEW e \in all_entries \ {root} PROVE NameOf(e)' = NameOf(e)
  <2>1. e \in Pointer /\ entry[e].parent \in Pointer
    BY <1>1 DEF IInv, StoreOK, WellFormedTree, Dirs
  <2> QED  BY <2>1 DEF SameShape, NameOf
<1> QED  BY <1>1, <1>2 DEF NamesNow, root

LEMMA InsertAddsName ==
  ASSUME IInv, NEW p \in Procs, Insert(p)
  PROVE  Namespace!Next
<1>1. PICK c, new, ino : Inserted(p, c, new, ino)  BY InsertFacts
<1> DEFINE name == [dir |-> entry[c.parent].ino, name |-> c.name, ino |-> ino,
                    isdir |-> c.isdir]
<1>2. NamesNow' = NamesNow \cup {name}
  <2>1. all_entries' \ {root} = (all_entries \ {root}) \cup {new}
    BY <1>1 DEF Inserted
  <2>2. ASSUME NEW e \in all_entries \ {root} PROVE NameOf(e)' = NameOf(e)
    <3>1. entry[e].parent \in all_entries
      BY DEF IInv, StoreOK, WellFormedTree, Dirs
    <3> QED  BY <1>1, <3>1 DEF Inserted, NameOf
  <2>3. NameOf(new)' = name
    BY <1>1 DEF Inserted, NameOf, Dirs
  <2> HIDE DEF name
  <2>4. NamesNow' = {NameOf(e)' : e \in (all_entries \ {root}) \cup {new}}
    BY <2>1 DEF NamesNow, root
  <2> QED  BY <2>2, <2>3, <2>4 DEF NamesNow
<1>3. /\ entry[c.parent].ino \in {Namespace!RootIno} \cup {x.ino : x \in NamesNow}
      /\ Namespace!IsDirectory(entry[c.parent].ino)
  BY <1>1, DirectoryIsNamed DEF Inserted
<1>4. Namespace!Free(entry[c.parent].ino, c.name)
  <2>1. \A e \in Children(c.parent) : entry[e].name # c.name
    BY <1>1 DEF Inserted, NameIsFree, IsName, Children
  <2> QED  BY <1>1, <2>1, UnusedIsFree DEF Inserted
<1> DEFINE d == entry[c.parent].ino
<1> HIDE DEF d, name
<1>5. /\ c.name \in Names /\ d \in {Namespace!RootIno} \cup {x.ino : x \in NamesNow}
  BY <1>1, <1>3 DEF Inserted, d
<1>6. CASE c.op # "link"
  <2>1. ino = next_ino /\ next_ino' = next_ino + 1 /\ c.isdir \in BOOLEAN
    BY <1>1, <1>6 DEF Inserted, Call
  <2>2. Namespace!Create(d, c.name, c.isdir)
    BY <1>2, <1>3, <1>4, <2>1 DEF Namespace!Create, NamesNow, d, name
  <2> QED  BY <1>5, <2>1, <2>2 DEF Namespace!Next, NamesNow
<1>7. CASE c.op = "link"
  <2>1. /\ Source(c) \in all_entries \ {root} /\ ~entry[Source(c)].dir
        /\ ino = entry[Source(c)].ino /\ next_ino' = next_ino /\ ~c.isdir
    BY <1>1, <1>7 DEF Inserted, Files, Dirs, InStep, IInv, StoreOK, WellFormedTree
  <2>2. NameOf(Source(c)) \in NamesNow /\ NameOf(Source(c)).ino = ino
        /\ ~NameOf(Source(c)).isdir
    BY <2>1 DEF NamesNow, NameOf
  <2>3. c.isdir = FALSE  BY <1>1, <2>1 DEF Inserted, Call
  <2>4. Namespace!Link(d, c.name, NameOf(Source(c)))
    BY <1>2, <1>3, <1>4, <2>1, <2>2, <2>3 DEF Namespace!Link, NamesNow, d, name
  <2> QED  BY <1>5, <2>2, <2>4 DEF Namespace!Next, NamesNow
<1> QED  BY <1>6, <1>7

LEMMA DeleteRemovesName ==
  ASSUME IInv, NEW p \in Procs, Delete(p)
  PROVE  Namespace!Next
<1> DEFINE v == call[p].child
<1>1. /\ v \in all_entries \ {root} /\ MayDelete(v) /\ all_entries \subseteq Pointer
      /\ TypeOK
  BY HeldChild DEF Delete, At, Holding, IInv, TypeOK, CallOK, ChildMayGo, Idle
<1>2. all_entries' = all_entries \ {v} /\ next_ino' = next_ino
  BY DEF Delete, DeleteEntry
<1>3. ASSUME NEW e \in all_entries \ {v}
      PROVE  /\ entry'[e].name = entry[e].name /\ entry'[e].parent = entry[e].parent
             /\ entry'[e].ino = entry[e].ino /\ entry'[e].dir = entry[e].dir
  BY <1>1 DEF Delete, DeleteEntry, TypeOK, Entry
<1>4. \A e \in all_entries \ {root} :
        entry[e].parent \in all_entries /\ entry[e].parent # v
  BY <1>1 DEF MayDelete, Children, IInv, StoreOK, WellFormedTree, Dirs
<1>5. ASSUME NEW e \in all_entries \ {root, v} PROVE NameOf(e)' = NameOf(e)
  BY <1>3, <1>4 DEF NameOf
<1>6. NamesNow' = NamesNow \ {NameOf(v)}
  <2>1. \A e \in all_entries \ {root, v} : NameOf(e) # NameOf(v)
    BY <1>1, NamesTellApart
  <2> QED  BY <1>1, <1>2, <1>5, <2>1 DEF NamesNow, root
<1>7. entry[v].dir => \A e \in all_entries \ {root} : NameOf(e).dir # entry[v].ino
  <2> SUFFICES ASSUME entry[v].dir, NEW e \in all_entries \ {root},
                      entry[entry[e].parent].ino = entry[v].ino
               PROVE  FALSE
    BY DEF NameOf
  <2>1. entry[e].parent = v
    BY <1>1, <1>4 DEF IInv, StoreOK, InoDiscipline, Files, Dirs
  <2> QED  BY <1>4, <2>1
<1>8. NameOf(v) \in NamesNow /\ NameOf(v).isdir = entry[v].dir
      /\ NameOf(v).ino = entry[v].ino
  BY <1>1 DEF NamesNow, NameOf
<1>9. Namespace!Remove(NameOf(v))
  BY <1>2, <1>6, <1>7, <1>8 DEF Namespace!Remove, NamesNow
<1> QED  BY <1>8, <1>9 DEF Namespace!Next, NamesNow

\* However the threads interleave, the names go through one create, link or
\* remove after the other, each allowed by the namespace as it is then.
THEOREM NamespaceImplemented ==
  ASSUME OneMount PROVE Spec => ImplementsNamespace
<1>1. Init => Namespace!Init
  BY DEF Init, StoreInit, Namespace!Init, Namespace!RootIno, VTFS_ROOT_INO
<1>2. IInv /\ [Next]_vars => [Namespace!Next]_<<NamesNow, next_ino>>
  <2> SUFFICES ASSUME IInv, [Next]_vars
               PROVE  Namespace!Next \/ UNCHANGED <<NamesNow, next_ino>>
    OBVIOUS
  <2>1. ASSUME NEW p \in Procs, Insert(p) PROVE Namespace!Next
    BY <2>1, InsertAddsName
  <2>2. ASSUME NEW p \in Procs, Delete(p) PROVE Namespace!Next
    BY <2>2, DeleteRemovesName
  <2>3. CASE ~ \E p \in Procs : Insert(p) \/ Delete(p)
    <3>1. NamesNow' = NamesNow /\ next_ino' \in {next_ino, next_ino + 1}
      BY <2>3, OtherStepsKeepShape, ShapeKeepsNames
    <3> QED  BY <3>1 DEF Namespace!Next, Namespace!LoseNumber, NamesNow
  <2> QED  BY <2>1, <2>2, <2>3
<1> QED
  BY <1>1, <1>2, Invariance, PTL
  DEF Spec, ImplementsNamespace, Namespace!Spec, NamesNow

=============================================================================
