------------------------- MODULE VtfsLinkCountProofs -------------------------
(***************************************************************************)
(* Proof that the link counts kept in the entries are the counts of the    *)
(* tree.  Both counts are inductive together with IInv.  No lock keeps     *)
(* other names of the file from going, or other links of it from being     *)
(* counted, while a link waits to be counted: add_link and delete_entry    *)
(* each change the counts of all its names by one, and both ignore the     *)
(* links that are pending.                                                 *)
(***************************************************************************)
EXTENDS VtfsInodeOpsProofs

Counted == IInv /\ LinkCounts /\ DirLinkCounts

LinkCounted(e) ==
  entry[e].ino \notin miscounted =>
    entry[e].nlink = Cardinality(WithIno(entry[e].ino) \ Pending)

Own(d) == entry[d].nlink - Cardinality(Children(d) \cap Dirs)
DirCounted(d) == Own(d) \in {1, 2} /\ (d = root => Own(d) = 2)

LEMMA CountsByEntry ==
  /\ LinkCounts <=> \A e \in Files \ Pending : LinkCounted(e)
  /\ DirLinkCounts <=> \A d \in Dirs : DirCounted(d)
BY DEF LinkCounts, LinkCounted, DirLinkCounts, DirCounted, Own

-----------------------------------------------------------------------------
(***************************************************************************)
(* Sets of entries.                                                        *)
(***************************************************************************)
LEMMA EntriesFinite ==
  ASSUME TypeOK, NEW S, S \subseteq all_entries
  PROVE  IsFiniteSet(S) /\ Cardinality(S) \in Nat
<1>1. IsFiniteSet(Pointer)
  BY MaxEntriesAssumption, FS_Interval DEF Pointer
<1>2. S \subseteq Pointer  BY DEF TypeOK
<1> QED  BY <1>1, <1>2, FS_Subset, FS_CardinalityType

\* One entry more, one entry less.
LEMMA OneMore ==
  ASSUME TypeOK, NEW S, S \subseteq all_entries, NEW e, e \notin S
  PROVE  Cardinality(S \cup {e}) = Cardinality(S) + 1
BY EntriesFinite, FS_AddElement

LEMMA OneLess ==
  ASSUME TypeOK, NEW S, S \subseteq all_entries, NEW e \in S
  PROVE  Cardinality(S \ {e}) = Cardinality(S) - 1
BY EntriesFinite, FS_RemoveElement

\* The steps of a link that has yet to be counted.
Waiting == {"add_link", "undefined"}

\* Calls outside add_link have no say in which links are pending.
LEMMA PendingKept ==
  ASSUME \A q \in Procs :
           \/ call'[q] = call[q]
           \/ call[q].step \notin Waiting /\ call'[q].step \notin Waiting
  PROVE  Pending' = Pending
BY DEF Pending, Waiting

\* A step is taken only while no call has used freed memory: then the pending
\* links are the children of the calls at add_link.
NoneUndefined == \A q \in Procs : ~At(q, "undefined")

LEMMA PendingIsHeld ==
  ASSUME IInv, NoneUndefined
  PROVE  /\ Pending \subseteq all_entries
         /\ \A e : e \in Pending <=>
              \E q \in Procs : call[q].step = "add_link" /\ call[q].child = e
<1>1. ASSUME NEW q \in Procs, call[q].step = "add_link"
      PROVE  call[q].op = "link" /\ call[q].child \in all_entries
  <2>1. CallOK(call[q]) /\ call[q] # Idle  BY <1>1 DEF IInv, Idle
  <2>2. call[q].op = "link"  BY <1>1, <2>1 DEF CallOK, InStep, StepsOf, Ops
  <2> QED  BY <1>1, <2>2, HeldChild DEF Holding
<1> QED  BY <1>1 DEF Pending, NoneUndefined, At

\* The sets that are counted depend on the shape of the entries only.
LEMMA ShapeKeepsSets ==
  ASSUME IInv, SameShape
  PROVE  /\ Files' = Files /\ Dirs' = Dirs
         /\ \A x : Children(x)' = Children(x) /\ WithIno(x)' = WithIno(x)
BY DEF IInv, TypeOK, SameShape, Files, Dirs, Children, WithIno, root

-----------------------------------------------------------------------------
(***************************************************************************)
(* Steps that change no entry.                                             *)
(***************************************************************************)
LEMMA SameStoreCounted ==
  ASSUME Counted, UNCHANGED <<store_vars, miscounted>>, Pending' = Pending
  PROVE  LinkCounts' /\ DirLinkCounts'
BY DEF Counted, LinkCounts, DirLinkCounts, store_vars, Files, Dirs, Children, WithIno

LEMMA QuietCounted ==
  ASSUME Counted, NEW p \in Procs,
         \/ FindVictim(p) \/ FindChild(p) \/ FetchFound(p) \/ FetchNothing(p)
         \/ CheckName(p) \/ GetInode(p) \/ GetInodeNoMemory(p)
  PROVE  LinkCounts' /\ DirLinkCounts'
<1>1. call \in [Procs -> Call] /\ Idle.step \notin Waiting
  BY DEF Counted, IInv, TypeOK, Idle, Waiting
<1>2. UNCHANGED <<store_vars, miscounted>> /\ call[p].step \in {"find", "fetch", "check", "get_inode"}
  BY DEF FindVictim, FindChild, FetchFound, FetchNothing, CheckName, GetInode,
         GetInodeNoMemory, At
<1>3. \A q \in Procs : q # p => call'[q] = call[q]
  BY <1>1
  DEF FindVictim, FindChild, FetchFound, FetchNothing, CheckName, GetInode,
      GetInodeNoMemory, Goto, GotoWith, Return
<1>4. call'[p].step \notin Waiting
  BY <1>1
  DEF FindVictim, FindChild, FetchFound, FetchNothing, CheckName, GetInode,
      GetInodeNoMemory, Goto, GotoWith, Return, Call, Waiting
<1>5. Pending' = Pending  BY <1>2, <1>3, <1>4, PendingKept DEF Waiting
<1> QED  BY <1>2, <1>5, SameStoreCounted

LEMMA BeginCounted ==
  ASSUME Counted, NEW p \in Procs,
         BeginCreate(p) \/ BeginLookup(p) \/ BeginRemove(p) \/ BeginLink(p)
  PROVE  LinkCounts' /\ DirLinkCounts'
<1>1. call \in [Procs -> Call] /\ Idle.step \notin Waiting
  BY DEF Counted, IInv, TypeOK, Idle, Waiting
<1>2. \A op, step, m, d, n, i, t :
        /\ NewCall(op, step, m, d, n).step = step
        /\ [NewCall(op, step, m, d, n) EXCEPT !.node = i].step = step
        /\ [NewCall(op, step, m, d, n) EXCEPT !.node = i, !.target = t].step = step
  BY DEF NewCall
<1>3. \E c : Begin(p, c) /\ c.step \in {"find", "check"}
  <2>1. CASE BeginCreate(p)  BY <1>2, <2>1 DEF BeginCreate
  <2>2. CASE BeginLookup(p)  BY <1>2, <2>2 DEF BeginLookup
  <2>3. CASE BeginRemove(p)
    <3>1. PICK m \in Mounts, e \in all_entries \ {root} :
            Begin(p, [NewCall(IF entry[e].dir THEN "rmdir" ELSE "unlink", "find",
                              m, entry[e].parent, entry[e].name)
                      EXCEPT !.node = Inode(m, e)])
      BY <2>3 DEF BeginRemove
    <3> DEFINE op == IF entry[e].dir THEN "rmdir" ELSE "unlink"
               c == [NewCall(op, "find", m, entry[e].parent, entry[e].name)
                     EXCEPT !.node = Inode(m, e)]
    <3>2. Begin(p, c) /\ c.step = "find"  BY <1>2, <3>1
    <3> QED  BY <3>2
  <2>4. CASE BeginLink(p)
    <3>1. PICK m \in Mounts, e \in Files, d \in Dirs, n \in Names :
            Begin(p, [NewCall("link", "check", m, d, n)
                      EXCEPT !.node = Inode(m, e),
                             !.target = vtfs_storage_get_by_ino(entry[e].ino)])
      BY <2>4 DEF BeginLink
    <3> DEFINE c == [NewCall("link", "check", m, d, n)
                     EXCEPT !.node = Inode(m, e),
                            !.target = vtfs_storage_get_by_ino(entry[e].ino)]
    <3>2. Begin(p, c) /\ c.step = "check"  BY <1>2, <3>1
    <3> QED  BY <3>2
  <2> QED  BY <2>1, <2>2, <2>3, <2>4
<1>4. Pending' = Pending
  BY <1>1, <1>3, PendingKept DEF Begin, Waiting, Idle
<1> QED  BY <1>3, <1>4, SameStoreCounted DEF Begin

LEMMA InsertNoMemoryCounted ==
  ASSUME Counted, NEW p \in Procs, InsertNoMemory(p)
  PROVE  LinkCounts' /\ DirLinkCounts'
<1>1. call \in [Procs -> Call] /\ Idle.step \notin Waiting
  BY DEF Counted, IInv, TypeOK, Idle, Waiting
<1>2. Pending' = Pending
  BY <1>1, PendingKept DEF InsertNoMemory, Return, At, Waiting
<1> QED
  BY <1>2
  DEF Counted, LinkCounts, DirLinkCounts, Files, Dirs, Children, WithIno,
      InsertNoMemory, InsertFails

-----------------------------------------------------------------------------
(***************************************************************************)
(* The store of vtfs_mkdir made without the lock: the directory is still   *)
(* empty, so no subdirectory's count is overwritten.                       *)
(***************************************************************************)
LEMMA InitNlinkCounted ==
  ASSUME Counted, NEW p \in Procs, InitNlink(p)
  PROVE  LinkCounts' /\ DirLinkCounts'
<1> DEFINE v == call[p].child
<1>1. /\ TypeOK /\ IInv /\ call[p].step = "init_nlink"
      /\ v \in all_entries \ {root} /\ v \in Pointer
  BY HeldChild DEF Counted, IInv, InitNlink, At, Holding
<1>2. Children(v) = {} /\ entry[v].dir
  BY <1>1 DEF IInv, CallOK, InStep, StepsOf, Ops, IsFresh, Holding, Idle
<1>3. SameShape
  BY <1>1 DEF InitNlink, SameShape, TypeOK, Entry
<1>4. /\ entry'[v].nlink = 2
      /\ \A e \in Pointer : e # v => entry'[e] = entry[e]
  BY <1>1 DEF InitNlink, TypeOK, Entry
<1>5. Pending' = Pending
  BY <1>1, PendingKept DEF InitNlink, Goto, TypeOK, Call, Waiting
<1>6. /\ Files' = Files /\ Dirs' = Dirs
      /\ \A x : Children(x)' = Children(x) /\ WithIno(x)' = WithIno(x)
  BY <1>1, <1>3, ShapeKeepsSets
<1>7. LinkCounts'
  <2>1. ASSUME NEW e \in Files \ Pending PROVE LinkCounted(e)'
    <3>1. e # v /\ e \in Pointer  BY <1>1, <1>2, <2>1 DEF Files, Dirs, TypeOK
    <3> QED
      BY <1>4, <1>5, <1>6, <3>1 DEF Counted, LinkCounts, LinkCounted, InitNlink
  <2> QED  BY <1>5, <1>6, <2>1 DEF LinkCounts, LinkCounted
<1>8. DirLinkCounts'
  <2>1. ASSUME NEW d \in Dirs PROVE DirCounted(d)'
    <3>1. CASE d = v
      <4>1. Cardinality(Children(v) \cap Dirs) = 0
        BY <1>2, FS_EmptySet
      <4> QED  BY <1>1, <1>4, <1>6, <3>1, <4>1 DEF DirCounted, Own, root
    <3>2. CASE d # v
      <4>1. entry'[d] = entry[d]  BY <1>1, <1>4, <3>2 DEF Dirs, TypeOK
      <4> QED
        BY <1>6, <4>1 DEF Counted, DirLinkCounts, DirCounted, Own, root
    <3> QED  BY <3>1, <3>2
  <2> QED  BY <1>6, <2>1 DEF DirLinkCounts, DirCounted, Own, root
<1> QED  BY <1>7, <1>8

-----------------------------------------------------------------------------
(***************************************************************************)
(* The insertion of an entry.                                              *)
(***************************************************************************)
LEMMA InsertCounted ==
  ASSUME Counted, NoneUndefined, NEW p \in Procs, Insert(p)
  PROVE  LinkCounts' /\ DirLinkCounts'
<1>1. PICK c, new, ino : Inserted(p, c, new, ino)
  BY InsertFacts DEF Counted
<1>2. /\ TypeOK /\ StoreOK /\ c = call[p] /\ c \in Call /\ c.step = "insert" /\ InStep(c)
      /\ c.op \in {"create", "mkdir", "link", "lookup"} /\ c.isdir \in BOOLEAN
      /\ new \notin all_entries /\ new # root /\ all_entries' = all_entries \cup {new}
      /\ c.parent \in Dirs /\ c.parent # new
      /\ call'[p].op = c.op
  BY <1>1 DEF Inserted, Counted, IInv, Call, Dirs, TypeOK
<1>3. \A e \in all_entries :
        /\ entry'[e].parent = entry[e].parent
        /\ entry'[e].ino = entry[e].ino /\ entry'[e].dir = entry[e].dir
        /\ entry'[e].nlink =
             entry[e].nlink + (IF e = c.parent /\ c.isdir THEN 1 ELSE 0)
        /\ entry[e].nlink \in Int
  BY <1>1 DEF Inserted, Counted, IInv, TypeOK, Entry
<1>4. /\ entry'[new].ino = ino /\ entry'[new].dir = c.isdir /\ entry'[new].nlink = 1
      /\ entry'[new].parent = c.parent
  BY <1>1 DEF Inserted
<1>5. /\ call'[p].child = new /\ call'[p].step = AfterInsert(c.op)
      /\ \A q \in Procs : q # p => call'[q] = call[q]
  BY <1>1 DEF Inserted, Call, Counted, IInv, TypeOK
<1>6. Pending' = Pending \cup (IF c.op = "link" THEN {new} ELSE {})
  BY <1>2, <1>5 DEF Pending, At, AfterInsert
<1>7. Pending \subseteq all_entries /\ miscounted' = miscounted
  BY <1>1, PendingIsHeld DEF Inserted, Counted
<1>8. /\ c.op # "link" => \A e \in all_entries : entry[e].ino # ino
      /\ c.op = "link" => \A d \in Dirs : entry[d].ino # ino
      /\ c.op = "link" => ~c.isdir
  <2>1. c.op # "link" => \A e \in all_entries : entry[e].ino \in 1000 .. ino - 1
    <3>1. c.op # "link" => ino = next_ino  BY <1>1 DEF Inserted
    <3>2. \A e \in all_entries : entry[e].ino \in 1000 .. next_ino - 1
      BY <1>1 DEF Inserted
    <3> QED  BY <3>1, <3>2
  <2>2. ino \in Nat  BY <1>1 DEF Inserted
  <2>3. c.op = "link" => Source(c) \in Files /\ ino = entry[Source(c)].ino
    BY <1>1 DEF Inserted
  <2>4. c.op # "link" => \A e \in all_entries : entry[e].ino # ino
    BY <2>1, <2>2
  <2>5. c.op = "link" => \A d \in Dirs : entry[d].ino # ino
    BY <1>2, <2>3 DEF StoreOK, InoDiscipline, Files, Dirs
  <2>6. c.op = "link" => ~c.isdir  BY <1>2 DEF InStep
  <2> QED  BY <2>4, <2>5, <2>6
<1>9. /\ Dirs' = Dirs \cup (IF c.isdir THEN {new} ELSE {})
      /\ Files' = Files \cup (IF c.isdir THEN {} ELSE {new})
  BY <1>2, <1>3, <1>4 DEF Files, Dirs
<1>10. LinkCounts'
  <2>1. ASSUME NEW e \in Files \ Pending PROVE LinkCounted(e)'
    <3>1. /\ e \in all_entries /\ e # new /\ entry'[e].nlink = entry[e].nlink
          /\ entry'[e].ino = entry[e].ino
      BY <1>2, <1>3, <2>1 DEF Files, Dirs
    <3>2. (WithIno(entry[e].ino) \ Pending)' = WithIno(entry[e].ino) \ Pending
      BY <1>2, <1>3, <1>4, <1>6, <1>7, <1>8, <3>1 DEF WithIno
    <3> QED  BY <1>7, <2>1, <3>1, <3>2 DEF Counted, LinkCounts, LinkCounted
  <2>2. ASSUME new \notin Pending' PROVE LinkCounted(new)'
    <3>1. c.op # "link"  BY <1>6, <2>2
    <3>2. (WithIno(entry[new].ino) \ Pending)' = {new}
      BY <1>2, <1>3, <1>4, <1>6, <1>7, <1>8, <3>1 DEF WithIno
    <3> QED  BY <1>4, <3>2, FS_Singleton DEF LinkCounted
  <2>3. ASSUME NEW e \in Files' \ Pending' PROVE e = new \/ e \in Files \ Pending
    BY <1>6, <1>9, <2>3
  <2> QED  BY <2>1, <2>2, <2>3 DEF LinkCounts, LinkCounted
<1>11. DirLinkCounts'
  <2>1. ASSUME NEW d \in Dirs PROVE DirCounted(d)'
    <3>1. /\ d \in all_entries /\ Own(d) \in {1, 2} /\ (d = root => Own(d) = 2)
          /\ TypeOK /\ entry[d].nlink \in Int
      BY <1>2, <1>3, <2>1 DEF Counted, DirLinkCounts, Own, Dirs
    <3> DEFINE S == Children(d) \cap Dirs
    <3>2. S \subseteq all_entries /\ new \notin S /\ Cardinality(S) \in Nat
      BY <1>2, <3>1, EntriesFinite DEF Children
    <3>3. CASE d = c.parent /\ c.isdir
      <4>1. (Children(d) \cap Dirs)' = S \cup {new}
        BY <1>2, <1>3, <1>4, <1>9, <3>3 DEF Children, root
      <4>2. Cardinality(S \cup {new}) = Cardinality(S) + 1
        BY <3>1, <3>2, OneMore
      <4>3. entry'[d].nlink = entry[d].nlink + 1  BY <1>3, <3>1, <3>3
      <4> HIDE DEF S
      <4>4. (entry[d].nlink + 1) - (Cardinality(S) + 1)
              = entry[d].nlink - Cardinality(S)
        BY <3>1, <3>2
      <4>5. Own(d) = entry[d].nlink - Cardinality(S)  BY DEF Own, S
      <4> QED
        BY <3>1, <4>1, <4>2, <4>3, <4>4, <4>5 DEF DirCounted, Own, root
    <3>4. CASE ~(d = c.parent /\ c.isdir)
      <4>1. (Children(d) \cap Dirs)' = S
        BY <1>2, <1>3, <1>4, <1>9, <3>1, <3>4 DEF Children, root, Dirs
      <4>2. entry'[d].nlink = entry[d].nlink  BY <1>3, <3>1, <3>4
      <4> QED  BY <3>1, <4>1, <4>2 DEF DirCounted, Own, root
    <3> QED  BY <3>3, <3>4
  <2>2. DirCounted(new)'
    <3>1. (Children(new) \cap Dirs)' = {}
      <4>1. \A e \in all_entries \ {root} : entry[e].parent # new
        BY <1>2 DEF StoreOK, WellFormedTree, Dirs
      <4>2. \A e \in all_entries' \ {root} : entry'[e].parent # new
        BY <1>2, <1>3, <1>4, <4>1
      <4> QED  BY <4>2 DEF Children, root
    <3>2. Own(new)' = 1
      <4>1. Cardinality((Children(new) \cap Dirs)') = 0  BY <3>1, FS_EmptySet
      <4> QED  BY <1>4, <4>1 DEF Own
    <3> QED  BY <1>2, <3>2 DEF DirCounted, root
  <2> QED  BY <1>9, <2>1, <2>2 DEF DirLinkCounts, DirCounted, Own, root
<1> QED  BY <1>10, <1>11

-----------------------------------------------------------------------------
(***************************************************************************)
(* Links that are counted, names that go.                                  *)
(***************************************************************************)

\* No two calls insert one name: the directory's lock keeps them apart.
LEMMA PendingAlone ==
  ASSUME OneMount, IInv, NEW p \in Procs, call[p].step = "add_link",
         NEW q \in Procs, q # p, call[q].step = "add_link"
  PROVE  call[q].child # call[p].child
<1>1. /\ call[p] # Idle /\ call[q] # Idle /\ CallOK(call[p]) /\ CallOK(call[q])
  BY DEF IInv, Idle
<1>2. /\ call[p].child \in Children(call[p].parent) /\ call[q].op = "link"
      /\ call[q].child \in Children(call[q].parent)
  BY <1>1, HeldChild DEF Holding, CallOK, InStep, StepsOf, Ops
<1> QED  BY <1>1, <1>2, SameDirectory DEF Children

LEMMA FinishLinkCounted ==
  ASSUME OneMount, Counted, NoneUndefined, NEW p \in Procs, FinishLink(p)
  PROVE  LinkCounts' /\ DirLinkCounts'
<1> DEFINE t == call[p].target
           v == call[p].child
           i == entry[t].ino
           S == WithIno(i) \ Pending
<1>1. /\ TypeOK /\ StoreOK /\ call[p].step = "add_link" /\ call[p] # Idle
      /\ CallOK(call[p]) /\ call[p].op = "link" /\ t \in all_entries
  BY DEF Counted, IInv, FinishLink, At, Idle, CallOK, InStep, StepsOf, Ops,
         TargetFreed, UsesTarget
<1>2. /\ t \in Files /\ v \in Files /\ v # t /\ entry[v].ino = i
      /\ v \in Pointer /\ t \in Pointer /\ v \in all_entries
  BY <1>1 DEF CallOK, HasSource, IsLinked, Files, TypeOK
<1>3. v \in Pending /\ Pending' = Pending \ {v} /\ Pending \subseteq all_entries
  <2>1. call' = [call EXCEPT ![p] = Idle] /\ Idle.step \notin Waiting
    BY DEF FinishLink, Return, Idle, Waiting
  <2>2. \A e : e \in Pending <=>
          \E q \in Procs : call[q].step = "add_link" /\ call[q].child = e
    BY PendingIsHeld DEF Counted
  <2>3. \A q \in Procs \ {p} : call[q].step = "add_link" => call[q].child # v
    BY <1>1, PendingAlone DEF Counted
  <2>4. \A q \in Procs : call'[q] = IF q = p THEN Idle ELSE call[q]
    BY <1>1, <2>1 DEF TypeOK
  <2>5. \A e : e \in Pending' <=>
          \E q \in Procs \ {p} : call[q].step = "add_link" /\ call[q].child = e
    <3>1. \A q \in Procs : call[q].step = "add_link" => call[q].op = "link"
      BY DEF Counted, IInv, Idle, CallOK, InStep, StepsOf, Ops
    <3> QED  BY <1>1, <2>1, <2>4, <3>1 DEF Pending, Waiting, NoneUndefined, At
  <2>6. \A e : e \in Pending' <=> e \in Pending /\ e # v
    BY <2>2, <2>3, <2>5
  <2> QED  BY <1>1, <2>2, <2>6, PendingIsHeld DEF Counted
<1>5. v \notin S /\ S \subseteq all_entries
  BY <1>3 DEF WithIno
<1>6. WithIno(i) \ Pending' = S \cup {v}
  BY <1>2, <1>3 DEF WithIno
<1>7. Cardinality(S \cup {v}) = Cardinality(S) + 1
  BY <1>1, <1>5, OneMore
<1>8. i \in miscounted' \/ (i \notin miscounted /\ entry[t].nlink = Cardinality(S))
  BY <1>2 DEF FinishLink, Counted, LinkCounts
<1>9. /\ all_entries' = all_entries /\ miscounted \subseteq miscounted'
      /\ entry' = [e \in Pointer |->
            IF e \in WithIno(i) THEN [entry[e] EXCEPT !.nlink = entry[t].nlink + 1]
            ELSE entry[e]]
  BY DEF FinishLink, AddLink
<1> HIDE DEF t, v, i, S
<1>10. \A e \in Pointer :
         /\ entry'[e].parent = entry[e].parent
         /\ entry'[e].ino = entry[e].ino /\ entry'[e].dir = entry[e].dir
         /\ e \in WithIno(i) => entry'[e].nlink = entry[t].nlink + 1
         /\ e \notin WithIno(i) => entry'[e].nlink = entry[e].nlink
  BY <1>1, <1>9 DEF TypeOK, Entry
<1>11. all_entries \subseteq Pointer  BY <1>1 DEF TypeOK
<1>12. /\ Files' = Files /\ Dirs' = Dirs
       /\ \A x : Children(x)' = Children(x) /\ WithIno(x)' = WithIno(x)
  BY <1>9, <1>10, <1>11 DEF Files, Dirs, Children, WithIno, root
<1>13. LinkCounts'
  <2>1. ASSUME NEW e \in Files \ Pending' PROVE LinkCounted(e)'
    <3>1. e \in all_entries /\ e \in Pointer  BY <1>11 DEF Files
    <3>2. CASE e \in WithIno(i)
      <4>1. entry'[e].ino = i /\ entry'[e].nlink = entry[t].nlink + 1
        BY <1>10, <3>1, <3>2 DEF WithIno
      <4>2. CASE i \in miscounted'  BY <4>1, <4>2 DEF LinkCounted
      <4>3. CASE i \notin miscounted'
        <5>1. entry'[e].nlink = Cardinality(S \cup {v})
          BY <1>7, <1>8, <4>1, <4>3
        <5> QED  BY <1>6, <1>12, <4>1, <5>1 DEF LinkCounted
      <4> QED  BY <4>2, <4>3
    <3>3. CASE e \notin WithIno(i)
      <4>1. entry'[e].ino = entry[e].ino /\ entry'[e].nlink = entry[e].nlink
        BY <1>10, <3>1, <3>3
      <4>2. e # v /\ v \notin WithIno(entry[e].ino)
        BY <1>2, <3>1, <3>3 DEF WithIno
      <4>3. e \notin Pending
            /\ WithIno(entry[e].ino) \ Pending' = WithIno(entry[e].ino) \ Pending
        BY <1>3, <2>1, <4>2
      <4> QED
        BY <1>9, <1>12, <2>1, <4>1, <4>3 DEF Counted, LinkCounts, LinkCounted
    <3> QED  BY <3>2, <3>3
  <2> QED  BY <1>12, <2>1 DEF LinkCounts, LinkCounted
<1>14. DirLinkCounts'
  <2>1. ASSUME NEW d \in Dirs PROVE DirCounted(d)'
    <3>1. d \in Pointer /\ d \in all_entries /\ d \notin Files
      BY <1>11 DEF Dirs, Files
    <3>2. d \notin WithIno(i)
      BY <1>1, <1>2, <3>1 DEF StoreOK, InoDiscipline, WithIno, i
    <3>3. entry'[d].nlink = entry[d].nlink  BY <1>10, <3>1, <3>2
    <3> QED
      BY <1>12, <3>3 DEF Counted, DirLinkCounts, DirCounted, Own, root
  <2> QED  BY <1>12, <2>1 DEF DirLinkCounts, DirCounted, Own, root
<1> QED  BY <1>13, <1>14

\* What a handler removes is no link that another one has yet to count.
LEMMA VictimNotPending ==
  ASSUME OneMount, IInv, NoneUndefined, NEW p \in Procs, call[p].step = "delete"
  PROVE  call[p].child \notin Pending
<1>1. SUFFICES ASSUME NEW q \in Procs, call[q].step = "add_link",
                      call[q].child = call[p].child
               PROVE  FALSE
  BY PendingIsHeld
<1>2. /\ q # p /\ call[q] # Idle /\ CallOK(call[q]) /\ call[q].child # NULL
  BY <1>1, HeldChild DEF IInv, Idle, Holding
<1>3. IsName(call[q], call[p].child)  BY <1>1, <1>2 DEF CallOK, HasChild
<1> QED  BY <1>2, <1>3, VictimApart

LEMMA DeleteCounted ==
  ASSUME OneMount, Counted, NoneUndefined, NEW p \in Procs, Delete(p)
  PROVE  LinkCounts' /\ DirLinkCounts'
<1> DEFINE v == call[p].child
           i == entry[v].ino
<1>1. /\ TypeOK /\ IInv /\ StoreOK /\ call[p].step = "delete"
      /\ v \in all_entries \ {root} /\ v \in Pointer /\ MayDelete(v)
      /\ all_entries \subseteq Pointer
  BY HeldChild
  DEF Counted, IInv, Delete, At, Holding, CallOK, ChildMayGo, Idle, TypeOK
<1>2. v \notin Pending /\ miscounted' = miscounted
  BY <1>1, VictimNotPending DEF Delete
<1>3. Pending' = Pending
  <2>1. call' = [call EXCEPT ![p] = Idle] /\ Idle.step \notin Waiting
    BY DEF Delete, Return, Idle, Waiting
  <2> QED  BY <1>1, <2>1, PendingKept DEF TypeOK, Waiting
<1> DEFINE Lost(e) == IF e \in all_entries \ {v} /\ entry[e].ino = i THEN 1 ELSE 0
           LostDir(e) == IF entry[v].dir /\ e = entry[v].parent THEN 1 ELSE 0
<1>4. /\ all_entries' = all_entries \ {v}
      /\ entry' = [e \in Pointer |->
           IF e = v THEN NotAnEntry
           ELSE [entry[e] EXCEPT !.nlink = @ - Lost(e) - LostDir(e)]]
  BY DEF Delete, DeleteEntry
<1> HIDE DEF v, i
<1>5. \A e \in all_entries \ {v} :
        /\ entry'[e].parent = entry[e].parent
        /\ entry'[e].ino = entry[e].ino /\ entry'[e].dir = entry[e].dir
        /\ entry'[e].nlink = entry[e].nlink - Lost(e) - LostDir(e)
        /\ entry[e].nlink \in Int
  <2> HIDE DEF Lost, LostDir
  <2> QED  BY <1>1, <1>4 DEF TypeOK, Entry
<1>6. /\ Files' = Files \ {v} /\ Dirs' = Dirs \ {v}
      /\ \A x : WithIno(x)' = WithIno(x) \ {v}
      /\ \A x : Children(x)' = Children(x) \ {v}
  BY <1>4, <1>5 DEF Files, Dirs, WithIno, Children, root
<1>7. LinkCounts'
  <2>1. ASSUME NEW e \in Files \ {v}, e \notin Pending, entry[e].ino \notin miscounted
        PROVE  LinkCounted(e)'
    <3>1. e \in all_entries \ {v} /\ ~entry[e].dir  BY <2>1 DEF Files, Dirs
    <3>2. LostDir(e) = 0
      <4>1. entry[v].parent \in Dirs  BY <1>1 DEF StoreOK, WellFormedTree
      <4> QED  BY <3>1, <4>1 DEF Dirs
    <3> DEFINE S == WithIno(entry[e].ino) \ Pending
    <3>3. S \subseteq all_entries /\ Cardinality(S) \in Nat
      BY <1>1, EntriesFinite DEF WithIno
    <3>4. entry[e].nlink = Cardinality(S)
      BY <2>1 DEF Counted, LinkCounts
    <3>5. (WithIno(entry[e].ino) \ Pending)' = S \ {v}
      BY <1>3, <1>5, <1>6, <3>1
    <3>6. CASE entry[e].ino = i
      <4>1. v \in S
        BY <1>1, <1>2, <3>1, <3>6 DEF WithIno, i
      <4>2. Cardinality(S \ {v}) = Cardinality(S) - 1
        BY <1>1, <3>3, <4>1, OneLess
      <4>3. Lost(e) = 1  BY <3>1, <3>6
      <4>4. entry'[e].nlink = entry[e].nlink - 1
        BY <1>5, <3>1, <3>2, <4>3
      <4> HIDE DEF S
      <4> QED  BY <1>3, <3>4, <3>5, <4>1, <4>2, <4>4 DEF LinkCounted
    <3>7. CASE entry[e].ino # i
      <4>1. S \ {v} = S  BY <3>7 DEF WithIno, i
      <4>2. Lost(e) = 0  BY <3>7
      <4>3. entry'[e].nlink = entry[e].nlink
        BY <1>5, <3>1, <3>2, <4>2
      <4> HIDE DEF S
      <4> QED  BY <1>3, <3>4, <3>5, <4>1, <4>3 DEF LinkCounted
    <3> QED  BY <3>6, <3>7
  <2>2. ASSUME NEW e \in Files \ {v}, e \notin Pending PROVE LinkCounted(e)'
    <3>1. CASE entry[e].ino \notin miscounted  BY <2>1, <2>2, <3>1
    <3>2. CASE entry[e].ino \in miscounted
      BY <1>2, <1>5, <2>2, <3>2 DEF LinkCounted, Files
    <3> QED  BY <3>1, <3>2
  <2> QED  BY <1>3, <1>6, <2>2 DEF LinkCounts, LinkCounted
<1>8. DirLinkCounts'
  <2>1. ASSUME NEW d \in Dirs \ {v} PROVE DirCounted(d)'
    <3>1. d \in all_entries \ {v} /\ entry[d].dir  BY <2>1 DEF Dirs
    <3>2. Lost(d) = 0
      BY <1>1, <3>1 DEF StoreOK, InoDiscipline, Files, Dirs, i
    <3> DEFINE S == Children(d) \cap Dirs
    <3>3. S \subseteq all_entries /\ Cardinality(S) \in Nat
      BY <1>1, EntriesFinite DEF Children
    <3>4. (entry[d].nlink - Cardinality(S)) \in {1, 2}
          /\ (d = root => entry[d].nlink - Cardinality(S) = 2)
      BY <2>1 DEF Counted, DirLinkCounts
    <3>5. (Children(d) \cap Dirs)' = S \ {v}
      BY <1>6
    <3>6. CASE entry[v].dir /\ d = entry[v].parent
      <4>1. v \in S  BY <1>1, <3>6 DEF Children, Dirs
      <4>2. Cardinality(S \ {v}) = Cardinality(S) - 1
        BY <1>1, <3>3, <4>1, OneLess
      <4>3. LostDir(d) = 1  BY <3>6
      <4>4. entry'[d].nlink = entry[d].nlink - 1 /\ entry[d].nlink \in Int
        BY <1>5, <3>1, <3>2, <4>3
      <4> HIDE DEF S
      <4>5. (entry[d].nlink - 1) - (Cardinality(S) - 1)
              = entry[d].nlink - Cardinality(S)
        BY <3>3, <4>4
      <4> QED
        BY <3>4, <3>5, <4>2, <4>4, <4>5 DEF DirCounted, Own, root
    <3>7. CASE ~(entry[v].dir /\ d = entry[v].parent)
      <4>1. S \ {v} = S  BY <3>7 DEF Children, Dirs
      <4>2. LostDir(d) = 0  BY <3>7
      <4>3. entry'[d].nlink = entry[d].nlink
        BY <1>5, <3>1, <3>2, <4>2
      <4> HIDE DEF S
      <4> QED  BY <3>4, <3>5, <4>1, <4>3 DEF DirCounted, Own, root
    <3> QED  BY <3>6, <3>7
  <2> QED  BY <1>6, <2>1 DEF DirLinkCounts, DirCounted, Own, root
<1> QED  BY <1>7, <1>8

-----------------------------------------------------------------------------
\* A link whose target has been freed stays what it was: pending, or not yet
\* inserted.
LEMMA UndefinedCounted ==
  ASSUME Counted, NEW p \in Procs, Undefined(p)
  PROVE  LinkCounts' /\ DirLinkCounts'
<1>1. /\ call' = [call EXCEPT ![p].step = "undefined"] /\ call[p].op = "link"
      /\ call[p].step \in {"check", "add_link"} /\ UNCHANGED <<store_vars, miscounted>>
      /\ call \in [Procs -> Call]
  BY DEF Undefined, TargetFreed, UsesTarget, Goto, Counted, IInv, TypeOK
<1>2. Pending' \subseteq Pending \cup {NULL} /\ Pending \subseteq Pending'
  <2>1. call[p].step = "check" => call[p].child = NULL
    BY DEF Counted, IInv, CallOK, InStep, Holding, Idle
  <2>2. /\ call'[p].op = "link" /\ call'[p].step = "undefined"
        /\ call'[p].child = call[p].child
        /\ \A q \in Procs \ {p} : call'[q] = call[q]
    BY <1>1 DEF Call
  <2> QED  BY <1>1, <2>1, <2>2 DEF Pending
<1>3. \A S : S \subseteq all_entries => S \ Pending' = S \ Pending
  <2>1. NULL \notin all_entries  BY DEF Counted, IInv, TypeOK, Pointer, NULL
  <2> QED  BY <1>2, <2>1
<1>4. Files' = Files /\ Dirs' = Dirs /\ entry' = entry /\ miscounted' = miscounted
      /\ \A x : Children(x)' = Children(x) /\ WithIno(x)' = WithIno(x)
  BY <1>1 DEF store_vars, Files, Dirs, Children, WithIno
<1>5. Files \ Pending' = Files \ Pending
      /\ \A x : WithIno(x) \ Pending' = WithIno(x) \ Pending
  BY <1>3 DEF Files, WithIno
<1>6. LinkCounts'
  BY <1>4, <1>5 DEF Counted, LinkCounts
<1>7. DirLinkCounts'
  BY <1>4 DEF Counted, DirLinkCounts
<1> QED  BY <1>6, <1>7

-----------------------------------------------------------------------------
(***************************************************************************)
(* The theorems.                                                           *)
(***************************************************************************)
LEMMA InitCounted == Init => Counted
<1> SUFFICES ASSUME Init PROVE Counted  OBVIOUS
<1>1. IInv  BY InitIInv
<1>2. /\ all_entries = {root} /\ entry[root] = Root
  BY MaxEntriesAssumption DEF Init, StoreInit, Pointer, root
<1>3. Files = {} /\ Dirs = {root} /\ Children(root) = {}
  BY <1>2 DEF Files, Dirs, Children, Root
<1>4. Cardinality(Children(root) \cap Dirs) = 0
  BY <1>3, FS_EmptySet
<1> QED
  BY <1>1, <1>2, <1>3, <1>4
  DEF Counted, LinkCounts, DirLinkCounts, Root, root

LEMMA CountedInvariance == ASSUME OneMount PROVE Spec => []Counted
<1>1. Init => Counted  BY InitCounted
<1>2. Counted /\ [Next]_vars => Counted'
  <2> SUFFICES ASSUME Counted, [Next]_vars PROVE LinkCounts' /\ DirLinkCounts'
    BY NextIInv DEF Counted
  <2>1. CASE UNCHANGED vars
    BY <2>1, SameStoreCounted DEF vars, store_vars, Pending
  <2>2. ASSUME NEW p \in Procs, Step(p), NoneUndefined
        PROVE  LinkCounts' /\ DirLinkCounts'
    BY <2>2, QuietCounted, InsertCounted, InsertNoMemoryCounted, InitNlinkCounted,
       FinishLinkCounted, DeleteCounted, UndefinedCounted
    DEF Step
  <2>3. ASSUME NEW p \in Procs,
               BeginCreate(p) \/ BeginLookup(p) \/ BeginRemove(p) \/ BeginLink(p)
        PROVE  LinkCounts' /\ DirLinkCounts'
    BY <2>3, BeginCounted
  <2> QED  BY <2>1, <2>2, <2>3 DEF Next, NoneUndefined
<1> QED  BY <1>1, <1>2, PTL DEF Spec

\* Every name of a file always has the count of the file's names that are
\* counted, whatever other names of it are linked or removed at that moment,
\* unless a link was counted from a name that was not.
THEOREM LinksCounted == ASSUME OneMount PROVE Spec => []LinkCounts
<1>1. Counted => LinkCounts  BY DEF Counted
<1> QED  BY <1>1, CountedInvariance, PTL

\* A directory always has the count of its subdirectories and one or two more:
\* the store of vtfs_mkdir that takes no lock overwrites no update.
THEOREM DirLinksCounted == ASSUME OneMount PROVE Spec => []DirLinkCounts
<1>1. Counted => DirLinkCounts  BY DEF Counted
<1> QED  BY <1>1, CountedInvariance, PTL

=============================================================================
