--------------------------- MODULE VtfsServerProofs ---------------------------
(***************************************************************************)
(* Proofs about VtfsServer, for any number of requests and any bounds: the *)
(* keys of the table for requests from anybody, its tree and the links of  *)
(* its directories for those of one mount.                                 *)
(***************************************************************************)
EXTENDS VtfsServer, FiniteSetTheorems, SequenceTheorems, WellFoundedInduction, TLAPS

-----------------------------------------------------------------------------
(***************************************************************************)
(* The inductive invariant.  A row that a transaction has loaded or will   *)
(* write is a row of the table, if that is still there, as far as path,    *)
(* number and type go; with one mount a directory's is the row itself,     *)
(* because the transaction's client holds the lock of its inode.           *)
(***************************************************************************)
Row(r) ==
  /\ r \in FileEntry /\ r.size = Len(r.data)
  /\ r.parentPath = getParentPath(r.path)
  /\ r.ino >= ROOT_INO /\ (r.path # ROOT_PATH => r.ino > ROOT_INO)
  /\ r.path = ROOT_PATH => r.dir

Held(r) == Row(r) /\ r.id <= rows /\ r.ino <= ROOT_INO + rows

SameFile(r, q) == r.path = q.path /\ r.ino = q.ino /\ r.dir = q.dir

\* A row that is in the table or was, but for its links and its bytes.
Stub(r) == Held(r) /\ \A q \in db : q.id = r.id => SameFile(r, q)

Known(r) == Stub(r) /\ (OneMount /\ r.dir => r \in db)

Fresh(r) == Row(r) /\ r.path # ROOT_PATH /\ r.ino <= ROOT_INO + rows + 1

Creating == {c \in Clients : session[c].op = "create"}

Table ==
  /\ rows \in Nat /\ rows + Cardinality(Creating) <= MaxRows
  /\ IsFiniteSet(db) /\ \A r \in db : Held(r)
  /\ \A r, q \in db : r.id = q.id => r = q
  /\ KeysDiffer
  /\ \E r \in db : r.path = ROOT_PATH

Linked(r, n) == [r EXCEPT !.nlink = @ + n]
Writes(insert, update, delete) == [insert |-> insert, update |-> update, delete |-> delete]

\* The directory a name is in, as it was loaded.
Parent(p, path) == Known(p) /\ p.dir /\ p.path = getParentPath(path)

Numbering(s) ==
  /\ s.op = "create" /\ s.step = "number" /\ s.writes = Nothing
  /\ s.path \in Paths /\ s.path # ROOT_PATH /\ s.dir \in BOOLEAN
  /\ \E p : s.loaded = {p} /\ Parent(p, s.path)

Inserting(s) ==
  /\ s.op = "create" /\ s.step = "commit" /\ s.loaded = {}
  /\ \E new, p :
       /\ Fresh(new) /\ new.path = s.path /\ Parent(p, s.path)
       /\ \/ ~new.dir /\ s.writes = Writes({new}, {}, {})
          \/ new.dir /\ new.nlink = 2 /\ s.writes = Writes({new}, {Linked(p, 1)}, {})

Victim(r, s) == Known(r) /\ r.path = s.path /\ s.path # ROOT_PATH

Deleting(s) ==
  /\ s.op = "delete" /\ s.step = "children" /\ s.writes = Nothing
  /\ \E r : s.loaded = {r} /\ Victim(r, s)

\* The last link of a directory goes: its parent is there, with one mount.
Unlinking(r, s) ==
  \/ ~OneMount /\ s.writes = Writes({}, {}, {r})
  \/ \E p : /\ Known(p) /\ p.path = getParentPath(s.path) /\ (OneMount => p.dir)
            /\ s.writes = Writes({}, {Linked(p, -1)}, {r})

Removing(s) ==
  /\ s.op = "delete" /\ s.step = "commit" /\ s.loaded = {}
  /\ \E r :
       /\ Victim(r, s) /\ (OneMount /\ r.dir => findByParentPath(r.path) = {})
       /\ \/ r.nlink # 1 /\ s.writes = Writes({}, {Linked(r, -1)}, {})
          \/ ~r.dir /\ s.writes = Writes({}, {}, {r})
          \/ r.nlink = 1 /\ r.dir /\ Unlinking(r, s)

Storing(s) ==
  /\ s.op \in {"read", "write"} /\ s.step = "commit" /\ s.loaded = {}
  /\ \E r : Known(r) /\ ~r.dir /\ s.writes = Writes({}, {r}, {})

\* It will be refused: the copy of the row has its number.
Copying(s) ==
  /\ s.op = "link" /\ s.step = "commit" /\ s.loaded = {}
  /\ \E new, r : /\ Fresh(new) /\ Known(r) /\ ~r.dir /\ new.ino = r.ino
                 /\ s.writes = Writes({new}, {r}, {})

SessionOK(s) ==
  \/ s = Idle \/ Numbering(s) \/ Inserting(s) \/ Deleting(s) \/ Removing(s)
  \/ Storing(s) \/ Copying(s)

Sessions ==
  /\ session = [c \in Clients |-> session[c]]
  /\ \A c \in Clients : SessionOK(session[c])

Keys == Table /\ Sessions

LocksApart ==
  \A c, d \in Clients : c # d => Locks(session[c]) \cap Locks(session[d]) = {}

\* The names of the directories in a directory, and its links that are left.
Subs(path) == {q.path : q \in {s \in db : s.path # ROOT_PATH /\ s.parentPath = path /\ s.dir}}
Own(r) == r.nlink - Cardinality(Subs(r.path))

Tree == TreeComplete /\ \A r \in db : r.dir => Own(r) \in {1, 2} /\ (r.path = ROOT_PATH => Own(r) = 2)

IInv == Keys /\ (OneMount => LocksApart /\ Tree)

-----------------------------------------------------------------------------
(***************************************************************************)
(* The helpers of the model.                                               *)
(***************************************************************************)

LEMMA PathType ==
  \A p \in Paths : p \in Seq(Names) /\ Len(p) \in Nat /\ Len(p) <= MaxDepth
<1> TAKE p \in Paths
<1>1. PICK m \in 0 .. MaxDepth : p \in [1 .. m -> Names]
  BY DEF Paths, SeqOf
<1>2. MaxDepth \in Nat  BY ServerAssumption
<1>3. m \in Nat /\ m <= MaxDepth  BY <1>2
<1>4. p \in Seq(Names) /\ Len(p) = m  BY <1>1, <1>3
<1> QED  BY <1>3, <1>4

\* The parent of a path is a path, another one but for the root.
LEMMA ParentType ==
  \A p \in Paths : getParentPath(p) \in Paths /\ (p # ROOT_PATH => getParentPath(p) # p)
<1> TAKE p \in Paths
<1>1. CASE p = ROOT_PATH
  BY <1>1 DEF getParentPath
<1>2. CASE p # ROOT_PATH
  <2>1. p \in Seq(Names) /\ Len(p) \in Nat /\ Len(p) <= MaxDepth  BY PathType
  <2>2. Len(p) # 0  BY <1>2, <2>1 DEF ROOT_PATH
  <2> DEFINE n == Len(p) - 1
  <2>3. n \in Nat /\ n <= MaxDepth /\ n # Len(p)
    <3>1. MaxDepth \in Nat  BY ServerAssumption
    <3> QED  BY <2>1, <2>2, <3>1
  <2>4. Front(p) \in [1 .. n -> Names] /\ Len(Front(p)) = n
    <3>1. \A i \in 1 .. n : p[i] \in Names  BY <2>1, <2>3
    <3> HIDE DEF n
    <3>2. SubSeq(p, 1, n) \in Seq(Names) /\ Len(SubSeq(p, 1, n)) = n
      <4>1. SubSeq(p, 1, n) \in Seq(Names) /\ Len(SubSeq(p, 1, n)) = (IF 1 <= n THEN n - 1 + 1 ELSE 0)
        BY <2>3, <3>1, SubSeqProperties
      <4> QED  BY <2>3, <4>1
    <3>3. Front(p) = SubSeq(p, 1, n)  BY DEF Front, n
    <3>4. \A q \in Seq(Names) : q \in [1 .. Len(q) -> Names]  OBVIOUS
    <3>5. SubSeq(p, 1, n) \in [1 .. n -> Names]  BY <3>2, <3>4, Zenon
    <3> QED  BY <3>2, <3>3, <3>5, Zenon
  <2>5. n \in 0 .. MaxDepth
    <3>1. MaxDepth \in Nat  BY ServerAssumption
    <3> QED  BY <2>3, <3>1
  <2>6. Front(p) \in Paths
    <3> HIDE DEF n
    <3> QED  BY <2>4, <2>5 DEF Paths, SeqOf
  <2>7. Front(p) # p  BY <2>3, <2>4
  <2> QED  BY <1>2, <2>6, <2>7 DEF getParentPath
<1> QED  BY <1>1, <1>2

LEMMA TextType ==
  \A t \in Texts : Len(t) \in Nat /\ Len(t) <= MaxSize /\ t \in [1 .. Len(t) -> Bytes \cup {Zero}]
<1> TAKE t \in Texts
<1>1. PICK m \in 0 .. MaxSize : t \in [1 .. m -> Bytes \cup {Zero}]
  BY DEF Texts, SeqOf
<1>2. MaxSize \in Nat  BY ServerAssumption
<1>3. m \in Nat /\ m <= MaxSize  BY <1>2
<1>4. Len(t) = m  BY <1>1, <1>3
<1> QED  BY <1>1, <1>3, <1>4

\* What a write of one byte leaves has the type of a text.
LEMMA WrittenType ==
  ASSUME NEW t \in Texts, NEW offset \in 0 .. MaxSize - 1, NEW b \in Bytes
  PROVE  Written(t, offset, <<b>>) \in Texts /\ Len(Written(t, offset, <<b>>)) \in Nat
<1> DEFINE end == offset + 1
           n == Max({end, Len(t)})
           W == Written(t, offset, <<b>>)
<1>1. MaxSize \in Nat  BY ServerAssumption
<1>2. Len(t) \in Nat /\ Len(t) <= MaxSize /\ t \in [1 .. Len(t) -> Bytes \cup {Zero}]  BY TextType
<1>3. offset \in Nat /\ end \in Nat /\ end <= MaxSize  BY <1>1
<1>4. n \in {end, Len(t)}
  <2>1. \E x \in {end, Len(t)} : \A y \in {end, Len(t)} : x >= y  BY <1>2, <1>3
  <2> QED  BY <2>1 DEF Max
<1>5. n \in Nat /\ n \in 0 .. MaxSize  BY <1>1, <1>2, <1>3, <1>4
<1>6. W = [i \in 1 .. n |->
     CASE i \in offset + 1 .. end -> <<b>>[i - offset]
       [] i \notin offset + 1 .. end /\ offset > 0 /\ i <= Len(t) -> t[i]
       [] OTHER -> Zero]
  BY DEF Written
<1>7. ASSUME NEW i \in 1 .. n PROVE W[i] \in Bytes \cup {Zero}
  <2>1. i \in Nat /\ i >= 1  BY <1>5
  <2>2. CASE i \in offset + 1 .. end
    <3>1. i - offset = 1  BY <2>1, <2>2, <1>3
    <3>2. <<b>>[i - offset] = b  BY <3>1
    <3> HIDE DEF n, W, end
    <3>3. W[i] = <<b>>[i - offset]  BY <1>6, <2>2
    <3> QED  BY <3>2, <3>3
  <2>3. CASE i \notin offset + 1 .. end /\ offset > 0 /\ i <= Len(t)
    <3>1. t[i] \in Bytes \cup {Zero}  BY <1>2, <2>1, <2>3
    <3> HIDE DEF n, W, end
    <3>3. W[i] = t[i]  BY <1>6, <2>3
    <3> QED  BY <3>1, <3>3
  <2>4. CASE ~(i \in offset + 1 .. end) /\ ~(i \notin offset + 1 .. end /\ offset > 0 /\ i <= Len(t))
    <3> HIDE DEF n, W, end
    <3>3. W[i] = Zero  BY <1>6, <2>4
    <3> QED  BY <3>3
  <2> QED  BY <2>2, <2>3, <2>4
<1> HIDE DEF n, end, W
<1>8. W \in [1 .. n -> Bytes \cup {Zero}]  BY <1>6, <1>7
<1>9. W \in Texts  BY <1>5, <1>8 DEF Texts, SeqOf
<1> QED  BY <1>9, TextType DEF W

LEMMA Least ==
  ASSUME NEW S \in SUBSET Nat, S # {}
  PROVE  \E k \in S : \A j \in S : k <= j
<1> DEFINE Less == OpToRel(<, Nat)
<1>1. IsWellFoundedOn(Less, Nat)
  BY NatLessThanWellFounded
<1>2. PICK k \in S : \A j \in S : ~(<<j, k>> \in Less)
  <2> HIDE DEF Less
  <2> QED  BY <1>1, WFMin
<1>3. ASSUME NEW j \in S PROVE k <= j
  <2>1. j \in Nat /\ k \in Nat  OBVIOUS
  <2>2. ~(j < k)  BY <1>2, <2>1 DEF OpToRel
  <2> QED  BY <2>1, <2>2
<1> QED  BY <1>3

\* The next number is above every number of the table, and close to them.
LEMMA NextNumber ==
  ASSUME Table
  PROVE  /\ getNextIno \in Nat /\ getNextIno > ROOT_INO /\ getNextIno <= ROOT_INO + rows + 1
<1> DEFINE S == {r.ino : r \in db}
           M == ROOT_INO + rows
           D == {M - x : x \in S}
<1>1. rows \in Nat /\ M \in Nat  BY DEF Table, ROOT_INO
<1>2. \A r \in db : r.ino \in Nat /\ r.ino >= ROOT_INO /\ r.ino <= M
  BY DEF Table, Held, Row, FileEntry
<1>3. S # {}  BY DEF Table
<1>4. \A x \in S : x \in Nat /\ x >= ROOT_INO /\ x <= M  BY <1>2
<1> HIDE DEF S, M
<1>5. D \subseteq Nat /\ D # {}  BY <1>1, <1>3, <1>4
<1>6. PICK k \in D : \A j \in D : k <= j
  <2> HIDE DEF D
  <2> QED  BY <1>5, Least
<1>7. PICK x \in S : k = M - x  OBVIOUS
<1>8. \A y \in S : x >= y
  <2> TAKE y \in S
  <2>1. M - x <= M - y  BY <1>6, <1>7
  <2> QED  BY <1>1, <1>4, <2>1
<1>9. Max(S) \in S  BY <1>8 DEF Max
<1>10. getNextIno = Max(S) + 1  BY DEF getNextIno, S
<1>11. Max(S) \in Nat /\ Max(S) >= ROOT_INO /\ Max(S) <= M  BY <1>4, <1>9
<1> QED  BY <1>1, <1>10, <1>11 DEF M, ROOT_INO

-----------------------------------------------------------------------------
(***************************************************************************)
(* Steps that leave the table alone.                                       *)
(***************************************************************************)

LEMMA InTable == Table => \A r \in db : Known(r)
BY DEF Table, Known, Stub, SameFile

LEMMA SameSessions ==
  UNCHANGED <<db, rows>> => \A s : SessionOK(s) => SessionOK(s)'
<1> SUFFICES ASSUME UNCHANGED <<db, rows>>, NEW s, SessionOK(s) PROVE SessionOK(s)'
  OBVIOUS
<1>1. \A r : Known(r) => Known(r)'
  BY DEF Known, Stub, Held
<1>2. \A r : Fresh(r) => Fresh(r)'
  BY DEF Fresh
<1>3. \A path : findByParentPath(path)' = findByParentPath(path)
  BY DEF findByParentPath
<1>4. \A p, path : Parent(p, path) => Parent(p, path)'
  BY <1>1 DEF Parent
<1>5. \A r, t : Victim(r, t) => Victim(r, t)'
  BY <1>1 DEF Victim
<1>6. \A r, t : Unlinking(r, t) => Unlinking(r, t)'
  BY <1>1 DEF Unlinking
<1>7. CASE s = Idle
  BY <1>7 DEF SessionOK
<1>8. CASE Numbering(s)
  <2>1. Numbering(s)'  BY <1>8, <1>4, Zenon DEF Numbering
  <2> QED  BY <2>1, Zenon DEF SessionOK
<1>9. CASE Inserting(s)
  <2>1. Inserting(s)'  BY <1>9, <1>2, <1>4, Zenon DEF Inserting
  <2> QED  BY <2>1, Zenon DEF SessionOK
<1>10. CASE Deleting(s)
  <2>1. Deleting(s)'  BY <1>10, <1>5, Zenon DEF Deleting
  <2> QED  BY <2>1, Zenon DEF SessionOK
<1>11. CASE Removing(s)
  <2>1. Removing(s)'  BY <1>11, <1>3, <1>5, <1>6, Zenon DEF Removing
  <2> QED  BY <2>1, Zenon DEF SessionOK
<1>12. CASE Storing(s)
  <2>1. Storing(s)'  BY <1>12, <1>1, Zenon DEF Storing
  <2> QED  BY <2>1, Zenon DEF SessionOK
<1>13. CASE Copying(s)
  <2>1. Copying(s)'  BY <1>13, <1>1, <1>2, Zenon DEF Copying
  <2> QED  BY <2>1, Zenon DEF SessionOK
<1> QED  BY <1>7, <1>8, <1>9, <1>10, <1>11, <1>12, <1>13, Zenon DEF SessionOK

\* One session goes on, or ends, or starts, and the table is the same.
LEMMA Stays ==
  ASSUME IInv, NEW c \in Clients, NEW s, SessionOK(s),
         UNCHANGED <<db, rows>>, session' = [session EXCEPT ![c] = s],
         OneMount => \A d \in Clients : d # c => Locks(s) \cap Locks(session[d]) = {},
         rows + Cardinality(Creating') <= MaxRows
  PROVE  IInv'
<1>1. session'[c] = s /\ \A d \in Clients : d # c => session'[d] = session[d]
  BY DEF IInv, Keys, Sessions
<1>2. Sessions'
  <2>1. session' = [d \in Clients |-> session'[d]]
    BY DEF IInv, Keys, Sessions
  <2>2. \A d \in Clients : SessionOK(session'[d])
    BY <1>1 DEF IInv, Keys, Sessions
  <2>3. ASSUME NEW d \in Clients PROVE SessionOK(session[d])'
    <3>1. PICK t : t = session'[d]  OBVIOUS
    <3>2. SessionOK(t)  BY <2>2, <3>1
    <3>3. SessionOK(t)'  BY <3>2, SameSessions, Zenon
    <3> QED  BY <3>1, <3>3
  <2> QED  BY <2>1, <2>3 DEF Sessions
<1>3. Table'
  <2>1. \A r : Held(r) => Held(r)'  BY DEF Held
  <2>2. KeysDiffer'  BY DEF KeysDiffer, IInv, Keys, Table
  <2>3. rows' \in Nat /\ rows' + Cardinality(Creating)' <= MaxRows  BY DEF IInv, Keys, Table
  <2>4. (\A r \in db : Held(r))'  BY <2>1 DEF IInv, Keys, Table
  <2> QED  BY <2>2, <2>3, <2>4 DEF IInv, Keys, Table
<1>4. ASSUME OneMount PROVE LocksApart' /\ Tree'
  <2>1. Tree'
    <3>1. TreeComplete'  BY <1>4 DEF IInv, Tree, TreeComplete
    <3>2. \A r : Own(r)' = Own(r)  BY DEF Own, Subs
    <3> QED  BY <1>4, <3>1, <3>2 DEF IInv, Tree
  <2>2. ASSUME NEW d \in Clients, NEW e \in Clients, d # e
        PROVE  Locks(session'[d]) \cap Locks(session'[e]) = {}
    <3>1. Locks(session[d]) \cap Locks(session[e]) = {}  BY <1>4, <2>2 DEF IInv, LocksApart
    <3>2. Locks(s) \cap Locks(session[d]) = {} \/ d = c  BY <1>4
    <3>3. Locks(s) \cap Locks(session[e]) = {} \/ e = c  BY <1>4
    <3>4. CASE d = c  BY <1>1, <2>2, <3>3, <3>4
    <3>5. CASE e = c  BY <1>1, <2>2, <3>2, <3>5
    <3>6. CASE d # c /\ e # c  BY <1>1, <3>1, <3>6
    <3> QED  BY <3>4, <3>5, <3>6
  <2>3. \A t : Locks(t)' = Locks(t)  BY DEF Locks
  <2>4. LocksApart'  BY <2>2 DEF LocksApart, Locks
  <2> QED  BY <2>1, <2>4
<1> QED  BY <1>2, <1>3, <1>4 DEF IInv, Keys

LEMMA CreatingFinite ==
  IsFiniteSet(Creating) /\ Cardinality(Creating) \in Nat
<1>1. IsFiniteSet(Clients) /\ Creating \subseteq Clients  BY ServerAssumption DEF Creating
<1>2. IsFiniteSet(Creating)  BY <1>1, FS_Subset
<1> QED  BY <1>2, FS_CardinalityType

\* No more requests create than before when one goes on or ends.
LEMMA NoMoreCreating ==
  ASSUME Keys, NEW c \in Clients, NEW s, session' = [session EXCEPT ![c] = s],
         s.op = "create" => session[c].op = "create"
  PROVE  rows + Cardinality(Creating') <= MaxRows
<1>1. Creating' \subseteq Creating
  BY DEF Keys, Sessions, Creating
<1>2. PICK S : S = Creating'  OBVIOUS
<1>3. Cardinality(S) <= Cardinality(Creating) /\ IsFiniteSet(S)
  <2>1. S \in SUBSET Creating  BY <1>1, <1>2
  <2> QED  BY <2>1, CreatingFinite, FS_Subset
<1>4. Cardinality(S) \in Nat  BY <1>3, FS_CardinalityType
<1> QED  BY <1>2, <1>3, <1>4, CreatingFinite, ServerAssumption DEF Keys, Table

LEMMA IdleSession == SessionOK(Idle) /\ Locks(Idle) = {}
BY DEF SessionOK, Locks, Idle

\* What is idle is Idle.
LEMMA AtIdle == ASSUME NEW s, SessionOK(s), s.step = "idle" PROVE s = Idle
BY DEF SessionOK, Numbering, Inserting, Deleting, Removing, Storing, Copying

LEMMA AtNumber == ASSUME NEW s, SessionOK(s), s.step = "number" PROVE Numbering(s)
BY DEF SessionOK, Idle, Numbering, Inserting, Deleting, Removing, Storing, Copying

LEMMA AtChildren == ASSUME NEW s, SessionOK(s), s.step = "children" PROVE Deleting(s)
BY DEF SessionOK, Idle, Numbering, Inserting, Deleting, Removing, Storing, Copying

LEMMA AtCommit ==
  ASSUME NEW s, SessionOK(s), s.step = "commit"
  PROVE  Inserting(s) \/ Removing(s) \/ Storing(s) \/ Copying(s)
<1>1. s # Idle  BY DEF Idle
<1>2. ~Numbering(s)  BY DEF Numbering
<1>3. ~Deleting(s)  BY DEF Deleting
<1> QED  BY <1>1, <1>2, <1>3, Zenon DEF SessionOK

\* A request that is refused, or answered without a change.
LEMMA RefuseKeeps == ASSUME IInv, NEW c \in Clients, Refuse(c) PROVE IInv'
<1>1. session' = [session EXCEPT ![c] = Idle] /\ UNCHANGED <<db, rows>>
  BY DEF Refuse, Respond
<1>2. Idle.op # "create"  BY DEF Idle
<1>3. rows + Cardinality(Creating') <= MaxRows
  BY <1>1, <1>2, NoMoreCreating DEF IInv
<1> QED  BY <1>1, <1>3, IdleSession, Stays

LEMMA SaveKeeps ==
  ASSUME IInv, NEW c \in Clients, NEW w, Save(c, w),
         session[c].op \in {"create", "delete"},
         SessionOK(Saving(session[c].op, session[c].path, w))
  PROVE  IInv'
<1> DEFINE s == session[c]
<1>1. PICK t : t = Saving(s.op, s.path, w)  OBVIOUS
<1>2. session' = [session EXCEPT ![c] = t] /\ UNCHANGED <<db, rows>>
  BY <1>1 DEF Save, IInv, Keys, Sessions
<1>3. t.op = s.op /\ t.path = s.path  BY <1>1 DEF Saving, Idle
<1>4. rows + Cardinality(Creating') <= MaxRows
  BY <1>2, <1>3, NoMoreCreating DEF IInv
<1>5. Locks(t) = Locks(s)  BY <1>3 DEF Locks
<1>6. OneMount => \A d \in Clients : d # c => Locks(t) \cap Locks(session[d]) = {}
  BY <1>5 DEF IInv, LocksApart
<1> QED  BY <1>1, <1>2, <1>4, <1>6, Stays

\* A request has started that creates nothing.
LEMMA RequestKeeps ==
  ASSUME IInv, NEW c \in Clients, NEW s, Request(c, s), SessionOK(s), s.op # "create"
  PROVE  IInv'
<1>1. session' = [session EXCEPT ![c] = s] /\ UNCHANGED <<db, rows>>
  BY DEF Request
<1>2. rows + Cardinality(Creating') <= MaxRows
  BY <1>1, NoMoreCreating DEF IInv
<1>3. OneMount => \A d \in Clients : d # c => Locks(s) \cap Locks(session[d]) = {}
  BY DEF Request
<1> QED  BY <1>1, <1>2, <1>3, Stays

-----------------------------------------------------------------------------
(***************************************************************************)
(* The steps of a request before it commits.                               *)
(***************************************************************************)

LEMMA CreateKeeps == ASSUME IInv, NEW c \in Clients, Create(c) PROVE IInv'
<1>1. PICK path \in Paths, dir \in BOOLEAN, parent \in db :
        /\ ~existsByPath(path)
        /\ parent.path = getParentPath(path) /\ parent.dir
        /\ Request(c, [Idle EXCEPT !.op = "create", !.step = "number", !.path = path,
                                   !.dir = dir, !.loaded = {parent}])
  BY DEF Create
<1>2. rows + Cardinality(Creating) < MaxRows
  BY DEF Create, Creating
<1>3. PICK s : s = [Idle EXCEPT !.op = "create", !.step = "number", !.path = path,
                                !.dir = dir, !.loaded = {parent}]
  OBVIOUS
<1>4. path # ROOT_PATH
  BY <1>1 DEF IInv, Keys, Table, existsByPath, findByPath
<1>5. Known(parent)  BY InTable DEF IInv, Keys
<1>6. Numbering(s)
  <2>1. s.op = "create" /\ s.step = "number" /\ s.writes = Nothing /\ s.path = path
        /\ s.dir = dir /\ s.loaded = {parent}
    BY <1>3 DEF Idle
  <2> QED  BY <1>1, <1>4, <1>5, <2>1 DEF Numbering, Parent
<1>7. SessionOK(s)  BY <1>6, Zenon DEF SessionOK
<1>8. /\ session' = [session EXCEPT ![c] = s] /\ UNCHANGED <<db, rows>>
      /\ OneMount => \A d \in Clients : d # c => Locks(s) \cap Locks(session[d]) = {}
  BY <1>1, <1>3 DEF Request
<1>9. rows + Cardinality(Creating') <= MaxRows
  <2>1. Creating' \subseteq Creating \cup {c}
    BY <1>8 DEF IInv, Keys, Sessions, Creating
  <2>2. PICK S : S = Creating'  OBVIOUS
  <2>3. PICK T : T = Creating \cup {c}  OBVIOUS
  <2>4. IsFiniteSet(T) /\ Cardinality(T) <= Cardinality(Creating) + 1 /\ Cardinality(T) \in Nat
    <3>1. IsFiniteSet(T)
          /\ Cardinality(T) = IF c \in Creating THEN Cardinality(Creating) ELSE Cardinality(Creating) + 1
      BY <2>3, CreatingFinite, FS_AddElement
    <3> QED  BY <3>1, CreatingFinite
  <2>5. S \in SUBSET T  BY <2>1, <2>2, <2>3
  <2>6. Cardinality(S) <= Cardinality(T) /\ IsFiniteSet(S)  BY <2>4, <2>5, FS_Subset
  <2>7. Cardinality(S) \in Nat  BY <2>6, FS_CardinalityType
  <2>8. rows \in Nat /\ MaxRows \in Nat  BY ServerAssumption DEF IInv, Keys, Table
  <2>9. rows + Cardinality(S) <= MaxRows
    BY <1>2, <2>4, <2>6, <2>7, <2>8, CreatingFinite
  <2> QED  BY <2>2, <2>9
<1> QED  BY <1>7, <1>8, <1>9, Stays

LEMMA TypedRow ==
  \A r : Row(r) => /\ r.id \in Nat /\ r.path \in Paths /\ r.ino \in Nat /\ r.dir \in BOOLEAN
                   /\ r.nlink \in Int /\ r.size \in Nat /\ r.data \in Texts /\ r.parentPath \in Paths
BY DEF Row, FileEntry

\* A row with other links is a row still, known if it is not a directory.
LEMMA LinkedRow ==
  ASSUME NEW r, Row(r), NEW n \in Int
  PROVE  /\ Row(Linked(r, n)) /\ SameFile(Linked(r, n), r) /\ Linked(r, n).id = r.id
         /\ Linked(r, n).nlink = r.nlink + n
         /\ Stub(r) => Stub(Linked(r, n))
         /\ Known(r) /\ ~r.dir => Known(Linked(r, n))
<1> DEFINE u == Linked(r, n)
<1>1. /\ u.id = r.id /\ u.path = r.path /\ u.ino = r.ino /\ u.dir = r.dir /\ u.nlink = r.nlink + n
      /\ u.size = r.size /\ u.data = r.data /\ u.parentPath = r.parentPath /\ u \in FileEntry
  BY DEF Linked, Row, FileEntry
<1> HIDE DEF u
<1>2. Row(u)  BY <1>1 DEF Row
<1>3. SameFile(u, r)  BY <1>1 DEF SameFile
<1>4. Stub(r) => Stub(u)  BY <1>1, <1>2 DEF Stub, Held, SameFile
<1>5. Known(r) /\ ~r.dir => Known(u)  BY <1>1, <1>4 DEF Known
<1> QED  BY <1>1, <1>2, <1>3, <1>4, <1>5 DEF u

\* A row with other bytes.
LEMMA StoredRow ==
  ASSUME NEW r, Known(r), ~r.dir, NEW t \in Texts, Len(t) \in Nat
  PROVE  Known(Stored(r, t)) /\ Stored(r, t).dir = r.dir
<1> DEFINE u == Stored(r, t)
<1>1. /\ u.id = r.id /\ u.path = r.path /\ u.ino = r.ino /\ u.dir = r.dir
      /\ u.size = Len(t) /\ u.data = t /\ u.parentPath = r.parentPath /\ u \in FileEntry
  BY DEF Stored, Known, Stub, Held, Row, FileEntry
<1> HIDE DEF u
<1>2. Row(u)  BY <1>1 DEF Row, Known, Stub, Held
<1> QED  BY <1>1, <1>2 DEF Known, Stub, Held, SameFile, u

LEMMA WritesTwo ==
  \A new, u : [Nothing EXCEPT !.insert = new, !.update = u] = Writes(new, u, {})
<1> TAKE new, u
<1>1. PICK n : n = Nothing  OBVIOUS
<1>2. n = [insert |-> {}, update |-> {}, delete |-> {}]  BY <1>1 DEF Nothing
<1>3. PICK m : m = [n EXCEPT !.insert = new]  OBVIOUS
<1>4. m = [insert |-> new, update |-> {}, delete |-> {}]  BY <1>2, <1>3
<1>5. [n EXCEPT !.insert = new, !.update = u] = [m EXCEPT !.update = u]  BY <1>3
<1>6. [m EXCEPT !.update = u] = [insert |-> new, update |-> u, delete |-> {}]  BY <1>4
<1> QED  BY <1>1, <1>5, <1>6 DEF Writes

LEMMA CopyType ==
  ASSUME NEW old \in FileEntry, NEW to \in Paths, NEW q \in Paths
  PROVE  [old EXCEPT !.path = to, !.nlink = @ + 1, !.parentPath = q] \in FileEntry
<1>1. PICK m : m = [old EXCEPT !.path = to]  OBVIOUS
<1>2. m \in FileEntry /\ m.nlink \in Int  BY <1>1 DEF FileEntry
<1>3. PICK n : n = [m EXCEPT !.nlink = @ + 1]  OBVIOUS
<1>4. n \in FileEntry  BY <1>2, <1>3 DEF FileEntry
<1>5. [n EXCEPT !.parentPath = q] \in FileEntry  BY <1>4 DEF FileEntry
<1> QED  BY <1>1, <1>3, <1>5

LEMMA CreateNumberKeeps == ASSUME IInv, NEW c \in Clients, CreateNumber(c) PROVE IInv'
<1>1. PICK s : s = session[c]  OBVIOUS
<1>2. Numbering(s)
  BY <1>1, AtNumber DEF IInv, Keys, Sessions, CreateNumber, At
<1>3. PICK p : s.loaded = {p} /\ Parent(p, s.path)
  BY <1>2 DEF Numbering
<1>4. PICK new : new = [id |-> 0, path |-> s.path, ino |-> getNextIno, dir |-> s.dir,
              nlink |-> IF s.dir THEN 2 ELSE 1, size |-> 0, data |-> <<>>,
              parentPath |-> getParentPath(s.path)]
  OBVIOUS
<1>5. PICK w : w = [Nothing EXCEPT
           !.insert = {new},
           !.update = IF s.dir THEN {[r EXCEPT !.nlink = @ + 1] : r \in s.loaded} ELSE {}]
  OBVIOUS
<1>6. Save(c, w)
  BY <1>1, <1>4, <1>5 DEF CreateNumber
<1>7. Fresh(new)
  <2>1. getNextIno \in Nat /\ getNextIno > ROOT_INO /\ getNextIno <= ROOT_INO + rows + 1
    BY NextNumber DEF IInv, Keys
  <2>2. s.path \in Paths /\ s.path # ROOT_PATH /\ s.dir \in BOOLEAN  BY <1>2 DEF Numbering
  <2>3. getParentPath(s.path) \in Paths  BY <2>2, ParentType
  <2>4. <<>> \in Texts
    <3>1. 0 \in 0 .. MaxSize  BY ServerAssumption
    <3>2. <<>> \in [1 .. 0 -> Bytes \cup {Zero}]  OBVIOUS
    <3> QED  BY <3>1, <3>2 DEF Texts, SeqOf
  <2> HIDE DEF getNextIno
  <2>5. new \in FileEntry  BY <1>4, <2>1, <2>2, <2>3, <2>4 DEF FileEntry
  <2>6. /\ new.size = Len(new.data) /\ new.parentPath = getParentPath(new.path)
        /\ new.ino = getNextIno /\ new.path = s.path
    BY <1>4
  <2>7. ROOT_INO \in Nat  BY DEF ROOT_INO
  <2> QED  BY <2>1, <2>2, <2>5, <2>6, <2>7 DEF Fresh, Row
<1>8. PICK t : t = Saving(s.op, s.path, w)  OBVIOUS
<1>9. t.op = s.op /\ t.step = "commit" /\ t.path = s.path /\ t.loaded = {} /\ t.writes = w
  BY <1>8 DEF Saving, Idle
<1>10. new.dir = s.dir /\ new.path = s.path /\ (s.dir => new.nlink = 2)  BY <1>4
<1>11. w = IF s.dir THEN Writes({new}, {Linked(p, 1)}, {}) ELSE Writes({new}, {}, {})
  <2>1. {[r EXCEPT !.nlink = @ + 1] : r \in s.loaded} = {Linked(p, 1)}  BY <1>3 DEF Linked
  <2>2. CASE s.dir
    <3>1. w = [Nothing EXCEPT !.insert = {new}, !.update = {Linked(p, 1)}]  BY <1>5, <2>1, <2>2
    <3> QED  BY <2>2, <3>1, WritesTwo
  <2>3. CASE ~s.dir
    <3>1. w = [Nothing EXCEPT !.insert = {new}, !.update = {}]  BY <1>5, <2>3
    <3> QED  BY <2>3, <3>1, WritesTwo
  <2> QED  BY <2>2, <2>3
<1>12. Inserting(t)
  <2>1. s.op = "create"  BY <1>2 DEF Numbering
  <2>2. Parent(p, t.path) /\ new.path = t.path  BY <1>3, <1>9, <1>10
  <2>3. \/ ~new.dir /\ t.writes = Writes({new}, {}, {})
        \/ new.dir /\ new.nlink = 2 /\ t.writes = Writes({new}, {Linked(p, 1)}, {})
    BY <1>9, <1>10, <1>11, Zenon
  <2> QED  BY <1>7, <1>9, <2>1, <2>2, <2>3, Zenon DEF Inserting
<1>13. SessionOK(t)  BY <1>12, Zenon DEF SessionOK
<1>14. s.op = "create"  BY <1>2 DEF Numbering
<1> QED  BY <1>1, <1>6, <1>8, <1>13, <1>14, SaveKeeps

LEMMA DeleteKeeps == ASSUME IInv, NEW c \in Clients, Delete(c) PROVE IInv'
<1>1. PICK r \in db :
        /\ r.path # ROOT_PATH
        /\ Request(c, [Idle EXCEPT !.op = "delete", !.step = "children",
                                   !.path = r.path, !.loaded = {r}])
  BY DEF Delete
<1>2. PICK s : s = [Idle EXCEPT !.op = "delete", !.step = "children",
                                !.path = r.path, !.loaded = {r}]
  OBVIOUS
<1>3. s.op = "delete" /\ s.step = "children" /\ s.writes = Nothing /\ s.loaded = {r} /\ s.path = r.path
  BY <1>2 DEF Idle
<1>4. Known(r)  BY InTable DEF IInv, Keys
<1>5. Deleting(s)  BY <1>1, <1>3, <1>4 DEF Deleting, Victim
<1>6. SessionOK(s)  BY <1>5, Zenon DEF SessionOK
<1> QED  BY <1>1, <1>2, <1>3, <1>6, RequestKeeps

LEMMA DeleteChildrenKeeps == ASSUME IInv, NEW c \in Clients, DeleteChildren(c) PROVE IInv'
<1>1. PICK s : s = session[c]  OBVIOUS
<1>2. Deleting(s)
  BY <1>1, AtChildren DEF IInv, Keys, Sessions, DeleteChildren, At
<1>3. PICK r : s.loaded = {r} /\ Victim(r, s)
  BY <1>2 DEF Deleting
<1>4. IF r.dir /\ findByParentPath(r.path) # {} THEN Refuse(c) ELSE Save(c, Unlinked(r))
  BY <1>1, <1>3 DEF DeleteChildren
<1>5. CASE r.dir /\ findByParentPath(r.path) # {}
  BY <1>4, <1>5, RefuseKeeps
<1>6. CASE ~(r.dir /\ findByParentPath(r.path) # {})
  <2>1. PICK w : w = Unlinked(r)  OBVIOUS
  <2>2. Save(c, w)  BY <1>4, <1>6, <2>1
  <2>3. PICK t : t = Saving(s.op, s.path, w)  OBVIOUS
  <2>4. t.op = s.op /\ t.step = "commit" /\ t.path = s.path /\ t.loaded = {} /\ t.writes = w
    BY <2>3 DEF Saving, Idle
  <2>5. s.op = "delete"  BY <1>2 DEF Deleting
  <2>6. Victim(r, t)  BY <1>3, <2>4 DEF Victim
  <2>7. OneMount /\ r.dir => findByParentPath(r.path) = {}  BY <1>6
  <2>8. \/ r.nlink # 1 /\ t.writes = Writes({}, {Linked(r, -1)}, {})
        \/ ~r.dir /\ t.writes = Writes({}, {}, {r})
        \/ r.nlink = 1 /\ r.dir /\ Unlinking(r, t)
    <3>0. Known(r) /\ r.path = s.path /\ s.path # ROOT_PATH  BY <1>3 DEF Victim
    <3>1. CASE r.nlink # 1
      <4>1. r.nlink \in Int  BY <3>0, TypedRow DEF Known, Stub, Held
      <4>2. [r EXCEPT !.nlink = @ - 1] = Linked(r, -1)  BY <4>1, <3>0 DEF Linked, Known, Stub, Held, Row, FileEntry
      <4>3. w = Writes({}, {Linked(r, -1)}, {})
        BY <2>1, <3>1, <4>2 DEF Unlinked, Writes, Nothing
      <4> QED  BY <2>4, <3>1, <4>3
    <3>2. CASE r.nlink = 1 /\ ~r.dir
      <4>1. w = Writes({}, {}, {r})
        BY <2>1, <3>2 DEF Unlinked, Writes, Nothing
      <4> QED  BY <2>4, <3>2, <4>1
    <3>3. CASE r.nlink = 1 /\ r.dir
      <4>1. r.parentPath = getParentPath(s.path)  BY <3>0 DEF Known, Stub, Held, Row
      <4>2. PICK Q : Q = findByPath(getParentPath(s.path))  OBVIOUS
      <4>3. w = Writes({}, {[q EXCEPT !.nlink = @ - 1] : q \in Q}, {r})
        BY <2>1, <3>3, <4>1, <4>2 DEF Unlinked, Writes, Nothing
      <4>4. \A q \in Q : q \in db /\ q.path = getParentPath(s.path) /\ Known(q)
        BY <4>2, InTable DEF findByPath, IInv, Keys
      <4>5. \A p, q \in Q : p = q
        BY <4>4 DEF IInv, Keys, Table, KeysDiffer
      <4>6. CASE Q = {}
        <5>1. ~OneMount
          <6> SUFFICES ASSUME OneMount PROVE FALSE  OBVIOUS
          <6>1. r \in db  BY <3>0, <3>3 DEF Known
          <6>2. PICK q \in db : q.path = getParentPath(r.path)
            BY <6>1 DEF IInv, Tree, TreeComplete
          <6> QED  BY <4>2, <4>6, <6>2, <3>0 DEF findByPath
        <5>2. w = Writes({}, {}, {r})  BY <4>3, <4>6
        <5> QED  BY <2>4, <3>3, <5>1, <5>2 DEF Unlinking
      <4>7. CASE Q # {}
        <5>1. PICK p \in Q : Q = {p}  BY <4>5, <4>7
        <5>2. p.nlink \in Int /\ p \in FileEntry  BY <4>4, TypedRow DEF Known, Stub, Held, Row
        <5>3. [p EXCEPT !.nlink = @ - 1] = Linked(p, -1)  BY <5>2 DEF Linked, FileEntry
        <5>4. w = Writes({}, {Linked(p, -1)}, {r})  BY <4>3, <5>1, <5>3
        <5>5. OneMount => p.dir
          <6> SUFFICES ASSUME OneMount PROVE p.dir  OBVIOUS
          <6>1. r \in db  BY <3>0, <3>3 DEF Known
          <6>2. PICK q \in db : q.path = getParentPath(r.path) /\ q.dir
            BY <6>1 DEF IInv, Tree, TreeComplete
          <6>3. q = p  BY <3>0, <4>4, <6>2 DEF IInv, Keys, Table, KeysDiffer
          <6> QED  BY <6>2, <6>3
        <5>6. Known(p) /\ p.path = getParentPath(t.path)  BY <4>4, <2>4
        <5> QED  BY <2>4, <3>3, <5>4, <5>5, <5>6 DEF Unlinking
      <4> QED  BY <4>6, <4>7
    <3> QED  BY <3>1, <3>2, <3>3
  <2>9. Removing(t)  BY <2>4, <2>5, <2>6, <2>7, <2>8, Zenon DEF Removing
  <2>10. SessionOK(t)  BY <2>9, Zenon DEF SessionOK
  <2> QED  BY <1>1, <2>2, <2>3, <2>5, <2>10, SaveKeeps
<1> QED  BY <1>5, <1>6

\* A request that has only to commit: a read or a write, and a link.
LEMMA StoreStarts ==
  ASSUME IInv, NEW c \in Clients, NEW op \in {"read", "write"}, NEW path, NEW u, Known(u), ~u.dir,
         Request(c, Saving(op, path, [Nothing EXCEPT !.update = {u}]))
  PROVE  IInv'
<1>1. PICK s : s = Saving(op, path, [Nothing EXCEPT !.update = {u}])  OBVIOUS
<1>2. s.op = op /\ s.step = "commit" /\ s.loaded = {} /\ s.writes = Writes({}, {u}, {})
  BY <1>1 DEF Saving, Idle, Nothing, Writes
<1>3. Storing(s)  BY <1>2 DEF Storing
<1>4. SessionOK(s)  BY <1>3, Zenon DEF SessionOK
<1>5. s.op # "create"  BY <1>2
<1> QED  BY <1>1, <1>4, <1>5, RequestKeeps

LEMMA ReadKeeps == ASSUME IInv, NEW c \in Clients, Read(c) PROVE IInv'
<1>1. PICK r \in Files :
        Request(c, Saving("read", r.path, [Nothing EXCEPT !.update = {r}]))
  BY DEF Read
<1>2. Known(r) /\ ~r.dir  BY InTable DEF IInv, Keys, Files
<1> QED  BY <1>1, <1>2, StoreStarts

LEMMA WriteKeeps == ASSUME IInv, NEW c \in Clients, Write(c) PROVE IInv'
<1>1. PICK r \in Files, offset \in 0 .. MaxSize - 1, b \in Bytes :
        Request(c, Saving("write", r.path,
          [Nothing EXCEPT !.update = {Stored(r, Written(r.data, offset, <<b>>))}]))
  BY DEF Write
<1>2. Known(r) /\ ~r.dir  BY InTable DEF IInv, Keys, Files
<1>3. PICK t : t = Written(r.data, offset, <<b>>)  OBVIOUS
<1>4. r.data \in Texts  BY <1>2, TypedRow DEF Known, Stub, Held
<1>5. t \in Texts /\ Len(t) \in Nat  BY <1>3, <1>4, WrittenType
<1>6. PICK u : u = Stored(r, t)  OBVIOUS
<1>7. Known(u) /\ u.dir = r.dir  BY <1>2, <1>5, <1>6, StoredRow
<1>8. Request(c, Saving("write", r.path, [Nothing EXCEPT !.update = {u}]))
  BY <1>1, <1>3, <1>6
<1> QED  BY <1>2, <1>7, <1>8, StoreStarts

LEMMA LinkKeeps == ASSUME IInv, NEW c \in Clients, Link(c) PROVE IInv'
<1>1. PICK old \in Files, to \in Paths :
        /\ ~existsByPath(to)
        /\ LET new == [old EXCEPT !.path = to, !.nlink = @ + 1,
                                  !.parentPath = getParentPath(to)]
               w == [Nothing EXCEPT !.insert = {new},
                                    !.update = {[old EXCEPT !.nlink = @ + 1]}]
           IN  Request(c, [Saving("link", old.path, w) EXCEPT !.to = to])
  BY DEF Link
<1>2. Known(old) /\ ~old.dir  BY InTable DEF IInv, Keys, Files
<1>3. PICK new : new = [old EXCEPT !.path = to, !.nlink = @ + 1, !.parentPath = getParentPath(to)]
  OBVIOUS
<1>4. PICK w : w = Writes({new}, {Linked(old, 1)}, {})  OBVIOUS
<1>5. PICK s : s = [Saving("link", old.path, w) EXCEPT !.to = to]  OBVIOUS
<1>6. Request(c, s)
  <2>1. w = [Nothing EXCEPT !.insert = {new}, !.update = {[old EXCEPT !.nlink = @ + 1]}]
    <3>1. PICK u : u = [old EXCEPT !.nlink = @ + 1]  OBVIOUS
    <3>2. Linked(old, 1) = u  BY <3>1 DEF Linked
    <3>3. w = [Nothing EXCEPT !.insert = {new}, !.update = {u}]  BY <1>4, <3>2, WritesTwo
    <3> QED  BY <3>1, <3>3, Zenon
  <2> QED  BY <1>1, <1>3, <1>5, <2>1, Zenon
<1>7. s.op = "link" /\ s.step = "commit" /\ s.loaded = {} /\ s.writes = w
  BY <1>5 DEF Saving, Idle
<1>8. to # ROOT_PATH
  BY <1>1 DEF IInv, Keys, Table, existsByPath, findByPath
<1>9. Held(old) /\ old \in FileEntry /\ old.size = Len(old.data)
      /\ old.ino > ROOT_INO /\ old.ino >= ROOT_INO
  BY <1>2 DEF Known, Stub, Held, Row
<1>10. Fresh(new)
  <2>1. getParentPath(to) \in Paths  BY ParentType
  <2>2. /\ new.size = old.size /\ new.data = old.data /\ new.ino = old.ino /\ new.path = to
        /\ new.parentPath = getParentPath(to) /\ new \in FileEntry
    <3>1. PICK q \in Paths : q = getParentPath(to)  BY <2>1
    <3>2. new = [old EXCEPT !.path = to, !.nlink = @ + 1, !.parentPath = q]  BY <1>3, <3>1, Zenon
    <3>3. old \in FileEntry  BY <1>9
    <3>4. new \in FileEntry  BY <3>2, <3>3, CopyType
    <3>5. new.size = old.size /\ new.data = old.data /\ new.ino = old.ino /\ new.path = to /\ new.parentPath = q
      BY <3>2, <3>3 DEF FileEntry
    <3> QED  BY <3>1, <3>4, <3>5
  <2>3. rows \in Nat /\ old.ino \in Nat /\ old.ino <= ROOT_INO + rows
    BY <1>9 DEF FileEntry, Held, IInv, Keys, Table
  <2>4. new.ino <= ROOT_INO + rows + 1  BY <2>2, <2>3 DEF ROOT_INO
  <2> QED  BY <1>8, <1>9, <2>2, <2>4 DEF Fresh, Row
<1>11. new.ino = old.ino  BY <1>3, <1>9 DEF FileEntry
<1>12. Known(Linked(old, 1)) /\ SameFile(Linked(old, 1), old)
  <2>1. Row(old)  BY <1>2 DEF Known, Stub, Held
  <2> QED  BY <1>2, <2>1, LinkedRow
<1>13. Copying(s)
  <2>1. PICK u : u = Linked(old, 1)  OBVIOUS
  <2>2. Known(u) /\ ~u.dir /\ new.ino = u.ino  BY <1>2, <1>11, <1>12, <2>1 DEF SameFile
  <2>3. s.writes = Writes({new}, {u}, {})  BY <1>4, <1>7, <2>1
  <2> QED  BY <1>7, <1>10, <2>2, <2>3, Zenon DEF Copying
<1>14. SessionOK(s)  BY <1>13, Zenon DEF SessionOK
<1>15. s.op # "create"  BY <1>7
<1> QED  BY <1>6, <1>14, <1>15, RequestKeeps

-----------------------------------------------------------------------------
(***************************************************************************)
(* A commit: what it does to the table, whatever the request was.          *)
(***************************************************************************)
Given(new) == [new EXCEPT !.id = rows + 1]

Merge(w) ==
  /\ Committable(w)
  /\ db' = {r \in db : r.id \notin Ids(w.update) \cup Ids(w.delete)}
             \cup w.update \cup {Given(r) : r \in w.insert}
  /\ rows' = IF w.insert = {} THEN rows ELSE rows + 1

\* What a transaction writes: known rows, never two at once of a kind.
Proper(w) ==
  /\ \A u \in w.update \cup w.delete : Stub(u)
  /\ \A r \in w.delete : r.path # ROOT_PATH /\ \A u \in w.update : u.path # r.path
  /\ \A new \in w.insert : Fresh(new)
  /\ \A u, v \in w.update : u = v
  /\ \A new, other \in w.insert : new = other

LEMMA AtMostOne ==
  ASSUME NEW S, \A x, y \in S : x = y
  PROVE  IsFiniteSet(S) /\ (S # {} => Cardinality(S) = 1)
<1>1. CASE S = {}  BY <1>1, FS_EmptySet
<1>2. CASE S # {}
  <2>1. PICK x : S = {x}  BY <1>2
  <2> QED  BY <2>1, FS_Singleton
<1> QED  BY <1>1, <1>2

LEMMA GivenRow ==
  ASSUME NEW new, Fresh(new), rows \in Nat
  PROVE  /\ Given(new).id = rows + 1 /\ Given(new).path = new.path /\ Given(new).ino = new.ino
         /\ Given(new).dir = new.dir /\ Given(new).nlink = new.nlink
         /\ Given(new).parentPath = new.parentPath /\ Row(Given(new))
<1>1. new \in FileEntry  BY DEF Fresh, Row
<1>2. /\ Given(new).id = rows + 1 /\ Given(new).path = new.path /\ Given(new).ino = new.ino
      /\ Given(new).dir = new.dir /\ Given(new).nlink = new.nlink /\ Given(new).size = new.size
      /\ Given(new).data = new.data
      /\ Given(new).parentPath = new.parentPath /\ Given(new) \in FileEntry
  BY <1>1 DEF Given, FileEntry
<1> HIDE DEF Given
<1>3. Row(Given(new))  BY <1>2 DEF Fresh, Row
<1> QED  BY <1>2, <1>3

\* An updated or deleted row is there, under its id.
LEMMA Counterpart ==
  ASSUME NEW w, Proper(w), Committable(w), NEW u \in w.update \cup w.delete
  PROVE  \E q \in db : q.id = u.id /\ SameFile(u, q)
<1>1. u.id \in Ids(db)  BY DEF Committable, Ids
<1>2. PICK q \in db : q.id = u.id  BY <1>1 DEF Ids
<1>3. SameFile(u, q)  BY <1>2 DEF Proper, Stub
<1> QED  BY <1>2, <1>3

\* A row of the table after the commit was there, or is the new one.
LEMMA Origin ==
  ASSUME Table, NEW w, Proper(w), Merge(w), NEW q \in db'
  PROVE  \/ q \in db /\ q.id \notin Ids(w.update) \cup Ids(w.delete)
         \/ q \in w.update /\ Stub(q) /\ \E p \in db : p.id = q.id /\ SameFile(q, p)
         \/ \E new \in w.insert : q = Given(new) /\ Fresh(new) /\ rows' = rows + 1
<1>1. CASE q \in {r \in db : r.id \notin Ids(w.update) \cup Ids(w.delete)}
  BY <1>1
<1>2. CASE q \in w.update
  BY <1>2, Counterpart DEF Merge, Proper
<1>3. CASE q \in {Given(r) : r \in w.insert}
  BY <1>3 DEF Merge, Proper
<1> QED  BY <1>1, <1>2, <1>3 DEF Merge

\* What the keys of a row after the commit come from.
LEMMA KeysOf ==
  ASSUME Table, NEW w, Proper(w), Merge(w), NEW q \in db'
  PROVE  \/ \E p \in db : p.id = q.id /\ SameFile(q, p)
         \/ \E new \in w.insert : /\ Fresh(new) /\ q.id = rows + 1 /\ q = Given(new)
                                  /\ SameFile(q, new) /\ rows' = rows + 1
<1>1. rows \in Nat  BY DEF Table
<1>2. CASE q \in db
  BY <1>2 DEF SameFile
<1>3. CASE \E new \in w.insert : q = Given(new) /\ Fresh(new) /\ rows' = rows + 1
  BY <1>1, <1>3, GivenRow DEF SameFile
<1> QED  BY <1>2, <1>3, Origin

LEMMA MergeRows ==
  ASSUME Table, NEW w, Proper(w), Merge(w)
  PROVE  /\ rows' \in Nat /\ rows <= rows' /\ rows \in Nat
         /\ \A r : Held(r) => Held(r)'
         /\ \A r : Fresh(r) => Fresh(r)'
         /\ \A q \in db' : Held(q)'
         /\ IsFiniteSet(db')
<1>1. rows \in Nat /\ rows' \in Nat /\ rows <= rows'  BY DEF Table, Merge
<1>2. ASSUME NEW r, Held(r) PROVE Held(r)'
  <2>1. Row(r)' /\ Row(r) /\ r.id <= rows /\ r.ino <= ROOT_INO + rows  BY <1>2 DEF Held, Row
  <2>2. r.id \in Nat /\ r.ino \in Nat  BY <2>1, TypedRow
  <2> QED  BY <1>1, <2>1, <2>2 DEF Held, ROOT_INO
<1>3. ASSUME NEW r, Fresh(r) PROVE Fresh(r)'
  <2>1. Row(r)' /\ Row(r) /\ r.path # ROOT_PATH /\ r.ino <= ROOT_INO + rows + 1  BY <1>3 DEF Fresh, Row
  <2>2. r.ino \in Nat  BY <2>1, TypedRow
  <2> QED  BY <1>1, <2>1, <2>2 DEF Fresh, ROOT_INO
<1>4. ASSUME NEW q \in db' PROVE Held(q)'
  <2>1. CASE q \in db
    BY <1>2, <2>1 DEF Table
  <2>2. CASE Stub(q)
    BY <1>2, <2>2 DEF Stub
  <2>3. CASE \E new \in w.insert : q = Given(new) /\ Fresh(new) /\ rows' = rows + 1
    <3>1. PICK new \in w.insert : q = Given(new) /\ Fresh(new) /\ rows' = rows + 1  BY <2>3
    <3>2. Row(q) /\ q.id = rows + 1 /\ q.ino = new.ino  BY <1>1, <3>1, GivenRow
    <3>3. new.ino <= ROOT_INO + rows + 1 /\ new.ino \in Nat  BY <3>1, TypedRow DEF Fresh
    <3>4. Row(q)'  BY <3>2 DEF Row
    <3> QED  BY <1>1, <3>1, <3>2, <3>3, <3>4 DEF Held, ROOT_INO
  <2> QED  BY <2>1, <2>2, <2>3, Origin
<1>5. IsFiniteSet(db')
  <2> DEFINE A == {r \in db : r.id \notin Ids(w.update) \cup Ids(w.delete)}
             B == {Given(r) : r \in w.insert}
  <2>1. IsFiniteSet(A)
    <3>1. A \in SUBSET db  OBVIOUS
    <3> HIDE DEF A
    <3> QED  BY <3>1, FS_Subset DEF Table
  <2>2. IsFiniteSet(w.update)  BY AtMostOne DEF Proper
  <2>3. IsFiniteSet(B)
    <3>1. \A x, y \in B : x = y  BY DEF Proper
    <3> HIDE DEF B
    <3> QED  BY <3>1, AtMostOne
  <2>4. db' = (A \cup w.update) \cup B  BY DEF Merge
  <2> HIDE DEF A, B
  <2>5. IsFiniteSet(A \cup w.update)  BY <2>1, <2>2, FS_Union
  <2> QED  BY <2>3, <2>4, <2>5, FS_Union
<1> QED  BY <1>1, <1>2, <1>3, <1>4, <1>5

LEMMA MergeKeys ==
  ASSUME Table, NEW w, Proper(w), Merge(w)
  PROVE  /\ \A r, q \in db' : r.id = q.id => r = q
         /\ KeysDiffer'
         /\ \E r \in db' : r.path = ROOT_PATH
         /\ \A r : Stub(r) => Stub(r)'
<1>0. rows \in Nat /\ \A r \in db : r.id \in Nat /\ r.id <= rows /\ r.id # rows + 1
  BY TypedRow DEF Table, Held
<1>1. ASSUME NEW r \in db', NEW q \in db', r.path = q.path \/ r.ino = q.ino
      PROVE  r.id = q.id
  <2>1. CASE (\E p \in db : p.id = r.id /\ SameFile(r, p)) /\ (\E p \in db : p.id = q.id /\ SameFile(q, p))
    BY <1>1, <2>1 DEF SameFile, Table, KeysDiffer
  <2>2. CASE r.id = rows + 1 /\ q.id = rows + 1
    BY <2>2
  <2>3. ASSUME NEW new \in w.insert, NEW p \in db PROVE new.path # p.path /\ new.ino # p.ino
    BY DEF Merge, Committable
  <2>4. CASE (\E new \in w.insert : SameFile(r, new)) /\ (\E p \in db : p.id = q.id /\ SameFile(q, p))
    BY <1>1, <2>3, <2>4 DEF SameFile
  <2>5. CASE (\E new \in w.insert : SameFile(q, new)) /\ (\E p \in db : p.id = r.id /\ SameFile(r, p))
    BY <1>1, <2>3, <2>5 DEF SameFile
  <2> QED  BY <2>1, <2>2, <2>4, <2>5, KeysOf
<1>2. ASSUME NEW r \in db', NEW q \in db', r.id = q.id PROVE r = q
  <2>1. CASE r \in db /\ r.id \notin Ids(w.update) \cup Ids(w.delete)
    <3>1. q \notin w.update  BY <1>2, <2>1 DEF Ids
    <3>2. ~\E new \in w.insert : q = Given(new) /\ Fresh(new)
      BY <1>0, <1>2, <2>1, GivenRow
    <3>3. q \in db  BY <3>1, <3>2, Origin
    <3> QED  BY <1>2, <2>1, <3>3 DEF Table
  <2>2. CASE r \in w.update
    <3>1. q \notin db \/ q.id \in Ids(w.update)  BY <1>2, <2>2 DEF Ids
    <3>2. PICK p \in db : p.id = r.id  BY <2>2, Counterpart DEF Merge
    <3>3. ~\E new \in w.insert : q = Given(new) /\ Fresh(new)
      BY <1>0, <1>2, <3>2, GivenRow
    <3>4. q \in w.update  BY <3>1, <3>3, Origin
    <3> QED  BY <2>2, <3>4 DEF Proper
  <2>3. CASE \E new \in w.insert : r = Given(new) /\ Fresh(new)
    <3>1. PICK new \in w.insert : r = Given(new) /\ Fresh(new)  BY <2>3
    <3>2. r.id = rows + 1  BY <1>0, <3>1, GivenRow
    <3>3. ~\E p \in db : p.id = q.id  BY <1>0, <1>2, <3>2
    <3>4. q \notin db  BY <3>3
    <3>5. ~\E p \in db : p.id = q.id /\ SameFile(q, p)  BY <3>3
    <3>6. \E other \in w.insert : q = Given(other) /\ Fresh(other)  BY <3>4, <3>5, Origin
    <3> QED  BY <3>1, <3>6 DEF Proper
  <2> QED  BY <2>1, <2>2, <2>3, Origin
<1>3. ASSUME NEW r \in db', r.path # ROOT_PATH PROVE r.ino > ROOT_INO
  <2>1. Held(r)'  BY MergeRows
  <2> QED  BY <1>3, <2>1 DEF Held, Row
<1>4. KeysDiffer'  BY <1>1, <1>2, <1>3 DEF KeysDiffer
<1>5. PICK root \in db : root.path = ROOT_PATH  BY DEF Table
<1>6. \E r \in db' : r.path = ROOT_PATH
  <2>1. CASE root.id \in Ids(w.update)
    <3>1. PICK u \in w.update : u.id = root.id  BY <2>1 DEF Ids
    <3>2. SameFile(u, root)  BY <3>1 DEF Proper, Stub
    <3>3. u \in db'  BY DEF Merge
    <3> QED  BY <1>5, <3>2, <3>3 DEF SameFile
  <2>2. CASE root.id \in Ids(w.delete)
    <3>1. PICK u \in w.delete : u.id = root.id  BY <2>2 DEF Ids
    <3>2. SameFile(u, root)  BY <3>1 DEF Proper, Stub
    <3> QED  BY <1>5, <3>2 DEF SameFile, Proper
  <2>3. CASE root.id \notin Ids(w.update) \cup Ids(w.delete)
    BY <1>5, <2>3 DEF Merge
  <2> QED  BY <2>1, <2>2, <2>3
<1>7. ASSUME NEW r, Stub(r) PROVE Stub(r)'
  <2>1. Held(r)' /\ Held(r)  BY <1>7, MergeRows DEF Stub
  <2>2. ASSUME NEW q \in db', q.id = r.id PROVE SameFile(r, q)
    <3>1. r.id \in Nat /\ r.id <= rows  BY <2>1, TypedRow DEF Held
    <3>2. q.id # rows + 1  BY <1>0, <2>2, <3>1
    <3>3. PICK p \in db : p.id = q.id /\ SameFile(q, p)  BY <3>2, KeysOf
    <3>4. SameFile(r, p)  BY <1>7, <2>2, <3>3 DEF Stub
    <3> QED  BY <3>3, <3>4 DEF SameFile
  <2>3. (\A q \in db : q.id = r.id => SameFile(r, q))'  BY <2>2 DEF SameFile
  <2> QED  BY <2>1, <2>3 DEF Stub
<1> QED  BY <1>2, <1>4, <1>6, <1>7

\* The rows a commit does not name stay as they are, and a row it does not
\* delete keeps its keys.
LEMMA MergeKeeps ==
  ASSUME Table, NEW w, Proper(w), Merge(w), NEW r \in db
  PROVE  /\ (\A u \in w.update \cup w.delete : u.path # r.path) => r \in db'
         /\ (\A u \in w.delete : u.path # r.path) => \E q \in db' : SameFile(q, r)
<1>1. ASSUME NEW u \in w.update \cup w.delete, u.id = r.id PROVE SameFile(u, r)
  BY <1>1 DEF Proper, Stub
<1>2. ASSUME \A u \in w.update \cup w.delete : u.path # r.path PROVE r \in db'
  <2>1. r.id \notin Ids(w.update) \cup Ids(w.delete)  BY <1>1, <1>2 DEF Ids, SameFile
  <2> QED  BY <2>1 DEF Merge
<1>3. ASSUME \A u \in w.delete : u.path # r.path PROVE \E q \in db' : SameFile(q, r)
  <2>1. r.id \notin Ids(w.delete)  BY <1>1, <1>3 DEF Ids, SameFile
  <2>2. CASE r.id \in Ids(w.update)
    <3>1. PICK u \in w.update : u.id = r.id  BY <2>2 DEF Ids
    <3>2. u \in db'  BY DEF Merge
    <3> QED  BY <1>1, <3>1, <3>2
  <2>3. CASE r.id \notin Ids(w.update)
    BY <2>1, <2>3 DEF Merge, SameFile
  <2> QED  BY <2>2, <2>3
<1> QED  BY <1>2, <1>3

\* A directory without entries gets one only from an insert into it.
LEMMA MergeChildren ==
  ASSUME Table, NEW w, Proper(w), Merge(w), NEW path, findByParentPath(path) = {},
         \A new \in w.insert : getParentPath(new.path) # path
  PROVE  findByParentPath(path)' = {}
<1>1. ASSUME NEW q \in db', q.path # ROOT_PATH, q.parentPath = path PROVE FALSE
  <2>1. q.parentPath = getParentPath(q.path)  BY MergeRows DEF Held, Row
  <2>2. CASE \E p \in db : SameFile(q, p)
    <3>1. PICK p \in db : SameFile(q, p)  BY <2>2
    <3>2. p.parentPath = getParentPath(p.path)  BY DEF Table, Held, Row
    <3>3. p.path = q.path /\ p.parentPath = path  BY <1>1, <2>1, <3>1, <3>2 DEF SameFile
    <3> QED  BY <1>1, <3>3 DEF findByParentPath
  <2>3. CASE \E new \in w.insert : SameFile(q, new)
    BY <1>1, <2>1, <2>3 DEF SameFile
  <2> QED  BY <2>2, <2>3, KeysOf
<1> QED  BY <1>1 DEF findByParentPath

-----------------------------------------------------------------------------
(***************************************************************************)
(* A commit and the other requests.                                        *)
(***************************************************************************)

\* The directories a commit changes, or changes the names of, are in L.
Within(w, L) ==
  /\ \A u \in w.update \cup w.delete : u.dir => u.path \in L
  /\ \A new \in w.insert : getParentPath(new.path) \in L

LEMMA KnownKeeps ==
  ASSUME Table, NEW w, Proper(w), Merge(w), NEW L, OneMount => Within(w, L),
         NEW r, Known(r), OneMount /\ r.dir => r.path \notin L
  PROVE  Known(r)'
<1>1. Stub(r)'  BY MergeKeys DEF Known
<1>2. ASSUME OneMount, r.dir PROVE r \in db'
  <2>1. r \in db  BY <1>2 DEF Known
  <2>2. ASSUME NEW u \in w.update \cup w.delete, u.path = r.path PROVE FALSE
    <3>1. PICK q \in db : q.id = u.id /\ SameFile(u, q)  BY Counterpart DEF Merge
    <3>2. q = r  BY <2>1, <2>2, <3>1 DEF SameFile, Table, KeysDiffer
    <3>3. u.dir  BY <1>2, <3>1, <3>2 DEF SameFile
    <3> QED  BY <1>2, <2>2, <3>3 DEF Within
  <2> QED  BY <2>1, <2>2, MergeKeeps
<1> QED  BY <1>1, <1>2 DEF Known

LEMMA OthersKeep ==
  ASSUME Table, NEW w, Proper(w), Merge(w), NEW L, OneMount => Within(w, L),
         NEW s, SessionOK(s), OneMount => Locks(s) \cap L = {}
  PROVE  SessionOK(s)'
<1>1. ASSUME NEW r, Known(r), r.dir => r.path \in Locks(s) PROVE Known(r)'
  BY <1>1, KnownKeeps
<1>2. ASSUME NEW p, Parent(p, s.path), getParentPath(s.path) \in Locks(s) PROVE Parent(p, s.path)'
  <2>1. Known(p)'  BY <1>1, <1>2 DEF Parent
  <2> QED  BY <1>2, <2>1 DEF Parent
<1>3. \A new : Fresh(new) => Fresh(new)'
  BY MergeRows
<1>4. CASE s = Idle
  BY <1>4 DEF SessionOK
<1>5. CASE Numbering(s)
  <2>1. getParentPath(s.path) \in Locks(s)  BY <1>5 DEF Numbering, Locks
  <2>2. Numbering(s)'  BY <1>5, <2>1, <1>2, Zenon DEF Numbering
  <2> QED  BY <2>2, Zenon DEF SessionOK
<1>6. CASE Inserting(s)
  <2>1. getParentPath(s.path) \in Locks(s)  BY <1>6 DEF Inserting, Locks
  <2>2. Inserting(s)'  BY <1>6, <2>1, <1>2, <1>3, Zenon DEF Inserting
  <2> QED  BY <2>2, Zenon DEF SessionOK
<1>7. ASSUME s.op = "delete", NEW r, Victim(r, s) PROVE Victim(r, s)'
  <2>1. s.path \in Locks(s)  BY <1>7 DEF Locks
  <2>2. Known(r)'  BY <1>1, <1>7, <2>1 DEF Victim
  <2> QED  BY <1>7, <2>2 DEF Victim
<1>8. CASE Deleting(s)
  <2>1. s.op = "delete"  BY <1>8 DEF Deleting
  <2>2. Deleting(s)'  BY <1>8, <2>1, <1>7, Zenon DEF Deleting
  <2> QED  BY <2>2, Zenon DEF SessionOK
<1>9. CASE Removing(s)
  <2>1. s.op = "delete" /\ s.step = "commit" /\ s.loaded = {}  BY <1>9 DEF Removing
  <2>2. s.path \in Locks(s) /\ getParentPath(s.path) \in Locks(s)  BY <2>1 DEF Locks
  <2>3. PICK r :
       /\ Victim(r, s) /\ (OneMount /\ r.dir => findByParentPath(r.path) = {})
       /\ \/ r.nlink # 1 /\ s.writes = Writes({}, {Linked(r, -1)}, {})
          \/ ~r.dir /\ s.writes = Writes({}, {}, {r})
          \/ r.nlink = 1 /\ r.dir /\ Unlinking(r, s)
    BY <1>9, Zenon DEF Removing
  <2>4. Victim(r, s)'  BY <1>7, <2>1, <2>3
  <2>5. OneMount /\ r.dir => findByParentPath(r.path)' = {}
    <3> SUFFICES ASSUME OneMount, r.dir PROVE findByParentPath(r.path)' = {}  OBVIOUS
    <3>1. r.path \notin L  BY <2>2, <2>3 DEF Victim
    <3>2. \A new \in w.insert : getParentPath(new.path) # r.path  BY <3>1 DEF Within
    <3>3. findByParentPath(r.path) = {}  BY <2>3
    <3>4. PICK path : path = r.path  OBVIOUS
    <3>5. findByParentPath(path)' = {}
      BY <3>2, <3>3, <3>4, MergeChildren
    <3> QED  BY <3>4, <3>5
  <2>6. Unlinking(r, s) => Unlinking(r, s)'
    <3> SUFFICES ASSUME Unlinking(r, s) PROVE Unlinking(r, s)'  OBVIOUS
    <3>1. ASSUME NEW p, Known(p), p.path = getParentPath(s.path) PROVE Known(p)'
      BY <3>1, <1>1, <2>2
    <3> QED  BY <3>1, Zenon DEF Unlinking
  <2>7. Removing(s)'  BY <2>1, <2>3, <2>4, <2>5, <2>6, Zenon DEF Removing
  <2> QED  BY <2>7, Zenon DEF SessionOK
<1>10. CASE Storing(s)
  <2>1. \A r : Known(r) /\ ~r.dir => Known(r)'  BY <1>1
  <2>2. Storing(s)'  BY <1>10, <2>1, Zenon DEF Storing
  <2> QED  BY <2>2, Zenon DEF SessionOK
<1>11. CASE Copying(s)
  <2>1. \A r : Known(r) /\ ~r.dir => Known(r)'  BY <1>1
  <2>2. Copying(s)'  BY <1>11, <2>1, <1>3, Zenon DEF Copying
  <2> QED  BY <2>2, Zenon DEF SessionOK
<1> QED  BY <1>4, <1>5, <1>6, <1>8, <1>9, <1>10, <1>11, Zenon DEF SessionOK

\* What Commit does is a merge.
LEMMA CommitMerges ==
  ASSUME Table, NEW c \in Clients, Commit(c), NEW w, w = session[c].writes, Proper(w)
  PROVE  Merge(w)
<1> DEFINE N == {Given(r) : r \in w.insert}
<1>1. /\ Committable(w)
      /\ db' = {r \in db : r.id \notin Ids(w.update) \cup Ids(w.delete)} \cup w.update \cup N
      /\ rows' = rows + Cardinality(N)
  BY DEF Commit, Given
<1>2. \A x, y \in N : x = y  BY DEF Proper
<1>3. N = {} <=> w.insert = {}  OBVIOUS
<1> HIDE DEF N
<1>4. Cardinality(N) = IF w.insert = {} THEN 0 ELSE 1
  BY <1>2, <1>3, AtMostOne, FS_EmptySet
<1>5. rows \in Nat  BY DEF Table
<1>6. rows' = IF w.insert = {} THEN rows ELSE rows + 1  BY <1>1, <1>4, <1>5
<1> QED  BY <1>1, <1>6 DEF Merge, N

LEMMA CommitKeeps ==
  ASSUME IInv, NEW c \in Clients, Commit(c), NEW w, w = session[c].writes, Proper(w),
         w.insert # {} => session[c].op = "create",
         OneMount => Within(w, Locks(session[c])) /\ Tree'
  PROVE  IInv'
<1>1. Table /\ Sessions  BY DEF IInv, Keys
<1>2. Merge(w)  BY <1>1, CommitMerges
<1>3. session' = [session EXCEPT ![c] = Idle]  BY DEF Commit, Respond
<1>4. session'[c] = Idle /\ \A d \in Clients : d # c => session'[d] = session[d]
  BY <1>1, <1>3 DEF Sessions
<1>5. PICK L : L = Locks(session[c])  OBVIOUS
<1>6. Sessions'
  <2>1. session' = [d \in Clients |-> session'[d]]  BY <1>1, <1>3 DEF Sessions
  <2>2. ASSUME NEW d \in Clients PROVE SessionOK(session[d])'
    <3>1. PICK t : t = session'[d]  OBVIOUS
    <3>2. CASE d = c
      <4>1. t = Idle  BY <1>4, <3>1, <3>2
      <4>2. SessionOK(t)'  BY <4>1 DEF SessionOK
      <4> QED  BY <3>1, <4>2
    <3>3. CASE d # c
      <4>1. t = session[d]  BY <1>4, <3>1, <3>3
      <4>2. SessionOK(t)  BY <4>1, <1>1 DEF Sessions
      <4>3. OneMount => Locks(t) \cap L = {}
        BY <1>5, <3>3, <4>1 DEF IInv, LocksApart
      <4>4. OneMount => Within(w, L)  BY <1>5
      <4>5. SessionOK(t)'  BY <1>1, <1>2, <4>2, <4>3, <4>4, OthersKeep
      <4> QED  BY <3>1, <4>5
    <3> QED  BY <3>2, <3>3
  <2> QED  BY <2>1, <2>2 DEF Sessions
<1>7. rows' + Cardinality(Creating') <= MaxRows
  <2>1. CASE w.insert = {}
    <3>1. rows' = rows  BY <1>2, <2>1 DEF Merge
    <3>2. Idle.op # "create"  BY DEF Idle
    <3>3. rows + Cardinality(Creating') <= MaxRows  BY <1>3, <3>2, NoMoreCreating DEF IInv
    <3> QED  BY <3>1, <3>3
  <2>2. CASE w.insert # {}
    <3>1. rows' = rows + 1  BY <1>2, <2>2 DEF Merge
    <3>2. c \in Creating  BY <2>2 DEF Creating
    <3>3. Creating' = Creating \ {c}
      <4>1. Idle.op # "create"  BY DEF Idle
      <4> QED  BY <1>4, <4>1 DEF Creating
    <3>4. PICK S : S = Creating'  OBVIOUS
    <3>5. Cardinality(S) = Cardinality(Creating) - 1
      BY <3>2, <3>3, <3>4, CreatingFinite, FS_RemoveElement
    <3>6. rows + Cardinality(Creating) <= MaxRows /\ rows \in Nat /\ MaxRows \in Nat
      BY <1>1, ServerAssumption DEF Table
    <3>7. rows' + Cardinality(S) <= MaxRows  BY <3>1, <3>5, <3>6, CreatingFinite
    <3> QED  BY <3>4, <3>7
  <2> QED  BY <2>1, <2>2
<1>8. Table'
  <2>1. rows' \in Nat /\ IsFiniteSet(db') /\ \A q \in db' : Held(q)'  BY <1>1, <1>2, MergeRows
  <2>2. /\ \A r, q \in db' : r.id = q.id => r = q
        /\ KeysDiffer'
        /\ \E r \in db' : r.path = ROOT_PATH
    BY <1>1, <1>2, MergeKeys
  <2>3. (\E r \in db : r.path = ROOT_PATH)'  BY <2>2 DEF ROOT_PATH
  <2>4. (rows + Cardinality(Creating) <= MaxRows)'  BY <1>7
  <2> QED  BY <2>1, <2>2, <2>3, <2>4 DEF Table
<1>9. OneMount => LocksApart'
  <2> SUFFICES ASSUME OneMount PROVE LocksApart'  OBVIOUS
  <2>1. ASSUME NEW d \in Clients, NEW e \in Clients, d # e
        PROVE  Locks(session'[d]) \cap Locks(session'[e]) = {}
    <3>1. Locks(session[d]) \cap Locks(session[e]) = {}  BY <2>1 DEF IInv, LocksApart
    <3>2. CASE d = c \/ e = c  BY <1>4, <3>2, IdleSession
    <3>3. CASE d # c /\ e # c  BY <1>4, <3>1, <3>3
    <3> QED  BY <3>2, <3>3
  <2> QED  BY <2>1 DEF LocksApart, Locks
<1> QED  BY <1>6, <1>8, <1>9 DEF IInv, Keys

-----------------------------------------------------------------------------
(***************************************************************************)
(* A commit and the tree.                                                  *)
(***************************************************************************)

\* The subdirectories of a directory are as many rows as names.
LEMMA SubsCount ==
  ASSUME Table, NEW path
  PROVE  /\ IsFiniteSet(Subs(path)) /\ Cardinality(Subs(path)) \in Nat
         /\ Cardinality(Subs(path)) = Cardinality({q \in findByParentPath(path) : q.dir})
<1> DEFINE D == {q \in findByParentPath(path) : q.dir}
           N == Subs(path)
           f == [q \in D |-> q.path]
<1>1. IsFiniteSet(D)
  <2>1. D \in SUBSET db  BY DEF findByParentPath
  <2> HIDE DEF D
  <2> QED  BY <2>1, FS_Subset DEF Table
<1>2. N = {q.path : q \in D}  BY DEF Subs, findByParentPath
<1>3. \A q, r \in D : q.path = r.path => q = r  BY DEF findByParentPath, Table, KeysDiffer
<1> HIDE DEF D, N
<1>4. f \in Surjection(D, N)  BY <1>2 DEF Surjection
<1>5. f \in Injection(D, N)
  <2>1. \A q \in D : f[q] = q.path  OBVIOUS
  <2>2. f \in [D -> N]  BY <1>2
  <2>3. \A q, r \in D : f[q] = f[r] => q = r  BY <1>3, <2>1
  <2> HIDE DEF f
  <2> QED  BY <2>2, <2>3 DEF Injection, IsInjective
<1> HIDE DEF f
<1>6. IsFiniteSet(N) /\ Cardinality(N) = Cardinality(D)
  BY <1>1, <1>4, <1>5, FS_Surjection
<1>7. Cardinality(N) \in Nat  BY <1>6, FS_CardinalityType
<1> QED  BY <1>6, <1>7 DEF D, N

LEMMA TreeIs == Table => (Tree <=> TreeComplete /\ DirLinks)
<1> SUFFICES ASSUME Table PROVE Tree <=> TreeComplete /\ DirLinks
  OBVIOUS
<1>1. \A r : Own(r) = r.nlink - Cardinality({q \in findByParentPath(r.path) : q.dir})
  <2> TAKE r
  <2>1. PICK path : path = r.path  OBVIOUS
  <2>2. Cardinality(Subs(path)) = Cardinality({q \in findByParentPath(path) : q.dir})
    BY SubsCount
  <2> QED  BY <2>1, <2>2 DEF Own
<1> QED  BY <1>1, Zenon DEF Tree, DirLinks

Gone(w) == {r.path : r \in w.delete}
Come(w, path) == {n.path : n \in {m \in w.insert : m.dir /\ m.parentPath = path}}

LEMMA MergeSubs ==
  ASSUME Table, NEW w, Proper(w), Merge(w), NEW path
  PROVE  Subs(path)' = (Subs(path) \ Gone(w)) \cup Come(w, path)
<1>0. rows \in Nat /\ \A r \in db : r.parentPath = getParentPath(r.path)
  BY DEF Table, Held, Row
<1>1. ASSUME NEW q \in db', q.path # ROOT_PATH, q.parentPath = path, q.dir
      PROVE  q.path \in (Subs(path) \ Gone(w)) \cup Come(w, path)
  <2>0. q.parentPath = getParentPath(q.path)  BY MergeRows DEF Held, Row
  <2>1. ASSUME NEW p \in db, p.id = q.id, SameFile(q, p) PROVE q.path \in Subs(path) \ Gone(w)
    <3>1. p.path = q.path /\ p.dir /\ p.parentPath = path
      BY <1>0, <1>1, <2>0, <2>1 DEF SameFile
    <3>2. q.path \in Subs(path)  BY <1>1, <3>1 DEF Subs
    <3>3. ASSUME NEW r \in w.delete, r.path = q.path PROVE FALSE
      <4>1. PICK s \in db : s.id = r.id /\ SameFile(r, s)  BY Counterpart DEF Merge
      <4>2. s = p  BY <3>1, <3>3, <4>1 DEF SameFile, Table, KeysDiffer
      <4>3. q.id \in Ids(w.delete)  BY <2>1, <4>1, <4>2 DEF Ids
      <4>4. q \notin w.update  BY <3>3 DEF Proper
      <4>5. ~\E new \in w.insert : q = Given(new) /\ Fresh(new)
        <5>1. p.id \in Nat /\ p.id <= rows  BY TypedRow DEF Table, Held
        <5>2. q.id # rows + 1  BY <1>0, <2>1, <5>1
        <5> QED  BY <1>0, <5>2, GivenRow
      <4> QED  BY <4>3, <4>4, <4>5, Origin
    <3> QED  BY <3>2, <3>3 DEF Gone
  <2>2. ASSUME NEW new \in w.insert, q = Given(new), Fresh(new) PROVE q.path \in Come(w, path)
    <3>1. q.path = new.path /\ q.dir = new.dir /\ q.parentPath = new.parentPath
      BY <1>0, <2>2, GivenRow
    <3> QED  BY <1>1, <3>1 DEF Come
  <2> QED  BY <2>1, <2>2, KeysOf
<1>2. ASSUME NEW q \in db, q.path # ROOT_PATH, q.parentPath = path, q.dir, q.path \notin Gone(w)
      PROVE  q.path \in Subs(path)'
  <2>1. \A u \in w.delete : u.path # q.path  BY <1>2 DEF Gone
  <2>2. PICK p \in db' : SameFile(p, q)  BY <2>1, MergeKeeps
  <2>3. p.parentPath = getParentPath(p.path)  BY MergeRows DEF Held, Row
  <2>4. p.path = q.path /\ p.dir /\ p.parentPath = path
    BY <1>0, <1>2, <2>2, <2>3 DEF SameFile
  <2> QED  BY <1>2, <2>4 DEF Subs, ROOT_PATH
<1>3. ASSUME NEW new \in w.insert, new.dir, new.parentPath = path PROVE new.path \in Subs(path)'
  <2>1. Fresh(new)  BY DEF Proper
  <2>2. PICK q : q = Given(new)  OBVIOUS
  <2>3. q \in db'  BY <2>2 DEF Merge
  <2>4. q.path = new.path /\ q.dir /\ q.parentPath = path
    BY <1>0, <1>3, <2>1, <2>2, GivenRow
  <2>5. new.path # ROOT_PATH  BY <2>1 DEF Fresh
  <2> QED  BY <2>3, <2>4, <2>5 DEF Subs, ROOT_PATH
<1>4. \A x \in Subs(path)' : x \in (Subs(path) \ Gone(w)) \cup Come(w, path)
  <2> TAKE x \in Subs(path)'
  <2>1. PICK q \in db' : q.path # ROOT_PATH /\ q.parentPath = path /\ q.dir /\ x = q.path
    BY DEF Subs, ROOT_PATH
  <2> QED  BY <1>1, <2>1
<1>5. \A x \in (Subs(path) \ Gone(w)) \cup Come(w, path) : x \in Subs(path)'
  <2> TAKE x \in (Subs(path) \ Gone(w)) \cup Come(w, path)
  <2>1. CASE x \in Come(w, path)  BY <1>3, <2>1 DEF Come
  <2>2. CASE x \in Subs(path) \ Gone(w)
    <3>1. PICK q \in db : q.path # ROOT_PATH /\ q.parentPath = path /\ q.dir /\ x = q.path
      BY <2>2 DEF Subs
    <3> QED  BY <1>2, <2>2, <3>1
  <2> QED  BY <2>1, <2>2
<1>6. Subs(path)' = (Subs(path) \ Gone(w)) \cup Come(w, path)  BY <1>4, <1>5
<1> QED  BY <1>6

\* A directory that goes is empty, and what comes has a directory to be in.
LEMMA MergeComplete ==
  ASSUME Table, TreeComplete, NEW w, Proper(w), Merge(w), w.insert = {} \/ w.delete = {},
         \A r \in w.delete : r.dir => findByParentPath(r.path) = {},
         \A new \in w.insert : \E p \in db : p.path = getParentPath(new.path) /\ p.dir
  PROVE  TreeComplete'
<1>1. ASSUME NEW p \in db, \A r \in w.delete : r.path # p.path
      PROVE  \E q \in db' : q.path = p.path /\ q.dir = p.dir
  BY <1>1, MergeKeeps DEF SameFile
<1>2. ASSUME NEW q \in db' PROVE \E p \in db' : p.path = getParentPath(q.path) /\ p.dir
  <2>1. ASSUME NEW s \in db, SameFile(q, s)
        PROVE  \E p \in db' : p.path = getParentPath(q.path) /\ p.dir
    <3>1. PICK p \in db : p.path = getParentPath(s.path) /\ p.dir  BY DEF TreeComplete
    <3>2. ASSUME NEW r \in w.delete, r.path = p.path PROVE FALSE
      <4>1. PICK d \in db : d.id = r.id /\ SameFile(r, d)  BY Counterpart DEF Merge
      <4>2. d = p  BY <3>2, <4>1 DEF SameFile, Table, KeysDiffer
      <4>3. r.dir  BY <3>1, <4>1, <4>2 DEF SameFile
      <4>4. findByParentPath(p.path) = {}  BY <3>2, <4>3
      <4>5. r.path # ROOT_PATH  BY DEF Proper
      <4>6. s.path # ROOT_PATH  BY <3>1, <3>2, <4>5 DEF getParentPath
      <4>7. s.parentPath = p.path  BY <3>1 DEF Table, Held, Row
      <4> QED  BY <4>4, <4>6, <4>7 DEF findByParentPath
    <3>3. PICK t \in db' : t.path = p.path /\ t.dir = p.dir  BY <1>1, <3>2
    <3> QED  BY <2>1, <3>1, <3>3 DEF SameFile
  <2>2. ASSUME NEW new \in w.insert, SameFile(q, new)
        PROVE  \E p \in db' : p.path = getParentPath(q.path) /\ p.dir
    <3>1. PICK p \in db : p.path = getParentPath(new.path) /\ p.dir  OBVIOUS
    <3>2. w.delete = {}  OBVIOUS
    <3>3. PICK t \in db' : t.path = p.path /\ t.dir = p.dir  BY <1>1, <3>2
    <3> QED  BY <2>2, <3>1, <3>3 DEF SameFile
  <2> QED  BY <2>1, <2>2, KeysOf
<1>3. \E r \in db' : r.path = ROOT_PATH /\ r.dir
  <2>1. PICK r \in db' : r.path = ROOT_PATH  BY MergeKeys
  <2>2. r.dir  BY <2>1, MergeRows DEF Held, Row
  <2> QED  BY <2>1, <2>2
<1> QED  BY <1>2, <1>3 DEF TreeComplete, getParentPath, ROOT_PATH

\* What the links of one directory must be.
Right(r) == Own(r) \in {1, 2} /\ (r.path = ROOT_PATH => Own(r) = 2)

LEMMA RightSame ==
  ASSUME Tree, NEW q \in db, q.dir, Subs(q.path)' = Subs(q.path)
  PROVE  Right(q)'
<1>1. Own(q)' = Own(q)  BY DEF Own
<1> QED  BY <1>1 DEF Right, Tree, ROOT_PATH

\* No directory comes or goes, and one at most has other links.
LEMMA TreeOfUpdate ==
  ASSUME Table, Tree, NEW w, Proper(w), Merge(w), TreeComplete',
         \A new \in w.insert : ~new.dir,
         \A r \in w.delete : ~r.dir,
         \A u \in w.update : u.dir => /\ findByParentPath(u.path) = {} /\ u.path # ROOT_PATH
                                      /\ u.nlink \in {1, 2}
  PROVE  Tree'
<1>1. ASSUME NEW path PROVE Subs(path)' = Subs(path)
  <2>1. Come(w, path) = {}  BY DEF Come
  <2>2. ASSUME NEW r \in w.delete PROVE r.path \notin Subs(path)
    <3>1. PICK d \in db : d.id = r.id /\ SameFile(r, d)  BY Counterpart DEF Merge
    <3>2. ~d.dir /\ d.path = r.path  BY <3>1 DEF SameFile
    <3>3. ASSUME NEW q \in db, q.dir, q.path = r.path PROVE FALSE
      BY <3>2, <3>3 DEF Table, KeysDiffer
    <3> QED  BY <3>3 DEF Subs
  <2>3. Subs(path)' = (Subs(path) \ Gone(w)) \cup Come(w, path)
    BY MergeSubs
  <2> QED  BY <2>1, <2>2, <2>3 DEF Gone
<1>2. ASSUME NEW q \in db', q.dir PROVE Right(q)'
  <2>1. CASE q \in db
    <3>1. PICK path : path = q.path  OBVIOUS
    <3>2. Subs(path)' = Subs(path)  BY <1>1
    <3>3. Subs(q.path)' = Subs(q.path)  BY <3>1, <3>2
    <3> QED  BY <1>2, <2>1, <3>3, RightSame
  <2>2. CASE q \in w.update
    <3>1. findByParentPath(q.path) = {} /\ q.path # ROOT_PATH /\ q.nlink \in {1, 2}  BY <1>2, <2>2
    <3>2. PICK path : path = q.path  OBVIOUS
    <3>3. Subs(path) = {}  BY <3>1, <3>2 DEF Subs, findByParentPath
    <3>4. Subs(path)' = {}  BY <1>1, <3>3
    <3>5. Cardinality(Subs(path)') = 0  BY <3>4, FS_EmptySet
    <3>6. Own(q)' = q.nlink  BY <3>1, <3>2, <3>5 DEF Own
    <3> QED  BY <3>1, <3>6 DEF Right, ROOT_PATH
  <2>3. CASE \E new \in w.insert : q = Given(new) /\ Fresh(new)
    <3>1. rows \in Nat  BY DEF Table
    <3> QED  BY <1>2, <2>3, <3>1, GivenRow
  <2> QED  BY <2>1, <2>2, <2>3, Origin
<1>3. (\A q \in db : q.dir => Right(q))'  BY <1>2
<1> QED  BY <1>3 DEF Tree, Right

\* The last link of an empty directory goes, and one of its parent's.
LEMMA TreeOfRemoval ==
  ASSUME Table, Tree, NEW r \in db, NEW p \in db, r.dir, p.dir, r.path # ROOT_PATH,
         p.path = getParentPath(r.path),
         NEW w, w.insert = {}, w.delete = {r}, w.update = {Linked(p, -1)},
         Proper(w), Merge(w), TreeComplete'
  PROVE  Tree'
<1>0. /\ w.insert = {} /\ w.delete = {r} /\ w.update = {Linked(p, -1)}
      /\ Row(r) /\ Row(p)
  BY DEF Table, Held
<1>1. ASSUME NEW path PROVE Subs(path)' = Subs(path) \ {r.path}
  <2>1. Subs(path)' = (Subs(path) \ Gone(w)) \cup Come(w, path)
    BY MergeSubs
  <2>2. Come(w, path) = {}  BY <1>0 DEF Come
  <2>3. Gone(w) = {r.path}  BY <1>0 DEF Gone
  <2> QED  BY <2>1, <2>2, <2>3
<1>2. r.parentPath = p.path  BY <1>0 DEF Row
<1>3. ASSUME NEW path, path # p.path PROVE r.path \notin Subs(path)
  BY <1>2, <1>3 DEF Subs, Table, KeysDiffer
<1>4. r.path \in Subs(p.path)  BY <1>2 DEF Subs
<1>5. ASSUME NEW q \in db', q.dir PROVE Right(q)'
  <2>1. CASE q \in db /\ q.id \notin Ids(w.update) \cup Ids(w.delete)
    <3>1. PICK path : path = q.path  OBVIOUS
    <3>2. path # p.path
      <4>1. Linked(p, -1).id = p.id  BY <1>0, LinkedRow
      <4>2. p.id \in Ids(w.update)  BY <1>0, <4>1 DEF Ids
      <4> QED  BY <2>1, <3>1, <4>2 DEF Table, KeysDiffer
    <3>3. Subs(path)' = Subs(path)  BY <1>1, <1>3, <3>2
    <3>4. Subs(q.path)' = Subs(q.path)  BY <3>1, <3>3
    <3> QED  BY <1>5, <2>1, <3>4, RightSame
  <2>2. CASE q \in w.update
    <3>1. q.nlink = p.nlink - 1 /\ q.path = p.path /\ p.nlink \in Int
      <4>1. p.nlink \in Int  BY <1>0, TypedRow
      <4>2. q = Linked(p, -1)  BY <1>0, <2>2
      <4>3. Linked(p, -1).nlink = p.nlink + (-1) /\ SameFile(Linked(p, -1), p)
        BY <1>0, LinkedRow
      <4> QED  BY <4>1, <4>2, <4>3 DEF SameFile
    <3>2. PICK path : path = p.path  OBVIOUS
    <3>3. IsFiniteSet(Subs(path)) /\ Cardinality(Subs(path)) \in Nat  BY SubsCount
    <3>4. Cardinality(Subs(path) \ {r.path}) = Cardinality(Subs(path)) - 1
      BY <1>4, <3>2, <3>3, FS_RemoveElement
    <3>5. Cardinality(Subs(path)') = Cardinality(Subs(path)) - 1  BY <1>1, <3>4
    <3>6. Own(q)' = Own(p)  BY <3>1, <3>2, <3>3, <3>5 DEF Own
    <3> QED  BY <3>1, <3>6 DEF Right, Tree, ROOT_PATH
  <2> QED  BY <1>0, <2>1, <2>2, Origin
<1>6. (\A q \in db : q.dir => Right(q))'  BY <1>5
<1> QED  BY <1>6 DEF Tree, Right

\* A new directory has two links, and its parent one more.
LEMMA TreeOfInsert ==
  ASSUME Table, Tree, NEW p \in db, p.dir, NEW new, Fresh(new), new.dir, new.nlink = 2,
         p.path = getParentPath(new.path),
         NEW w, w.insert = {new}, w.delete = {}, w.update = {Linked(p, 1)},
         Proper(w), Merge(w), TreeComplete'
  PROVE  Tree'
<1>0. /\ w.insert = {new} /\ w.delete = {} /\ w.update = {Linked(p, 1)}
      /\ Row(p) /\ Row(new) /\ rows \in Nat
  BY DEF Table, Held, Fresh
<1>1. new.parentPath = p.path /\ new.path # ROOT_PATH /\ new.path \in Paths
  BY <1>0, TypedRow DEF Row, Fresh
<1>2. \A q \in db : q.path # new.path
  BY <1>0 DEF Merge, Committable
<1>3. ASSUME NEW path, path # p.path PROVE Subs(path)' = Subs(path)
  <2>1. Come(w, path) = {}  BY <1>0, <1>1, <1>3 DEF Come
  <2>2. Gone(w) = {}  BY <1>0 DEF Gone
  <2>3. Subs(path)' = (Subs(path) \ Gone(w)) \cup Come(w, path)
    BY MergeSubs
  <2> QED  BY <2>1, <2>2, <2>3
<1>4. Subs(p.path)' = Subs(p.path) \cup {new.path}
  <2>1. PICK path : path = p.path  OBVIOUS
  <2>2. Come(w, path) = {new.path}  BY <1>0, <1>1, <2>1 DEF Come
  <2>3. Subs(path)' = (Subs(path) \ Gone(w)) \cup Come(w, path)
    BY MergeSubs
  <2>4. Subs(path)' = Subs(path) \cup {new.path}  BY <1>0, <2>2, <2>3 DEF Gone
  <2> QED  BY <2>1, <2>4
<1>5. new.path \notin Subs(p.path)  BY <1>2 DEF Subs
<1>6. ASSUME NEW q \in db', q.dir PROVE Right(q)'
  <2>1. CASE q \in db /\ q.id \notin Ids(w.update) \cup Ids(w.delete)
    <3>1. PICK path : path = q.path  OBVIOUS
    <3>2. path # p.path
      <4>1. Linked(p, 1).id = p.id  BY <1>0, LinkedRow
      <4>2. p.id \in Ids(w.update)  BY <1>0, <4>1 DEF Ids
      <4> QED  BY <2>1, <3>1, <4>2 DEF Table, KeysDiffer
    <3>3. Subs(path)' = Subs(path)  BY <1>3, <3>2
    <3>4. Subs(q.path)' = Subs(q.path)  BY <3>1, <3>3
    <3> QED  BY <1>6, <2>1, <3>4, RightSame
  <2>2. CASE q \in w.update
    <3>1. q.nlink = p.nlink + 1 /\ q.path = p.path /\ p.nlink \in Int
      <4>1. p.nlink \in Int  BY <1>0, TypedRow
      <4>2. q = Linked(p, 1)  BY <1>0, <2>2
      <4>3. Linked(p, 1).nlink = p.nlink + 1 /\ SameFile(Linked(p, 1), p)
        BY <1>0, LinkedRow
      <4> QED  BY <4>1, <4>2, <4>3 DEF SameFile
    <3>2. PICK path : path = p.path  OBVIOUS
    <3>3. IsFiniteSet(Subs(path)) /\ Cardinality(Subs(path)) \in Nat  BY SubsCount
    <3>4. Cardinality(Subs(path) \cup {new.path}) = Cardinality(Subs(path)) + 1
      BY <1>5, <3>2, <3>3, FS_AddElement
    <3>5. Cardinality(Subs(path)') = Cardinality(Subs(path)) + 1  BY <1>4, <3>2, <3>4
    <3>6. Own(q)' = Own(p)  BY <3>1, <3>2, <3>3, <3>5 DEF Own
    <3> QED  BY <3>1, <3>6 DEF Right, Tree, ROOT_PATH
  <2>3. CASE q = Given(new)
    <3>1. q.path = new.path /\ q.nlink = 2  BY <1>0, <2>3, GivenRow
    <3>2. PICK path : path = new.path  OBVIOUS
    <3>3. path # p.path  BY <1>2, <3>2
    <3>4. ASSUME NEW x \in db, x.parentPath = path, x.path # ROOT_PATH PROVE FALSE
      <4>1. x.parentPath = getParentPath(x.path)  BY DEF Table, Held, Row
      <4>2. \E y \in db : y.path = getParentPath(x.path)  BY DEF Tree, TreeComplete
      <4> QED  BY <1>2, <3>2, <3>4, <4>1, <4>2
    <3>5. Subs(path) = {}  BY <3>4 DEF Subs
    <3>6. Subs(path)' = {}  BY <1>3, <3>3, <3>5
    <3>7. Cardinality(Subs(path)') = 0  BY <3>6, FS_EmptySet
    <3>8. Own(q)' = 2  BY <3>1, <3>2, <3>7 DEF Own
    <3> QED  BY <1>1, <3>1, <3>8 DEF Right, ROOT_PATH
  <2> QED  BY <1>0, <2>1, <2>2, <2>3, Origin
<1>7. (\A q \in db : q.dir => Right(q))'  BY <1>6
<1> QED  BY <1>7 DEF Tree, Right

-----------------------------------------------------------------------------
(***************************************************************************)
(* A commit of each kind of request.                                       *)
(***************************************************************************)

LEMMA StoringCommits ==
  ASSUME IInv, NEW c \in Clients, Commit(c), Storing(session[c])
  PROVE  IInv'
<1>1. PICK r : Known(r) /\ ~r.dir /\ session[c].writes = Writes({}, {r}, {})
  BY DEF Storing
<1>2. PICK w : w = session[c].writes  OBVIOUS
<1>3. w.insert = {} /\ w.update = {r} /\ w.delete = {}  BY <1>1, <1>2 DEF Writes
<1>4. Proper(w)  BY <1>1, <1>3 DEF Proper, Known
<1>5. Table  BY DEF IInv, Keys
<1>6. Merge(w)  BY <1>2, <1>4, <1>5, CommitMerges
<1>7. ASSUME OneMount PROVE Within(w, Locks(session[c])) /\ Tree'
  <2>1. Tree /\ TreeComplete  BY <1>7 DEF IInv, Tree
  <2>2. TreeComplete'  BY <1>3, <1>4, <1>5, <1>6, <2>1, MergeComplete
  <2>3. Tree'  BY <1>1, <1>3, <1>4, <1>5, <1>6, <2>1, <2>2, TreeOfUpdate
  <2> QED  BY <1>1, <1>3, <2>3 DEF Within
<1> QED  BY <1>2, <1>3, <1>4, <1>7, CommitKeeps

LEMMA CopyingRefused ==
  ASSUME IInv, NEW c \in Clients, Commit(c), Copying(session[c])
  PROVE  FALSE
<1>1. PICK new, r : Known(r) /\ new.ino = r.ino /\ session[c].writes = Writes({new}, {r}, {})
  BY DEF Copying
<1>2. PICK w : w = session[c].writes  OBVIOUS
<1>3. w.insert = {new} /\ w.update = {r}  BY <1>1, <1>2 DEF Writes
<1>4. Committable(w)  BY <1>2 DEF Commit
<1>5. PICK q \in db : q.id = r.id  BY <1>3, <1>4 DEF Committable, Ids
<1>6. q.ino = r.ino  BY <1>1, <1>5 DEF Known, Stub, SameFile
<1> QED  BY <1>1, <1>3, <1>4, <1>5, <1>6 DEF Committable

LEMMA InsertingCommits ==
  ASSUME IInv, NEW c \in Clients, Commit(c), Inserting(session[c])
  PROVE  IInv'
<1>1. PICK s : s = session[c]  OBVIOUS
<1>2. s.op = "create"  BY <1>1 DEF Inserting
<1>3. PICK new, p :
       /\ Fresh(new) /\ new.path = s.path /\ Parent(p, s.path)
       /\ \/ ~new.dir /\ s.writes = Writes({new}, {}, {})
          \/ new.dir /\ new.nlink = 2 /\ s.writes = Writes({new}, {Linked(p, 1)}, {})
  BY <1>1, Zenon DEF Inserting
<1>4. PICK w : w = session[c].writes  OBVIOUS
<1>5. Table  BY DEF IInv, Keys
<1>6. Known(p) /\ p.dir /\ p.path = getParentPath(new.path) /\ Stub(p) /\ Row(p)
  BY <1>3 DEF Parent, Known, Stub, Held
<1>7. p.path \in Locks(s)  BY <1>2, <1>3, <1>6 DEF Locks
<1>8. OneMount => p \in db  BY <1>6 DEF Known
<1>9. PICK u : u = Linked(p, 1)  OBVIOUS
<1>10. Stub(u) /\ SameFile(u, p)  BY <1>6, <1>9, LinkedRow
<1>11. w.insert = {new} /\ w.delete = {}
       /\ ((~new.dir /\ w.update = {}) \/ (new.dir /\ new.nlink = 2 /\ w.update = {u}))
  <2>1. CASE ~new.dir /\ s.writes = Writes({new}, {}, {})
    <3>1. w = Writes({new}, {}, {})  BY <1>1, <1>4, <2>1
    <3>2. w.insert = {new} /\ w.update = {} /\ w.delete = {}  BY <3>1 DEF Writes
    <3> QED  BY <2>1, <3>2
  <2>2. CASE new.dir /\ new.nlink = 2 /\ s.writes = Writes({new}, {u}, {})
    <3>1. w = Writes({new}, {u}, {})  BY <1>1, <1>4, <2>2
    <3>2. w.insert = {new} /\ w.update = {u} /\ w.delete = {}  BY <3>1 DEF Writes
    <3> QED  BY <2>2, <3>2
  <2> QED  BY <1>3, <1>9, <2>1, <2>2
<1>12. Proper(w)  BY <1>3, <1>10, <1>11 DEF Proper
<1>13. Merge(w)  BY <1>4, <1>5, <1>12, CommitMerges
<1>14. Within(w, Locks(s))  BY <1>6, <1>7, <1>10, <1>11 DEF Within, SameFile
<1>15. ASSUME OneMount PROVE Tree'
  <2>1. Tree /\ TreeComplete  BY <1>15 DEF IInv, Tree
  <2>2. \A x \in w.insert : \E q \in db : q.path = getParentPath(x.path) /\ q.dir
    BY <1>6, <1>8, <1>11, <1>15
  <2>3. TreeComplete'  BY <1>5, <1>11, <1>12, <1>13, <2>1, <2>2, MergeComplete
  <2>4. CASE ~new.dir
    <3>1. \A x \in w.insert : ~x.dir  BY <1>11, <2>4
    <3>2. w.update = {} /\ w.delete = {}  BY <1>11, <2>4
    <3> QED  BY <1>5, <1>12, <1>13, <2>1, <2>3, <3>1, <3>2, TreeOfUpdate
  <2>5. CASE new.dir
    <3>1. w.insert = {new} /\ w.delete = {} /\ w.update = {Linked(p, 1)} /\ new.nlink = 2
      BY <1>9, <1>11, <2>5
    <3> QED  BY <1>3, <1>5, <1>6, <1>8, <1>12, <1>13, <1>15, <2>1, <2>3, <2>5, <3>1, TreeOfInsert
  <2> QED  BY <2>4, <2>5
<1> QED  BY <1>1, <1>2, <1>4, <1>12, <1>14, <1>15, CommitKeeps

LEMMA RemovingCommits ==
  ASSUME IInv, NEW c \in Clients, Commit(c), Removing(session[c])
  PROVE  IInv'
<1>1. PICK s : s = session[c]  OBVIOUS
<1>2. s.op = "delete"  BY <1>1 DEF Removing
<1>3. PICK r :
       /\ Victim(r, s) /\ (OneMount /\ r.dir => findByParentPath(r.path) = {})
       /\ \/ r.nlink # 1 /\ s.writes = Writes({}, {Linked(r, -1)}, {})
          \/ ~r.dir /\ s.writes = Writes({}, {}, {r})
          \/ r.nlink = 1 /\ r.dir /\ Unlinking(r, s)
  BY <1>1, Zenon DEF Removing
<1>4. PICK w : w = session[c].writes  OBVIOUS
<1>5. Table  BY DEF IInv, Keys
<1>6. Known(r) /\ r.path = s.path /\ r.path # ROOT_PATH /\ Stub(r) /\ Row(r)
  BY <1>3 DEF Victim, Known, Stub, Held
<1>7. r.path \in Locks(s) /\ getParentPath(r.path) \in Locks(s)  BY <1>2, <1>6 DEF Locks
<1>8. OneMount => Tree /\ TreeComplete  BY DEF IInv, Tree
<1>9. CASE r.nlink # 1 /\ s.writes = Writes({}, {Linked(r, -1)}, {})
  <2>1. PICK u : u = Linked(r, -1)  OBVIOUS
  <2>2. Stub(u) /\ SameFile(u, r) /\ u.nlink = r.nlink + (-1)  BY <1>6, <2>1, LinkedRow
  <2>3. w.insert = {} /\ w.delete = {} /\ w.update = {u}  BY <1>1, <1>4, <1>9, <2>1 DEF Writes
  <2>4. Proper(w)  BY <2>2, <2>3 DEF Proper
  <2>5. Merge(w)  BY <1>4, <1>5, <2>4, CommitMerges
  <2>6. Within(w, Locks(s))  BY <1>7, <2>2, <2>3 DEF Within, SameFile
  <2>7. ASSUME OneMount PROVE Tree'
    <3>1. TreeComplete'  BY <1>5, <1>8, <2>3, <2>4, <2>5, <2>7, MergeComplete
    <3>2. ASSUME u.dir
          PROVE  findByParentPath(u.path) = {} /\ u.path # ROOT_PATH /\ u.nlink \in {1, 2}
      <4>1. r.dir /\ u.path = r.path  BY <2>2, <3>2 DEF SameFile
      <4>2. r \in db /\ findByParentPath(r.path) = {}  BY <1>3, <1>6, <2>7, <4>1 DEF Known
      <4>3. Own(r) \in {1, 2}  BY <1>8, <2>7, <4>1, <4>2 DEF Tree
      <4>4. PICK path : path = r.path  OBVIOUS
      <4>5. Subs(path) = {}  BY <4>2, <4>4 DEF Subs, findByParentPath
      <4>6. Cardinality(Subs(path)) = 0  BY <4>5, FS_EmptySet
      <4>7. r.nlink \in Int  BY <1>6, TypedRow
      <4>8. r.nlink \in {1, 2}  BY <4>3, <4>4, <4>6, <4>7 DEF Own
      <4> QED  BY <1>6, <1>9, <2>2, <4>1, <4>2, <4>8
    <3>3. \A x \in w.update : x.dir => /\ findByParentPath(x.path) = {} /\ x.path # ROOT_PATH
                                       /\ x.nlink \in {1, 2}
      BY <2>3, <3>2
    <3>4. (\A x \in w.insert : ~x.dir) /\ (\A x \in w.delete : ~x.dir)  BY <2>3
    <3> QED  BY <1>5, <1>8, <2>4, <2>5, <2>7, <3>1, <3>3, <3>4, TreeOfUpdate
  <2>8. w.insert = {}  BY <2>3
  <2> QED  BY <1>1, <1>4, <2>4, <2>6, <2>7, <2>8, CommitKeeps
<1>10. CASE ~r.dir /\ s.writes = Writes({}, {}, {r})
  <2>1. w.insert = {} /\ w.delete = {r} /\ w.update = {}  BY <1>1, <1>4, <1>10 DEF Writes
  <2>2. Proper(w)  BY <1>6, <2>1 DEF Proper
  <2>3. Merge(w)  BY <1>4, <1>5, <2>2, CommitMerges
  <2>4. Within(w, Locks(s))  BY <1>7, <2>1 DEF Within
  <2>5. ASSUME OneMount PROVE Tree'
    <3>1. \A x \in w.delete : ~x.dir  BY <1>10, <2>1
    <3>2. TreeComplete'  BY <1>5, <1>8, <2>1, <2>2, <2>3, <2>5, <3>1, MergeComplete
    <3>3. w.insert = {} /\ w.update = {}  BY <2>1
    <3> QED  BY <1>5, <1>8, <2>2, <2>3, <2>5, <3>1, <3>2, <3>3, TreeOfUpdate
  <2>6. w.insert = {}  BY <2>1
  <2> QED  BY <1>1, <1>4, <2>2, <2>4, <2>5, <2>6, CommitKeeps
<1>11. CASE ~OneMount /\ s.writes = Writes({}, {}, {r})
  <2>1. w.insert = {} /\ w.delete = {r} /\ w.update = {}  BY <1>1, <1>4, <1>11 DEF Writes
  <2>2. Proper(w)  BY <1>6, <2>1 DEF Proper
  <2>3. w.insert = {}  BY <2>1
  <2> QED  BY <1>4, <1>11, <2>2, <2>3, CommitKeeps
<1>12. ASSUME r.dir, NEW p, Known(p), p.path = getParentPath(s.path), OneMount => p.dir,
              s.writes = Writes({}, {Linked(p, -1)}, {r})
       PROVE  IInv'
  <2>1. PICK u : u = Linked(p, -1)  OBVIOUS
  <2>2. Stub(u) /\ SameFile(u, p)  BY <1>12, <2>1, LinkedRow DEF Known, Stub, Held
  <2>3. w.insert = {} /\ w.delete = {r} /\ w.update = {u}  BY <1>1, <1>4, <1>12, <2>1 DEF Writes
  <2>4. r.path \in Paths  BY <1>6, TypedRow
  <2>5. u.path # r.path  BY <1>6, <1>12, <2>2, <2>4, ParentType DEF SameFile
  <2>6. Proper(w)  BY <1>6, <2>2, <2>3, <2>5 DEF Proper
  <2>7. Merge(w)  BY <1>4, <1>5, <2>6, CommitMerges
  <2>8. Within(w, Locks(s))  BY <1>6, <1>7, <1>12, <2>2, <2>3 DEF Within, SameFile
  <2>9. ASSUME OneMount PROVE Tree'
    <3>1. r \in db /\ p \in db /\ p.dir /\ findByParentPath(r.path) = {}
      BY <1>3, <1>6, <1>12, <2>9 DEF Known
    <3>2. (\A x \in w.delete : x.dir => findByParentPath(x.path) = {}) /\ w.insert = {}
      BY <2>3, <3>1
    <3>3. TreeComplete'  BY <1>5, <1>8, <2>6, <2>7, <2>9, <3>2, MergeComplete
    <3>4. w.delete = {r} /\ w.update = {Linked(p, -1)} /\ p.path = getParentPath(r.path)
      BY <1>6, <1>12, <2>1, <2>3
    <3> QED  BY <1>5, <1>6, <1>8, <1>12, <2>6, <2>7, <2>9, <3>1, <3>2, <3>3, <3>4, TreeOfRemoval
  <2>10. w.insert = {}  BY <2>3
  <2> QED  BY <1>1, <1>4, <2>6, <2>8, <2>9, <2>10, CommitKeeps
<1>13. CASE r.dir /\ Unlinking(r, s)
  BY <1>11, <1>12, <1>13, Zenon DEF Unlinking
<1> QED  BY <1>3, <1>9, <1>10, <1>13

LEMMA CommitStep == ASSUME IInv, NEW c \in Clients, Commit(c) PROVE IInv'
<1>1. SessionOK(session[c]) /\ session[c].step = "commit"
  BY DEF IInv, Keys, Sessions, Commit, At
<1>2. PICK s : s = session[c]  OBVIOUS
<1>3. Inserting(s) \/ Removing(s) \/ Storing(s) \/ Copying(s)
  BY <1>1, <1>2, AtCommit
<1> QED  BY <1>2, <1>3, InsertingCommits, RemovingCommits, StoringCommits, CopyingRefused

-----------------------------------------------------------------------------
(***************************************************************************)
(* The invariant holds, and with it the properties.                        *)
(***************************************************************************)

LEMMA RootRow == Row(Root) /\ Root.path = ROOT_PATH /\ Root.dir /\ Root.id = 0 /\ Root.nlink = 2 /\ Root.ino = ROOT_INO
<1>1. ROOT_PATH \in Paths
  <2>1. 0 \in 0 .. MaxDepth  BY ServerAssumption
  <2>2. <<>> \in [1 .. 0 -> Names]  OBVIOUS
  <2> QED  BY <2>1, <2>2 DEF Paths, SeqOf, ROOT_PATH
<1>2. <<>> \in Texts
  <2>1. 0 \in 0 .. MaxSize  BY ServerAssumption
  <2>2. <<>> \in [1 .. 0 -> Bytes \cup {Zero}]  OBVIOUS
  <2> QED  BY <2>1, <2>2 DEF Texts, SeqOf
<1>3. /\ Root.path = ROOT_PATH /\ Root.dir /\ Root.id = 0 /\ Root.nlink = 2 /\ Root.ino = ROOT_INO
      /\ Root.parentPath = ROOT_PATH /\ Root.size = 0 /\ Root.data = <<>>
  BY DEF Root
<1>4. Root \in FileEntry  BY <1>1, <1>2 DEF Root, FileEntry, ROOT_INO
<1> QED  BY <1>3, <1>4 DEF Row, getParentPath, ROOT_INO

LEMMA Starts == Init => IInv
<1> SUFFICES ASSUME Init PROVE IInv
  OBVIOUS
<1>1. db = {Root} /\ rows = 0 /\ session = [c \in Clients |-> Idle]
  BY DEF Init
<1>2. Sessions
  BY <1>1, IdleSession DEF Sessions
<1>3. Table
  <2>1. IsFiniteSet(db)  BY <1>1, FS_Singleton
  <2>2. Held(Root)  BY <1>1, RootRow DEF Held, ROOT_INO
  <2>3. KeysDiffer  BY <1>1, RootRow DEF KeysDiffer
  <2>4. Creating = {}
    <3>1. Idle.op # "create"  BY DEF Idle
    <3> QED  BY <1>1, <3>1 DEF Creating
  <2>5. Cardinality(Creating) = 0  BY <2>4, FS_EmptySet
  <2>6. rows + Cardinality(Creating) <= MaxRows  BY <1>1, <2>5, ServerAssumption
  <2> QED  BY <1>1, <2>1, <2>2, <2>3, <2>6, RootRow DEF Table
<1>4. LocksApart
  BY <1>1, IdleSession DEF LocksApart
<1>5. Tree
  <2>1. TreeComplete  BY <1>1, RootRow DEF TreeComplete, getParentPath
  <2>2. Subs(ROOT_PATH) = {}  BY <1>1, RootRow DEF Subs
  <2>3. Cardinality(Subs(ROOT_PATH)) = 0  BY <2>2, FS_EmptySet
  <2>4. Own(Root) = 2  BY <2>3, RootRow DEF Own
  <2> QED  BY <1>1, <2>1, <2>4 DEF Tree
<1> QED  BY <1>2, <1>3, <1>4, <1>5 DEF IInv, Keys

LEMMA Invariant == Spec => []IInv
<1>1. IInv /\ [Next]_vars => IInv'
  <2> SUFFICES ASSUME IInv, [Next]_vars PROVE IInv'
    OBVIOUS
  <2>1. CASE UNCHANGED vars
    <3>1. \A s : SessionOK(s) => SessionOK(s)'  BY <2>1, SameSessions DEF vars
    <3>2. session' = session /\ db' = db /\ rows' = rows  BY <2>1 DEF vars
    <3>3. Sessions'
      <4>1. ASSUME NEW c \in Clients PROVE SessionOK(session[c])'
        <5>1. PICK t : t = session[c]  OBVIOUS
        <5>2. SessionOK(t)  BY <5>1 DEF IInv, Keys, Sessions
        <5>3. SessionOK(t)'  BY <3>1, <5>2
        <5> QED  BY <3>2, <5>1, <5>3
      <4> QED  BY <3>2, <4>1 DEF IInv, Keys, Sessions
    <3>4. Table'  BY <3>2 DEF IInv, Keys, Table, Held, KeysDiffer, Creating
    <3>5. LocksApart <=> LocksApart'  BY <3>2 DEF LocksApart
    <3>6. Tree <=> Tree'  BY <3>2 DEF Tree, TreeComplete, Own, Subs
    <3> QED  BY <3>3, <3>4, <3>5, <3>6 DEF IInv, Keys
  <2>2. ASSUME NEW c \in Clients, Create(c) PROVE IInv'  BY <2>2, CreateKeeps
  <2>3. ASSUME NEW c \in Clients, CreateNumber(c) PROVE IInv'  BY <2>3, CreateNumberKeeps
  <2>4. ASSUME NEW c \in Clients, Delete(c) PROVE IInv'  BY <2>4, DeleteKeeps
  <2>5. ASSUME NEW c \in Clients, DeleteChildren(c) PROVE IInv'  BY <2>5, DeleteChildrenKeeps
  <2>6. ASSUME NEW c \in Clients, Read(c) PROVE IInv'  BY <2>6, ReadKeeps
  <2>7. ASSUME NEW c \in Clients, Write(c) PROVE IInv'  BY <2>7, WriteKeeps
  <2>8. ASSUME NEW c \in Clients, Link(c) PROVE IInv'  BY <2>8, LinkKeeps
  <2>9. ASSUME NEW c \in Clients, Commit(c) PROVE IInv'  BY <2>9, CommitStep
  <2>10. ASSUME NEW c \in Clients, Rollback(c) PROVE IInv'
    <3>1. Refuse(c)  BY <2>10 DEF Rollback
    <3> QED  BY <3>1, RefuseKeeps
  <2> QED
    BY <2>1, <2>2, <2>3, <2>4, <2>5, <2>6, <2>7, <2>8, <2>9, <2>10, Zenon DEF Next
<1> QED  BY <1>1, Starts, PTL DEF Spec

\* Two entries never have one path or one number, whoever sends the requests
\* and however they interleave: two creates that drew the same number do not
\* both commit, and an entity that is written back whole has kept its keys.
THEOREM KeysAlwaysDiffer == Spec => []KeysDiffer
<1>1. IInv => KeysDiffer  BY DEF IInv, Keys, Table
<1> QED  BY <1>1, Invariant, PTL

\* The rows, and those a transaction has loaded or will write, keep their
\* types; the size of an entry is the length of its bytes, also after a write
\* that overwrote what another had committed.
THEOREM TypesHold == Spec => []TypeOK
<1>1. IInv => TypeOK
  <2> SUFFICES ASSUME IInv PROVE TypeOK
    OBVIOUS
  <2>1. (\A r \in db : r.size = Len(r.data)) /\ db \subseteq FileEntry
    BY DEF IInv, Keys, Table, Held, Row
  <2>2. rows \in 0 .. MaxRows
    BY CreatingFinite, ServerAssumption DEF IInv, Keys, Table
  <2>3. ASSUME NEW c \in Clients
        PROVE  /\ session[c].loaded \subseteq FileEntry
               /\ session[c].writes.insert \cup session[c].writes.update
                    \cup session[c].writes.delete \subseteq FileEntry
    <3>1. PICK s : s = session[c]  OBVIOUS
    <3>2. SessionOK(s)  BY <3>1 DEF IInv, Keys, Sessions
    <3>3. \A r : Known(r) => r \in FileEntry /\ Row(r)  BY DEF Known, Stub, Held, Row
    <3>4. \A r : Fresh(r) => r \in FileEntry  BY DEF Fresh, Row
    <3>5. \A r, n : Known(r) /\ n \in Int => Linked(r, n) \in FileEntry
      BY <3>3, LinkedRow DEF Row
    <3>6. s.writes = Nothing => s.writes = Writes({}, {}, {})  BY DEF Nothing, Writes
    <3>7. \E insert, update, delete \in SUBSET FileEntry :
            s.writes = Writes(insert, update, delete) /\ s.loaded \subseteq FileEntry
      <4>1. CASE s = Idle
        BY <4>1, <3>6 DEF Idle
      <4>2. CASE Numbering(s)
        BY <4>2, <3>3, <3>6 DEF Numbering, Parent
      <4>3. CASE Inserting(s)
        <5>1. PICK new, p :
               /\ Fresh(new) /\ Parent(p, s.path)
               /\ \/ s.writes = Writes({new}, {}, {})
                  \/ s.writes = Writes({new}, {Linked(p, 1)}, {})
          BY <4>3, Zenon DEF Inserting
        <5>2. new \in FileEntry /\ Linked(p, 1) \in FileEntry  BY <5>1, <3>4, <3>5 DEF Parent
        <5>3. s.loaded = {}  BY <4>3 DEF Inserting
        <5> QED  BY <5>1, <5>2, <5>3
      <4>4. CASE Deleting(s)
        BY <4>4, <3>3, <3>6 DEF Deleting, Victim
      <4>5. CASE Removing(s)
        <5>1. s.loaded = {}  BY <4>5 DEF Removing
        <5>2. PICK r :
               /\ Victim(r, s)
               /\ \/ s.writes = Writes({}, {Linked(r, -1)}, {})
                  \/ s.writes = Writes({}, {}, {r})
                  \/ Unlinking(r, s)
          BY <4>5, Zenon DEF Removing
        <5>3. r \in FileEntry /\ Linked(r, -1) \in FileEntry  BY <5>2, <3>3, <3>5 DEF Victim
        <5>4. \A p : Known(p) => Linked(p, -1) \in FileEntry  BY <3>5
        <5>5. CASE Unlinking(r, s)
          <6>1. CASE s.writes = Writes({}, {}, {r})
            BY <5>1, <5>3, <6>1
          <6>2. ASSUME NEW p, Known(p), s.writes = Writes({}, {Linked(p, -1)}, {r})
                PROVE  \E insert, update, delete \in SUBSET FileEntry :
                         s.writes = Writes(insert, update, delete) /\ s.loaded \subseteq FileEntry
            <7>1. {} \in SUBSET FileEntry /\ {Linked(p, -1)} \in SUBSET FileEntry /\ {r} \in SUBSET FileEntry
              BY <5>3, <5>4, <6>2
            <7> QED  BY <5>1, <6>2, <7>1
          <6> QED  BY <5>5, <6>1, <6>2, Zenon DEF Unlinking
        <5> QED  BY <5>1, <5>2, <5>3, <5>5
      <4>6. CASE Storing(s)
        BY <4>6, <3>3 DEF Storing
      <4>7. CASE Copying(s)
        BY <4>7, <3>3, <3>4 DEF Copying
      <4> QED  BY <3>2, <4>1, <4>2, <4>3, <4>4, <4>5, <4>6, <4>7, Zenon DEF SessionOK
    <3> QED  BY <3>1, <3>7 DEF Writes
  <2> QED  BY <2>1, <2>2, <2>3 DEF TypeOK
<1> QED  BY <1>1, Invariant, PTL

\* With one mount every entry is in a directory that is there: the removal
\* of a directory and a create in it, or of it, do not interleave, because the
\* module holds the locks of their inodes until the answer.
THEOREM TreeAlwaysComplete == ASSUME OneMount PROVE Spec => []TreeComplete
<1>1. IInv => TreeComplete  BY DEF IInv, Tree
<1> QED  BY <1>1, Invariant, PTL

\* With one mount the links of a directory count its subdirectories: no two
\* transactions that have loaded the same parent both write it back.
THEOREM DirLinksCounted == ASSUME OneMount PROVE Spec => []DirLinks
<1>1. IInv => DirLinks  BY TreeIs DEF IInv, Keys
<1> QED  BY <1>1, Invariant, PTL

=============================================================================
