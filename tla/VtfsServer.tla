------------------------------ MODULE VtfsServer ------------------------------
(***************************************************************************)
(* The server of vtfs: the requests of FileSystemService.kt that change    *)
(* something, each a transaction over one table of entries, several at a   *)
(* time.                                                                   *)
(*                                                                         *)
(* The database runs them at its default level, READ COMMITTED: a query    *)
(* sees what has been committed by then, and an entity that was loaded is  *)
(* not read again.  An entity that changed is written back whole, found by *)
(* its id, when the transaction commits: what others committed to that row *)
(* in between is overwritten.  A commit that breaks a unique column, or    *)
(* whose row is gone, is rolled back and answered with status 500.         *)
(*                                                                         *)
(* A path is the sequence of its names, already normalised; the type of an *)
(* entry is a file or a directory (the rest is refused before any query).  *)
(***************************************************************************)
EXTENDS Integers, Sequences, FiniteSets, FiniteSetsExt, SequencesExt

CONSTANTS
  Clients,    \* requests the server has under way at one time
  Names,      \* the names in a path
  Bytes,      \* the bytes of a file
  OneMount,   \* TRUE: the requests come from one mount of the module, which
              \* holds the locks of the directories it changes while it waits
              \* for the answer; FALSE: from anybody
  MaxDepth,   \* bound: names in a path
  MaxSize,    \* bound: bytes in a file
  MaxRows     \* bound: rows ever inserted, the root not counted

ASSUME ServerAssumption ==
  IsFiniteSet(Clients) /\ OneMount \in BOOLEAN /\ {MaxDepth, MaxSize, MaxRows} \subseteq Nat

VARIABLES
  db,       \* the committed rows
  rows,     \* how many ids the database has given out
  session   \* what the transaction of each client has read and will write

vars == <<db, rows, session>>

ROOT_PATH == <<>>
ROOT_INO == 1000
Zero == "zero"

Paths == SeqOf(Names, MaxDepth)
getParentPath(path) == IF path = ROOT_PATH THEN ROOT_PATH ELSE Front(path)

Texts == SeqOf(Bytes \cup {Zero}, MaxSize)
FileEntry == [id: Nat, path: Paths, ino: Nat, dir: BOOLEAN, nlink: Int,
              size: Nat, data: Texts, parentPath: Paths]

Root == [id |-> 0, path |-> ROOT_PATH, ino |-> ROOT_INO, dir |-> TRUE, nlink |-> 2,
         size |-> 0, data |-> <<>>, parentPath |-> ROOT_PATH]

\* save() of a new entity, save() of a loaded one, delete().
Nothing == [insert |-> {}, update |-> {}, delete |-> {}]

Idle == [op |-> "none", step |-> "idle", path |-> ROOT_PATH, to |-> ROOT_PATH,
         dir |-> FALSE, loaded |-> {}, writes |-> Nothing]

Init == db = {Root} /\ rows = 0 /\ session = [c \in Clients |-> Idle]

-----------------------------------------------------------------------------
(***************************************************************************)
(* The repository.                                                         *)
(***************************************************************************)
findByPath(path) == {r \in db : r.path = path}
existsByPath(path) == findByPath(path) # {}
findByParentPath(path) == {r \in db : r.path # ROOT_PATH /\ r.parentPath = path}

getNextIno == Max({r.ino : r \in db}) + 1

Ids(S) == {r.id : r \in S}

\* Mutant: the column ino is not unique.
UniquePathOnly(w) ==
  /\ Ids(w.update \cup w.delete) \subseteq Ids(db)
  /\ \A new \in w.insert, r \in db : new.path # r.path

\* What a unique column, or a write to a row that is gone, stops.
Committable(w) ==
  /\ Ids(w.update \cup w.delete) \subseteq Ids(db)
  /\ \A new \in w.insert, r \in db : new.path # r.path /\ new.ino # r.ino

-----------------------------------------------------------------------------
(***************************************************************************)
(* Requests.                                                               *)
(***************************************************************************)
At(c, step) == session[c].step = step
Respond(c) == session' = [session EXCEPT ![c] = Idle]

\* The inodes vtfs holds while it waits: the directory, and what is removed.
Locks(s) ==
  CASE s.op = "create" -> {getParentPath(s.path)}
    [] s.op = "delete" -> {getParentPath(s.path), s.path}
    [] s.op = "link"   -> {getParentPath(s.to), s.path}
    [] OTHER           -> {}

\* The transaction of a request has made its first query.  One that is refused
\* by what that finds changes nothing and is left out.
Request(c, s) ==
  /\ At(c, "idle")
  /\ OneMount => \A d \in Clients : Locks(s) \cap Locks(session[d]) = {}
  /\ session' = [session EXCEPT ![c] = s]
  /\ UNCHANGED <<db, rows>>

\* It has asked all it needs and goes on to write.
Saving(op, path, w) == [Idle EXCEPT !.op = op, !.step = "commit", !.path = path, !.writes = w]
Save(c, w) ==
  /\ session' = [session EXCEPT ![c] = Saving(@.op, @.path, w)]
  /\ UNCHANGED <<db, rows>>

Refuse(c) == Respond(c) /\ UNCHANGED <<db, rows>>

\* create: the name is free and the parent is a directory ...
Create(c) ==
  /\ rows + Cardinality({d \in Clients : session[d].op = "create"}) < MaxRows
  /\ \E path \in Paths, dir \in BOOLEAN, parent \in db :
       /\ ~existsByPath(path)
       /\ parent.path = getParentPath(path) /\ parent.dir
       /\ Request(c, [Idle EXCEPT !.op = "create", !.step = "number", !.path = path,
                                  !.dir = dir, !.loaded = {parent}])

\* ... the next number is one more than the greatest in the table.  A new
\* directory is one more link to its parent, as the parent was loaded.
CreateNumber(c) ==
  LET s == session[c]
      new == [id |-> 0, path |-> s.path, ino |-> getNextIno, dir |-> s.dir,
              nlink |-> IF s.dir THEN 2 ELSE 1, size |-> 0, data |-> <<>>,
              parentPath |-> getParentPath(s.path)]
  IN  /\ At(c, "number")
      /\ Save(c, [Nothing EXCEPT
           !.insert = {new},
           !.update = IF s.dir THEN {[r EXCEPT !.nlink = @ + 1] : r \in s.loaded} ELSE {}])

\* delete: the entry is loaded, the root is refused ...
Delete(c) ==
  \E r \in db :
    /\ r.path # ROOT_PATH
    /\ Request(c, [Idle EXCEPT !.op = "delete", !.step = "children",
                               !.path = r.path, !.loaded = {r}])

\* ... a directory must be empty; the entry loses a link, and goes with the
\* last one.  The parent of a directory loses a link then.
\* Mutant: the parent of a directory keeps the link.
UnlinkedAlone(r) ==
  IF r.nlink = 1 THEN [Nothing EXCEPT !.delete = {r}]
                 ELSE [Nothing EXCEPT !.update = {[r EXCEPT !.nlink = @ - 1]}]

Unlinked(r) ==
  IF r.nlink = 1
  THEN [Nothing EXCEPT
         !.delete = {r},
         !.update = IF r.dir
                    THEN {[q EXCEPT !.nlink = @ - 1] : q \in findByPath(r.parentPath)}
                    ELSE {}]
  ELSE [Nothing EXCEPT !.update = {[r EXCEPT !.nlink = @ - 1]}]

\* Mutant: a directory may have entries.
DeleteUnasked(c) ==
  At(c, "children") /\ \E r \in session[c].loaded : Save(c, Unlinked(r))

DeleteChildren(c) ==
  /\ At(c, "children")
  /\ \E r \in session[c].loaded :
       IF r.dir /\ findByParentPath(r.path) # {} THEN Refuse(c)
                                                 ELSE Save(c, Unlinked(r))

Files == {r \in db : ~r.dir}

\* read: a read that returns something stores the access time, and with it
\* the whole row as it was loaded.
Read(c) ==
  \E r \in Files, offset \in 0 .. MaxSize :
    /\ offset < Len(r.data)
    /\ Request(c, Saving("read", r.path, [Nothing EXCEPT !.update = {r}]))

\* Mutant: every write is put at the end.
WrittenAtEnd(data, offset, text) == data \o text

\* The bytes of a file after a write.  One at offset 0 keeps the length but
\* not the bytes of what it does not cover.
Written(data, offset, text) ==
  LET end == offset + Len(text) IN
  [i \in 1 .. Max({end, Len(data)}) |->
     CASE i \in offset + 1 .. end -> text[i - offset]
       [] i \notin offset + 1 .. end /\ offset > 0 /\ i <= Len(data) -> data[i]
       [] OTHER -> Zero]

Stored(r, data) == [r EXCEPT !.data = data, !.size = Len(data)]

Write(c) ==
  \E r \in Files, offset \in 0 .. MaxSize - 1, b \in Bytes :
    LET data == Written(r.data, offset, <<b>>) IN
    Request(c, Saving("write", r.path, [Nothing EXCEPT !.update = {Stored(r, data)}]))

\* link: a copy of the row under the new path, with the number of the old one.
Link(c) ==
  \E old \in Files, to \in Paths, parent \in db :
    /\ ~existsByPath(to)
    /\ parent.path = getParentPath(to) /\ parent.dir
    /\ LET new == [old EXCEPT !.path = to, !.nlink = @ + 1,
                              !.parentPath = getParentPath(to)]
           w == [Nothing EXCEPT !.insert = {new},
                                !.update = {[old EXCEPT !.nlink = @ + 1]}]
       IN  Request(c, [Saving("link", old.path, w) EXCEPT !.to = to])

\* The id of an inserted row is drawn when it is inserted.
Commit(c) ==
  LET w == session[c].writes
      new == {[r EXCEPT !.id = rows + 1] : r \in w.insert}
  IN  /\ At(c, "commit") /\ Committable(w)
      /\ db' = {r \in db : r.id \notin Ids(w.update) \cup Ids(w.delete)} \cup w.update \cup new
      /\ rows' = rows + Cardinality(new)
      /\ Respond(c)

Rollback(c) == At(c, "commit") /\ ~Committable(session[c].writes) /\ Refuse(c)

Next ==
  \E c \in Clients :
    \/ Create(c) \/ CreateNumber(c) \/ Delete(c) \/ DeleteChildren(c)
    \/ Read(c) \/ Write(c) \/ Link(c) \/ Commit(c) \/ Rollback(c)

Spec == Init /\ [][Next]_vars

-----------------------------------------------------------------------------
\* Among the types: the size that stat reports is the length of the bytes.
TypeOK ==
  /\ \A r \in db : r.size = Len(r.data)
  /\ db \subseteq FileEntry /\ rows \in 0 .. MaxRows
  /\ \A c \in Clients :
       /\ session[c].loaded \subseteq FileEntry
       /\ session[c].writes.insert \cup session[c].writes.update
            \cup session[c].writes.delete \subseteq FileEntry

\* The root is there, and every other entry is in a directory that is there:
\* a path of the table can be walked from the root.
TreeComplete ==
  /\ \E r \in db : r.path = ROOT_PATH /\ r.dir
  /\ \A r \in db : \E q \in db : q.path = getParentPath(r.path) /\ q.dir

\* A directory has a link for each subdirectory and two of its own, one once
\* a delete has been answered that left it there: no update of a parent is
\* lost, although it is written back as it was loaded.
DirLinks ==
  \A r \in db : r.dir =>
    LET own == r.nlink - Cardinality({q \in findByParentPath(r.path) : q.dir})
    IN  own \in {1, 2} /\ (r.path = ROOT_PATH => own = 2)

\* Two entries differ in path and in number, and a number is above the root's,
\* also when two transactions have drawn the same one.
KeysDiffer ==
  /\ \A r, q \in db : r.path = q.path \/ r.ino = q.ino => r = q
  /\ \A r \in db : r.path # ROOT_PATH => r.ino > ROOT_INO

\* A read changes no bytes (README.md, the API: read reads a file), in
\* particular none that a write has stored since the read loaded the row.
ReadKeepsBytesStep ==
  \A c \in Clients : session[c].op = "read" /\ Commit(c) =>
    {<<r.id, r.data>> : r \in db'} = {<<r.id, r.data>> : r \in db}
ReadKeepsBytes == [][ReadKeepsBytesStep]_vars

=============================================================================
