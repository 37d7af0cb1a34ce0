---------------------------- MODULE VtfsInodeOps ----------------------------
(***************************************************************************)
(* The inode operations of module/inode_ops.c run by several threads over  *)
(* the one store.  A handler is cut where it can be interleaved: one step  *)
(* per critical section of storage.c, one for the request to the server,   *)
(* one for the unlocked store to entry->nlink in vtfs_mkdir and one for    *)
(* vtfs_get_inode.  Between two steps a handler keeps raw entry pointers.  *)
(*                                                                         *)
(* The locks are the caller's: the VFS holds the directory's i_rwsem over  *)
(* every handler (shared for lookup), the victim's over unlink and rmdir,  *)
(* the source's over link.  They belong to struct inodes.  vtfs_get_inode  *)
(* makes a fresh one for every lookup (new_inode), so each mount, and each *)
(* name of a file, has its own: two names of one file do not exclude each  *)
(* other.  (After link the two names share an inode until one is dropped   *)
(* from the dcache and looked up again; while they do they only exclude    *)
(* each other more.)                                                       *)
(***************************************************************************)
EXTENDS VtfsStore

CONSTANTS
  Procs,        \* threads in system calls
  Mounts        \* the superblocks mounted over the one store

VARIABLES
  call,         \* what each thread is doing
  miscounted    \* history: the files, by number, whose links were counted
                \* from a name that another link had not counted yet

vars == <<all_entries, entry, next_ino, allocs, call, miscounted>>

Ops == {"create", "mkdir", "link", "unlink", "rmdir", "lookup"}
Steps == {"idle", "find", "check", "fetch", "insert", "init_nlink", "get_inode",
          "add_link", "delete", "undefined"}

\* The struct inode a mount has for an entry, to lock it.
NoInode == [mount |-> NULL, entry |-> NULL]
Inode(m, e) == [mount |-> m, entry |-> e]

Inodes == [mount: Mounts \cup {NULL}, entry: Pointer \cup {NULL}]

Call == [op: Ops \cup {"none"}, step: Steps,
         dir: Inodes,                    \* the parent's inode, locked
         node: Inodes,                   \* the second inode locked, if any
         name: Names \cup {NoName},
         parent: Pointer \cup {NULL},    \* the locals of the handler
         child: Pointer \cup {NULL},
         target: Pointer \cup {NULL},
         ino: Nat,                       \* the number a link passes on
         isdir: BOOLEAN]                 \* the type of what is created

Idle == [op |-> "none", step |-> "idle", dir |-> NoInode, node |-> NoInode,
         name |-> NoName, parent |-> NULL, child |-> NULL, target |-> NULL,
         ino |-> 0, isdir |-> FALSE]

TypeOK ==
  /\ all_entries \subseteq Pointer
  /\ entry \in [Pointer -> Entry]
  /\ next_ino \in Nat
  /\ allocs \in Pointer
  /\ call \in [Procs -> Call]
  /\ miscounted \subseteq Nat

Init == StoreInit /\ call = [p \in Procs |-> Idle] /\ miscounted = {}

-----------------------------------------------------------------------------
(***************************************************************************)
(* Entry into a handler: the VFS takes the inode locks, the handler finds  *)
(* its parent, and its link target, by inode number.                       *)
(***************************************************************************)

\* The locks of the two calls cannot be held together.  Two lookups share the
\* directory; the dcache lets one lookup of a name run at a time.
Conflict(c, d) ==
  \/ c.dir = d.dir /\ ~(c.op = "lookup" /\ d.op = "lookup" /\ c.name # d.name)
  \/ c.node # NoInode /\ c.node \in {d.dir, d.node}
  \/ d.node # NoInode /\ d.node = c.dir

\* A dentry of the mount can lead to the entry: none of its handlers has yet to
\* give the entry an inode, or is taking it away.
Visible(m, e) == \A q \in Procs : call[q].child = e => call[q].dir.mount # m

Begin(p, c) ==
  /\ call[p] = Idle
  /\ c.parent # NULL /\ (c.op = "link" => c.target # NULL)  \* else ENOENT
  /\ \A q \in Procs : ~Conflict(c, call[q])
  /\ call' = [call EXCEPT ![p] = c]
  /\ UNCHANGED <<store_vars, miscounted>>

NewCall(op, step, m, d, n) ==
  [op |-> op, step |-> step, dir |-> Inode(m, d), node |-> NoInode, name |-> n,
   parent |-> vtfs_storage_get_by_ino(entry[d].ino), child |-> NULL,
   target |-> NULL, ino |-> 0, isdir |-> (op = "mkdir")]

BeginCreate(p) ==
  /\ next_ino < MaxIno
  /\ \E m \in Mounts, d \in Dirs, n \in Names, op \in {"create", "mkdir"} :
        Visible(m, d) /\ Begin(p, NewCall(op, "check", m, d, n))

BeginLookup(p) ==
  \E m \in Mounts, d \in Dirs, n \in Names :
    Visible(m, d) /\ Begin(p, NewCall("lookup", "find", m, d, n))

\* The VFS calls unlink for a name that is not a directory, rmdir for one that
\* is, and locks the victim too.
BeginRemove(p) ==
  \E m \in Mounts, e \in all_entries \ {root} :
    Visible(m, e) /\
    Begin(p, [NewCall(IF entry[e].dir THEN "rmdir" ELSE "unlink", "find",
                      m, entry[e].parent, entry[e].name)
              EXCEPT !.node = Inode(m, e)])

BeginLink(p) ==
  \E m \in Mounts, e \in Files, d \in Dirs, n \in Names :
    Visible(m, e) /\ Visible(m, d) /\
    Begin(p, [NewCall("link", "check", m, d, n)
              EXCEPT !.node = Inode(m, e),
                     !.target = vtfs_storage_get_by_ino(entry[e].ino)])

-----------------------------------------------------------------------------
(***************************************************************************)
(* The steps of the handlers.                                              *)
(***************************************************************************)
At(p, step) == call[p].step = step
Goto(p, step) == call' = [call EXCEPT ![p].step = step]
GotoWith(p, step, child) ==
  call' = [call EXCEPT ![p].step = step, ![p].child = child]
Return(p) == call' = [call EXCEPT ![p] = Idle]

\* vtfs_link reads its target's number, then its data and count, without the
\* lock; unlink of that name through its own inode may have freed the target.
UsesTarget(p) ==
  call[p].op = "link" /\ call[p].step \in {"check", "add_link"}
TargetFreed(p) == UsesTarget(p) /\ call[p].target \notin all_entries

\* What the kernel does after a use of freed memory is not defined: the model
\* begins nothing after it.
Undefined(p) ==
  /\ TargetFreed(p)
  /\ Goto(p, "undefined")
  /\ UNCHANGED <<store_vars, miscounted>>

\* Mutant: vtfs_rmdir does not ask whether the directory is empty.
FindVictimUnchecked(p) ==
  LET c == call[p]
      victim == vtfs_storage_lookup(c.parent, c.name)
  IN  /\ At(p, "find") /\ c.op \in {"unlink", "rmdir"}
      /\ victim # NULL /\ GotoWith(p, "delete", victim)
      /\ UNCHANGED <<store_vars, miscounted>>

\* vtfs_unlink, vtfs_rmdir: find the name, ask whether it may go.
FindVictim(p) ==
  LET c == call[p]
      victim == vtfs_storage_lookup(c.parent, c.name)
  IN  /\ At(p, "find") /\ c.op \in {"unlink", "rmdir"}
      /\ \/ /\ victim # NULL
            /\ c.op = "rmdir" => entry[victim].dir
            /\ MayDelete(victim)
            /\ GotoWith(p, "delete", victim)
         \/ /\ \/ victim = NULL
               \/ c.op = "rmdir" /\ ~entry[victim].dir
               \/ ~MayDelete(victim)
            /\ Return(p)
      /\ UNCHANGED <<store_vars, miscounted>>

\* vtfs_lookup: a name the store has needs an inode, another one is asked for.
FindChild(p) ==
  LET c == call[p]
      child == vtfs_storage_lookup(c.parent, c.name)
  IN  /\ At(p, "find") /\ c.op = "lookup"
      /\ IF child # NULL THEN GotoWith(p, "get_inode", child)
                         ELSE Goto(p, "fetch")
      /\ UNCHANGED <<store_vars, miscounted>>

\* fetch_from_remote: the server knows a file or a directory of that name ...
FetchFound(p) ==
  /\ At(p, "fetch") /\ next_ino < MaxIno
  /\ \E isdir \in BOOLEAN :
       call' = [call EXCEPT ![p].step = "check", ![p].isdir = isdir]
  /\ UNCHANGED <<store_vars, miscounted>>

\* ... or it knows nothing, or cannot be reached: a negative dentry.
FetchNothing(p) ==
  At(p, "fetch") /\ Return(p) /\ UNCHANGED <<store_vars, miscounted>>

\* The inode number passed to create_entry_internal: the target's for a link.
InoArgument(c) == IF c.op = "link" THEN entry[c.target].ino ELSE 0

\* Mutant: the name is not looked up before it is inserted.
CheckNothing(p) ==
  /\ At(p, "check") /\ ~TargetFreed(p)
  /\ call' = [call EXCEPT ![p].step = "insert", ![p].ino = InoArgument(call[p])]
  /\ UNCHANGED <<store_vars, miscounted>>

\* create_entry_internal, before it takes the lock for good: the name is free.
CheckName(p) ==
  LET c == call[p] IN
  /\ At(p, "check") /\ ~TargetFreed(p)
  /\ IF entry[c.parent].dir /\ vtfs_storage_lookup(c.parent, c.name) = NULL
     THEN call' = [call EXCEPT ![p].step = "insert", ![p].ino = InoArgument(c)]
     ELSE Return(p)
  /\ UNCHANGED <<store_vars, miscounted>>

AfterInsert(op) ==
  CASE op = "mkdir" -> "init_nlink"
    [] op = "link" -> "add_link"
    [] OTHER -> "get_inode"

Insert(p) ==
  LET c == call[p] IN
  /\ At(p, "insert")
  /\ InsertEntry(c.parent, c.name, c.isdir, c.ino)
  /\ GotoWith(p, AfterInsert(c.op), allocs + 1)
  /\ UNCHANGED miscounted

InsertNoMemory(p) ==
  /\ At(p, "insert")
  /\ InsertFails(call[p].ino)
  /\ Return(p)
  /\ UNCHANGED miscounted

\* vtfs_mkdir: entry->nlink = 2, without the lock, after the server answered.
InitNlink(p) ==
  /\ At(p, "init_nlink")
  /\ entry' = [entry EXCEPT ![call[p].child].nlink = 2]
  /\ Goto(p, "get_inode")
  /\ UNCHANGED <<all_entries, next_ino, allocs, miscounted>>

GetInode(p) ==
  At(p, "get_inode") /\ Return(p) /\ UNCHANGED <<store_vars, miscounted>>

\* Mutant: vtfs_lookup takes its entry out again too.
GetInodeAlwaysRollsBack(p) ==
  /\ At(p, "get_inode")
  /\ IF MayDelete(call[p].child) THEN Goto(p, "delete") ELSE Return(p)
  /\ UNCHANGED <<store_vars, miscounted>>

\* vtfs_get_inode returned NULL: create and mkdir take their entry out again.
GetInodeNoMemory(p) ==
  /\ At(p, "get_inode")
  /\ IF call[p].op \in {"create", "mkdir"} /\ MayDelete(call[p].child)
     THEN Goto(p, "delete")
     ELSE Return(p)
  /\ UNCHANGED <<store_vars, miscounted>>

\* Links inserted by create_entry_internal that add_link has yet to count.
Pending == {call[p].child : p \in {q \in Procs :
              call[q].op = "link" /\ call[q].step \in {"add_link", "undefined"}}}

\* vtfs_link after the insertion.  The target is a file, so it cannot fail.
FinishLink(p) ==
  LET target == call[p].target IN
  /\ At(p, "add_link") /\ ~TargetFreed(p)
  /\ AddLink(target)
  /\ miscounted' = miscounted \cup {entry[e].ino : e \in {target} \cap Pending}
  /\ Return(p)

Delete(p) ==
  /\ At(p, "delete")
  /\ DeleteEntry(call[p].child)
  /\ Return(p)
  /\ UNCHANGED miscounted

-----------------------------------------------------------------------------
Step(p) ==
  \/ FindVictim(p) \/ FindChild(p) \/ FetchFound(p) \/ FetchNothing(p)
  \/ CheckName(p) \/ Insert(p) \/ InsertNoMemory(p) \/ InitNlink(p)
  \/ GetInode(p) \/ GetInodeNoMemory(p) \/ FinishLink(p) \/ Delete(p)
  \/ Undefined(p)

Next ==
  \E p \in Procs : (\A q \in Procs : ~At(q, "undefined")) /\
    \/ BeginCreate(p) \/ BeginLookup(p) \/ BeginRemove(p) \/ BeginLink(p)
    \/ Step(p)

Spec == Init /\ [][Next]_vars

-----------------------------------------------------------------------------
(***************************************************************************)
(* What must be true of the store at every moment.                         *)
(***************************************************************************)

\* A directory never has two entries of one name: what the lookup in
\* create_entry_internal is for, although the lock is dropped before the entry
\* is inserted.
UniqueNames ==
  \A e, f \in all_entries \ {root} :
    entry[e].parent = entry[f].parent /\ entry[e].name = entry[f].name => e = f

\* Every entry hangs below a live directory that is older than itself, so the
\* parent pointers that build_path follows lead to the root: no directory is
\* removed while a handler is about to insert into it.
WellFormedTree ==
  /\ root \in all_entries /\ entry[root].dir /\ entry[root].ino = VTFS_ROOT_INO
  /\ \A e \in all_entries \ {root} :
       /\ entry[e].parent \in Dirs
       /\ entry[e].parent < e

\* Two live entries with one inode number are names of one file; a directory's
\* number is its own, and no number has been given out ahead of the counter.
InoDiscipline ==
  /\ \A e \in all_entries : entry[e].ino \in VTFS_ROOT_INO .. next_ino - 1
  /\ \A e, f \in all_entries :
       entry[e].ino = entry[f].ino /\ e # f => e \in Files /\ f \in Files

\* The nlink of every name of a file is the number of its names, those apart
\* that a vtfs_link between its two critical sections has yet to count, also
\* when another name is removed at that moment: unlink and link of two names
\* hold no lock in common.  Only a link counted from a name that was itself not
\* counted yet leaves the number wrong.
LinkCounts ==
  \A e \in Files \ Pending :
    entry[e].ino \notin miscounted =>
      entry[e].nlink = Cardinality(WithIno(entry[e].ino) \ Pending)

\* The nlink of a directory is its subdirectories plus two; plus one if it was
\* fetched from the server, or while vtfs_mkdir has not stored the two yet.
\* The unlocked store of vtfs_mkdir loses no subdirectory.
DirLinkCounts ==
  \A d \in Dirs :
    LET own == entry[d].nlink - Cardinality(Children(d) \cap Dirs)
    IN  own \in {1, 2} /\ (d = root => own = 2)

\* The directory and the child that a handler found in one critical section and
\* uses in a later one, or walks up from to build a path, have not been freed in
\* between.  (The target of a link is not covered: see TargetFreed.)
LivePointers ==
  \A p \in Procs :
    {call[p].parent, call[p].child} \subseteq all_entries \cup {NULL}

\* The child a handler is about to free is free to go when it is freed: no
\* entry has been created in it since the emptiness check made without the
\* lock, and no other handler is at work in it or on it.
DeleteIsSafe ==
  \A p \in Procs : At(p, "delete") =>
    /\ MayDelete(call[p].child)
    /\ \A q \in Procs \ {p} : call[p].child \notin {call[q].parent, call[q].child}

\* A new entry takes a number from the counter or that of a file that is there
\* now, and the counter never goes back: a number whose last name is gone does
\* not return to serve another file.
NumbersFreshStep ==
  /\ next_ino <= next_ino'
  /\ \A e \in all_entries' \ all_entries :
       entry'[e].ino \in (next_ino .. next_ino' - 1) \cup {entry[f].ino : f \in Files}
NumbersFresh == [][NumbersFreshStep]_vars

-----------------------------------------------------------------------------
\* The namespace as seen by one who knows the entries only by their numbers.
NameOf(e) ==
  [dir |-> entry[entry[e].parent].ino, name |-> entry[e].name,
   ino |-> entry[e].ino, isdir |-> entry[e].dir]

Namespace == INSTANCE VtfsNamespace
  WITH names <- {NameOf(e) : e \in all_entries \ {root}}, counter <- next_ino

\* However the threads interleave, what they do to the names is one create,
\* link or remove after the other, each on the namespace as it is at that
\* moment: an entry appears where the name is free and the directory is there,
\* and a directory goes only when it is empty.
ImplementsNamespace == Namespace!Spec

=============================================================================
