------------------------------ MODULE VtfsStore ------------------------------
(***************************************************************************)
(* The in-memory store of module/storage.c: the entries, the list          *)
(* all_entries that holds the live ones, the children lists, the inode     *)
(* number counter, and what each critical section under vtfs_store.lock    *)
(* reads and changes.  File contents are not kept here.                    *)
(*                                                                         *)
(* An entry (a struct vtfs_entry in memory) is the number of the kzalloc   *)
(* that returned it, and a number is never given out twice, so a pointer   *)
(* to a freed entry stays recognisable.  Both lists are filled by list_add *)
(* at the head: a walk meets the entries newest first, by falling number.  *)
(***************************************************************************)
EXTENDS Integers, FiniteSets

CONSTANTS
  Names,        \* the names a directory entry can have
  MaxEntries,   \* bound: how many calls of kzalloc can succeed
  MaxIno        \* bound: no new inode number is asked for from this one on

VARIABLES
  all_entries,  \* the live entries: the members of vtfs_store.all_entries
  entry,        \* the fields of each entry
  next_ino,     \* vtfs_store.next_ino
  allocs        \* how many entries kzalloc has returned, the root not counted

store_vars == <<all_entries, entry, next_ino, allocs>>

NULL == -1
NoName == "none"
RootName == "/"
VTFS_ROOT_INO == 1000
root == 0

ASSUME NamesAssumption == NoName \notin Names /\ RootName \notin Names
ASSUME MaxEntriesAssumption == MaxEntries \in Nat
ASSUME MaxInoAssumption == MaxIno \in Nat

Pointer == 0 .. MaxEntries

\* The fields of a vtfs_entry; dir is S_ISDIR(mode).
Entry == [name: Names \cup {NoName, RootName}, ino: Nat, dir: BOOLEAN,
          nlink: Int, parent: Pointer \cup {NULL}]

\* Memory that no live entry occupies: never allocated, or freed.
NotAnEntry == [name |-> NoName, ino |-> 0, dir |-> FALSE, nlink |-> 0,
               parent |-> NULL]

Root == [name |-> RootName, ino |-> VTFS_ROOT_INO, dir |-> TRUE, nlink |-> 2,
         parent |-> root]

\* vtfs_storage_init: the root entry, its own parent, alone on the list.
StoreInit ==
  /\ all_entries = {root}
  /\ entry = [e \in Pointer |-> IF e = root THEN Root ELSE NotAnEntry]
  /\ next_ino = VTFS_ROOT_INO + 1
  /\ allocs = 0

-----------------------------------------------------------------------------
(***************************************************************************)
(* Walks of the lists.                                                     *)
(***************************************************************************)
Dirs == {e \in all_entries : entry[e].dir}
Files == all_entries \ Dirs

\* The list parent->children; the root is on no children list.
Children(parent) == {e \in all_entries \ {root} : entry[e].parent = parent}

WithIno(ino) == {e \in all_entries : entry[e].ino = ino}

\* The first match of a walk, NULL when nothing matches.
First(S) == IF S = {} THEN NULL ELSE CHOOSE e \in S : \A f \in S : f <= e

vtfs_storage_get_by_ino(ino) == First(WithIno(ino))

vtfs_storage_lookup(parent, name) ==
  First({e \in Children(parent) : entry[e].name = name})

-----------------------------------------------------------------------------
(***************************************************************************)
(* The critical sections that change the store.                            *)
(***************************************************************************)

\* Mutants: the counter never moves; it moves for a link too; the result of
\* kzalloc is linked in unexamined.
InoNeverAdvances(ino) == next_ino
InoAlwaysAdvances(ino) == next_ino + 1

\* create_entry_internal, under the lock: number, allocate, link in.  The
\* number is drawn before the allocation, and a failed one does not return it.
InoAfter(ino) == IF ino = 0 THEN next_ino + 1 ELSE next_ino

InsertEntry(parent, name, isdir, ino) ==
  LET new == allocs + 1
      fields == [name |-> name, ino |-> IF ino = 0 THEN next_ino ELSE ino,
                 dir |-> isdir, nlink |-> 1, parent |-> parent]
  IN  /\ new <= MaxEntries
      /\ allocs' = new
      /\ all_entries' = all_entries \cup {new}
      /\ next_ino' = InoAfter(ino)
      /\ entry' = [e \in Pointer |->
            CASE e = new -> fields
              [] e = parent /\ isdir -> [entry[e] EXCEPT !.nlink = @ + 1]
              [] OTHER -> entry[e]]

InsertNull(ino) ==
  /\ all_entries' = all_entries \cup {NULL}
  /\ next_ino' = InoAfter(ino)
  /\ UNCHANGED <<entry, allocs>>

InsertFails(ino) ==
  /\ next_ino' = InoAfter(ino)
  /\ UNCHANGED <<all_entries, entry, allocs>>

\* Mutant: the children list is not looked at.
MayDeleteNonEmpty(e) == e # root

\* vtfs_storage_delete_entry: what it asks before it takes the lock ...
MayDelete(e) == e # root /\ ~(entry[e].dir /\ Children(e) # {})

\* Mutants: the other names of the inode, or the parent, keep the link; the
\* number of the newest entry is given back to the counter.
DeleteKeepsLinks(victim) ==
  /\ all_entries' = all_entries \ {victim}
  /\ entry' = [e \in Pointer |->
        CASE e = victim -> NotAnEntry
          [] e = entry[victim].parent /\ entry[victim].dir
               -> [entry[e] EXCEPT !.nlink = @ - 1]
          [] OTHER -> entry[e]]
  /\ UNCHANGED <<next_ino, allocs>>

DeleteKeepsParent(victim) ==
  /\ all_entries' = all_entries \ {victim}
  /\ entry' = [e \in Pointer |->
        CASE e = victim -> NotAnEntry
          [] e # victim /\ e \in WithIno(entry[victim].ino)
               -> [entry[e] EXCEPT !.nlink = @ - 1]
          [] OTHER -> entry[e]]
  /\ UNCHANGED <<next_ino, allocs>>

DeleteReturnsIno(victim) ==
  /\ all_entries' = all_entries \ {victim}
  /\ entry' = [entry EXCEPT ![victim] = NotAnEntry]
  /\ next_ino' = IF entry[victim].ino + 1 = next_ino THEN next_ino - 1 ELSE next_ino
  /\ UNCHANGED allocs

\* ... and what it does under it: the parent of a directory loses a link, the
\* entry leaves both lists, every other name of the inode loses a link.
DeleteEntry(victim) ==
  LET rest == all_entries \ {victim}
      ino == entry[victim].ino
      Lost(e) == IF e \in rest /\ entry[e].ino = ino THEN 1 ELSE 0
      LostDir(e) == IF entry[victim].dir /\ e = entry[victim].parent THEN 1 ELSE 0
  IN  /\ all_entries' = rest
      /\ entry' = [e \in Pointer |->
            IF e = victim THEN NotAnEntry
            ELSE [entry[e] EXCEPT !.nlink = @ - Lost(e) - LostDir(e)]]
      /\ UNCHANGED <<next_ino, allocs>>

\* vtfs_storage_add_link: every name of the inode gets the target's count + 1.
AddLink(target) ==
  /\ entry' = [e \in Pointer |->
        IF e \in WithIno(entry[target].ino)
        THEN [entry[e] EXCEPT !.nlink = entry[target].nlink + 1]
        ELSE entry[e]]
  /\ UNCHANGED <<all_entries, next_ino, allocs>>

=============================================================================
