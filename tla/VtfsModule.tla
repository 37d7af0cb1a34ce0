----------------------------- MODULE VtfsModule -----------------------------
(***************************************************************************)
(* The life of the module (module/vtfs_main.c): it is loaded, mounted,     *)
(* used, unmounted and unloaded, over the store of VtfsStore.  The entries *)
(* outlive a mount; the kernel's dentries and struct inodes do not, and    *)
(* those go at any time when memory is short.  A struct inode has a link   *)
(* count of its own, i_nlink, next to that of the entry.                   *)
(*                                                                         *)
(* Handlers are atomic here (VtfsInodeOps cuts them) and there is one      *)
(* mount at a time.  A negative dentry is not told from none.  A call that *)
(* fails before it has changed an entry is left out.                       *)
(***************************************************************************)
EXTENDS VtfsStore, FiniteSetsExt

CONSTANT LinkValues   \* 2^32, how many values an i_nlink has

ASSUME LinkValuesAssumption == LinkValues \in Nat \ {0}

VARIABLES
  stage,    \* how far the module is loaded
  http,     \* http_initialized
  mounted,  \* whether there is a super block
  dentry,   \* the struct inode the dentry of an entry leads to
  i_nlink,  \* the link count of each struct inode
  drifted   \* history: inodes whose count missed a change of the entry's

kernel_vars == <<stage, http, mounted>>
inode_vars == <<dentry, i_nlink, drifted>>
vars == <<store_vars, kernel_vars, inode_vars>>

Inodes == 1 .. MaxEntries + 1
NoInode == 0

NoDentries == [e \in Pointer |-> NoInode]
NoCounts == [i \in Inodes |-> 0]

Init ==
  /\ all_entries = {} /\ entry = [e \in Pointer |-> NotAnEntry]
  /\ next_ino = 0 /\ allocs = 0
  /\ stage = "out" /\ http = FALSE /\ mounted = FALSE
  /\ dentry = NoDentries /\ i_nlink = NoCounts /\ drifted = {}

-----------------------------------------------------------------------------
(***************************************************************************)
(* Loading and unloading.                                                  *)
(***************************************************************************)

\* vtfs_http_init: the built-in address always parses.
InitHttp ==
  /\ stage = "out" /\ stage' = "http" /\ http' = TRUE
  /\ UNCHANGED <<store_vars, mounted, inode_vars>>

InitStorage ==
  /\ stage = "http" /\ stage' = "storage"
  /\ all_entries' = {root}
  /\ entry' = [entry EXCEPT ![root] = Root]
  /\ next_ino' = VTFS_ROOT_INO + 1 /\ allocs' = 0
  /\ UNCHANGED <<http, mounted, inode_vars>>

\* free_entries_recursive meets what the children lists of directories lead to
\* from the root: it is in every set with the root that they do not lead out of.
Reached ==
  {e \in all_entries : \A S \in SUBSET all_entries :
     root \in S /\ (\A d \in S \cap Dirs : Children(d) \subseteq S) => e \in S}

\* Mutant: only the entries in the root directory are freed.
CleanupRootOnly ==
  /\ all_entries' = all_entries \ ({root} \cup Children(root))
  /\ entry' = [e \in Pointer |-> IF e \in all_entries' THEN entry[e] ELSE NotAnEntry]
  /\ next_ino' = 0 /\ allocs' = 0

\* vtfs_storage_cleanup; without a root it does nothing.
Cleanup ==
  /\ all_entries' = all_entries \ Reached
  /\ entry' = [e \in Pointer |-> IF e \in all_entries' THEN entry[e] ELSE NotAnEntry]
  /\ next_ino' = 0 /\ allocs' = 0   \* reset here: the next load sets them

\* vtfs_http_cleanup, and the module is gone.
Gone == stage' = "out" /\ http' = FALSE /\ UNCHANGED <<mounted, inode_vars>>

StorageFails == stage = "http" /\ Gone /\ UNCHANGED store_vars

Register ==
  /\ stage = "storage" /\ stage' = "in"
  /\ UNCHANGED <<store_vars, http, mounted, inode_vars>>

RegisterFails == stage = "storage" /\ Cleanup /\ Gone

\* .owner: the kernel unloads the module only when nothing is mounted.
MayUnload == stage = "in" /\ ~mounted

vtfs_exit == MayUnload /\ Cleanup /\ Gone

-----------------------------------------------------------------------------
(***************************************************************************)
(* Mounts and struct inodes.                                               *)
(***************************************************************************)
Held(e) == dentry[e] # NoInode

\* new_inode: one that no dentry leads to.
fresh == Min({i \in Inodes : \A e \in Pointer : dentry[e] # i})

\* An inode is freed when no dentry leads to it (vtfs_drop_inode keeps none).
Dentries(dentries, counts, missed) ==
  LET used == {dentries[e] : e \in Pointer} IN
  /\ dentry' = dentries
  /\ i_nlink' = [i \in Inodes |-> IF i \in used THEN counts[i] ELSE 0]
  /\ drifted' = (drifted \cup missed) \cap used

\* vtfs_get_inode, and what the caller makes of its link count.
NewInode(e, count, missed) ==
  Dentries([dentry EXCEPT ![e] = fresh], [i_nlink EXCEPT ![fresh] = count], missed)

\* vtfs_fill_super: the root's inode starts with two links whatever the root
\* entry has.
Mount ==
  /\ stage = "in" /\ ~mounted /\ mounted' = TRUE
  /\ NewInode(root, 2, IF entry[root].nlink = 2 THEN {} ELSE {fresh})
  /\ UNCHANGED <<store_vars, stage, http>>

\* vtfs_kill_sb: the dentries go, the entries stay.
Unmount ==
  /\ mounted /\ mounted' = FALSE
  /\ dentry' = NoDentries /\ i_nlink' = NoCounts /\ drifted' = {}
  /\ UNCHANGED <<store_vars, stage, http>>

Drop(e, counts, missed) == Dentries([dentry EXCEPT ![e] = NoInode], counts, missed)

\* A dentry under which none is held can go.
Evict(e) ==
  /\ Held(e) /\ e # root /\ \A f \in Children(e) : ~Held(f)
  /\ Drop(e, i_nlink, {})
  /\ UNCHANGED <<store_vars, kernel_vars>>

-----------------------------------------------------------------------------
(***************************************************************************)
(* The handlers.                                                           *)
(***************************************************************************)
HeldDirs == {e \in Dirs : Held(e)}

\* Where the kernel calls for a new name: a directory it holds, that lacks it.
Free == {place \in HeldDirs \X Names : vtfs_storage_lookup(place[1], place[2]) = NULL}

\* vtfs_lookup of an entry that is there.
Lookup(e) ==
  /\ e # root /\ entry[e].parent \in HeldDirs /\ ~Held(e)
  /\ NewInode(e, entry[e].nlink, {})
  /\ UNCHANGED <<store_vars, kernel_vars>>

\* vtfs_lookup of one the server has: the parent's entry gains a link for a
\* directory, its inode does not; the new entry has one link.  The inode may
\* be refused when the entry is in.
Fetch(parent, name, isdir) ==
  /\ InsertEntry(parent, name, isdir, 0)
  /\ LET missed == IF isdir THEN {dentry[parent]} ELSE {} IN
     \/ NewInode(allocs', 1, missed)
     \/ drifted' = drifted \cup missed /\ UNCHANGED <<dentry, i_nlink>>
  /\ UNCHANGED kernel_vars

Create(parent, name) ==
  /\ InsertEntry(parent, name, FALSE, 0)
  /\ NewInode(allocs', 1, {})
  /\ UNCHANGED kernel_vars

\* create and mkdir take the entry out again when there is no inode for it: a
\* parent that gained a link has lost it, the numbers stay drawn.
Undone(parent, name) ==
  /\ allocs < MaxEntries
  /\ allocs' = allocs + 1 /\ next_ino' = next_ino + 1
  /\ UNCHANGED <<all_entries, entry, kernel_vars, inode_vars>>

\* Mutant: the count has a sign.
PlusSigned(count, i, n) == [count EXCEPT ![i] = @ + n]

\* inc_nlink and drop_nlink: the count is unsigned.
Plus(count, i, n) == [count EXCEPT ![i] = (@ + n) % LinkValues]

\* Mutant: a directory is removed with what is in it.
RmdirUnasked(e) == TRUE

\* inc_nlink(parent_inode).
ParentGains(parent) == Plus(i_nlink, dentry[parent], 1)

Mkdir(parent, name) ==
  LET new == allocs + 1 IN
  /\ new <= MaxEntries
  /\ allocs' = new /\ next_ino' = next_ino + 1
  /\ all_entries' = all_entries \cup {new}
  /\ entry' = [entry EXCEPT
       ![new] = [name |-> name, ino |-> next_ino, dir |-> TRUE, nlink |-> 2,
                 parent |-> parent],
       ![parent].nlink = @ + 1]
  /\ Dentries([dentry EXCEPT ![new] = fresh],
              [ParentGains(parent) EXCEPT ![fresh] = 2], {})
  /\ UNCHANGED kernel_vars

\* The inodes of other lookups of the same file.
Others(e) == {dentry[f] : f \in WithIno(entry[e].ino)} \ {dentry[e], NoInode}

\* Mutant: the inode does not lose the link.
UnlinkUncounted(e) == i_nlink

\* drop_nlink(d_inode(child_dentry)).
UnlinkCount(e) == Plus(i_nlink, dentry[e], -1)

Unlink(e) ==
  /\ e \in Files /\ Held(e)
  /\ DeleteEntry(e)
  /\ Drop(e, UnlinkCount(e), Others(e))
  /\ UNCHANGED kernel_vars

MayRmdir(e) == Children(e) = {}

\* clear_nlink of the directory, drop_nlink of its parent.
Rmdir(e) ==
  /\ e \in HeldDirs \ {root} /\ MayRmdir(e)
  /\ DeleteEntry(e)
  /\ Drop(e, Plus(i_nlink, dentry[entry[e].parent], -1), {})
  /\ UNCHANGED kernel_vars

\* Mutant: the inode does not gain the link.
LinkUncounted(e) == i_nlink

\* inc_nlink(inode).
LinkGains(e) == Plus(i_nlink, dentry[e], 1)

\* vtfs_link: the entry found by number gives the count, the dentry the inode.
Link(e, parent, name) ==
  LET new == allocs + 1
      count == entry[vtfs_storage_get_by_ino(entry[e].ino)].nlink + 1
  IN  /\ e \in Files /\ Held(e) /\ new <= MaxEntries
      /\ allocs' = new /\ all_entries' = all_entries \cup {new}
      /\ entry' = [f \in Pointer |->
           CASE f = new -> [name |-> name, ino |-> entry[e].ino, dir |-> FALSE,
                            nlink |-> count, parent |-> parent]
             [] f \in WithIno(entry[e].ino) -> [entry[f] EXCEPT !.nlink = count]
             [] OTHER -> entry[f]]
      /\ Dentries([dentry EXCEPT ![new] = dentry[e]],
                  LinkGains(e), Others(e))
      /\ UNCHANGED <<next_ino, kernel_vars>>

Handlers ==
  \/ \E e \in all_entries : Evict(e) \/ Lookup(e) \/ Unlink(e) \/ Rmdir(e)
  \/ \E place \in Free : LET parent == place[1]  name == place[2] IN
       \/ \E isdir \in BOOLEAN : Fetch(parent, name, isdir)
       \/ Create(parent, name) \/ Mkdir(parent, name) \/ Undone(parent, name)
       \/ \E e \in all_entries : Link(e, parent, name)

Next ==
  \/ InitHttp \/ InitStorage \/ StorageFails \/ Register \/ RegisterFails \/ vtfs_exit
  \/ Mount \/ Unmount
  \/ mounted /\ Handlers

Spec == Init /\ [][Next]_vars

-----------------------------------------------------------------------------
TypeOK ==
  /\ all_entries \subseteq Pointer /\ entry \in [Pointer -> Entry \cup {NotAnEntry}]
  /\ next_ino \in Nat /\ allocs \in 0 .. MaxEntries
  /\ stage \in {"out", "http", "storage", "in"} /\ {http, mounted} \subseteq BOOLEAN
  /\ dentry \in [Pointer -> Inodes \cup {NoInode}]
  /\ i_nlink \in [Inodes -> 0 .. LinkValues - 1] /\ drifted \subseteq Inodes

\* After an unload, or a load that failed half way, nothing is left: no entry
\* that the walk of the children lists did not reach, no client, no dentry.
NothingLeft ==
  stage = "out" => all_entries = {} /\ ~http /\ ~mounted /\ \A e \in Pointer : ~Held(e)

\* What a dentry leads to is there while it is held: its entry, and the
\* dentry and entry of the directory it is in, up to a root that is mounted.
DentriesLive ==
  \A e \in Pointer : Held(e) =>
    /\ mounted /\ e \in all_entries
    /\ entry[e].parent \in HeldDirs
    /\ \A f \in Pointer : dentry[f] = dentry[e] => entry[f].ino = entry[e].ino

\* A struct inode has the link count of the entry unless it missed a change: a
\* directory was fetched into it, the root was mounted with directories in it,
\* or the file was linked or unlinked through another inode of its number.
CountsAgree ==
  \A e \in Pointer : Held(e) /\ dentry[e] \notin drifted =>
    i_nlink[dentry[e]] = entry[e].nlink

\* The drop_nlink of an unlink takes a link that the inode has: the inode of a
\* file has one for each dentry that leads to it, also when it has drifted, so
\* none of them meets a count of zero.
UnlinksCovered ==
  \A e \in Pointer : Held(e) /\ ~entry[e].dir =>
    Cardinality({f \in Pointer : dentry[f] = dentry[e]}) <= i_nlink[dentry[e]]

=============================================================================
