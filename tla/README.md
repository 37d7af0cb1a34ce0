# VTFS in TLA+

A verification project for `vtfs`: a Linux kernel module (`src/module`) that keeps a file
system in memory and mirrors it to a Spring Boot server over PostgreSQL (`src/server`).
This directory holds TLA+ modules that model the code, TLC configurations that check them on
small instances, and proofs that TLAPS checks for every instance. `PROJECT.json` lists runs,
mutants, the lines each definition stands for, hazards and theorems.

## 1. The system

| Part | State | Operations | Talks to |
|---|---|---|---|
| Entry store, `module/storage.c` | the list `all_entries`, a `children` list per directory, `next_ino`, the fields of each `vtfs_entry`; one spinlock | create, delete, lookup, find by number, read, write, add link, init, cleanup | called by the three next parts; calls the HTTP client after it has dropped the lock |
| Inode operations, `inode_ops.c` | locals only: raw entry pointers kept between critical sections | lookup (with fetch from the server), create, unlink, mkdir, rmdir, link | VFS (locks, dentries), store, HTTP client |
| File operations, `file_ops.c` | locals, the file offset | read (server first, then local), write (local, then server) | VFS, which takes no inode lock here; store, HTTP client |
| Directory listing, `dir_ops.c` | `ctx->pos` | iterate | walks a children list, dropping the lock at each entry |
| HTTP client, `http.c` | host, port, an initialised flag | call, read, write, stat, delete, create; URL and base64 coding, JSON extraction | one TCP connection per call, no timeout |
| Module and mounts, `vtfs_main.c` | parameters, superblocks, struct inodes | init, exit, mount, kill_sb, get_inode | every mount works on the one store |
| Service, `FileSystemService.kt` | table `file_entries`, unique `path` and `ino` | list, create, delete, read, write, stat, link; each a transaction | PostgreSQL through Hibernate |
| Controller, token check | none | translate requests, refuse an empty token | service |

`server/bin` is a copy of `server/src`; build files, `setup_db.sh` and `test.sh` have no
behaviour of the program (the test script is quoted as what is expected of it).

What makes it hard:

- *Short critical sections, long handlers.* Every store function locks for itself. A handler is
  a chain of them and keeps raw pointers in between, so what was checked (a name is free, a
  directory is empty, an entry exists) must still be true when it is used. What makes it true,
  if anything, are the VFS's inode locks, and those belong to struct inodes, of which an entry
  can have several: each mount makes its own, and so does each lookup of a name (`vtfs_main.c:40`).
  Two names of one file exclude each other only while they happen to share one.
- *Failure in the middle.* Any allocation can fail, and handlers take back what they did.
- *Two copies.* The server's copy is changed by requests whose answers are ignored.
- *Overlapping transactions* on the server, at READ COMMITTED, that write rows back as loaded.

What each part has to get right: the store is a tree of unique names with numbers and link
counts that agree (1); nobody uses a freed entry or buffer (2); a file's contents are what was
written, through any name (3); a reader of a directory sees each entry once (4); the server's
table is a tree, and what it answers is what it did (5); the two copies agree again once
requests get through (6); what the wire carries is what was meant (7).

## 2. Modules and plan

| Module | Models | State |
|---|---|---|
| `VtfsStore` | store data and the effect of each critical section | done |
| `VtfsNamespace` | abstract: a set of names changed one at a time | done |
| `VtfsInodeOps` | handlers of `inode_ops.c` by several threads; refines `VtfsNamespace` | done |
| `VtfsInodeOpsProofs` | its inductive invariant; shape of the store, pointers, numbers; the refinement of `VtfsNamespace` | 8 theorems |
| `VtfsLinkCountProofs` | over the same invariant: the link counts | 2 theorems |
| `VtfsContent` | bytes, buffers, sizes of one file under several names | done |
| `VtfsContentProofs` | types; what the newest name shows; sizes and buffers | 5 theorems |
| `VtfsServer` | overlapping transactions of the service | done |
| `VtfsServerProofs` | keys and types for any requests; tree and links for one mount | 4 theorems |
| `VtfsSync` | the module's and the server's copy of the names of a directory, over calls, lost requests and reloads: the double write, the server-first read, the fetch | done |
| `VtfsSyncProofs` | agreement of the copies, dentries, reads, the echo of a fetch | 5 theorems |
| `VtfsReaddir` | the position of `vtfs_iterate` against insertions and removals | done |
| `VtfsReaddirProofs` | the walk is safe; what a listing misses and repeats is counted | 4 theorems |
| `VtfsWire` | one request and answer: cut values, cut and chunked answers, base64 and JSON | done |
| `VtfsWireProofs` | what a call makes of a text that is cut anywhere | 5 theorems |
| `VtfsModule` | load, mount, handlers, eviction, unmount, unload; struct inodes and their link counts; over `VtfsStore` | done |
| `VtfsModuleProofs` | cleanup, dentries, and the two link counts | 5 theorems |

`VtfsStore` is the common part: `VtfsInodeOps` puts concurrency on top of it, `VtfsModule` the
life of the module. `VtfsSync` takes the server's answers from `VtfsServer`'s operations, one
request at a time (a single module's requests for one name do not overlap but for writes and
reads, and the runs of `VtfsServer` cover overlaps).

Every safety property that a passing run checks, and the refinement, is a theorem (section 5); the
one liveness property is left to TLC.

## 3. The modules

### VtfsStore and VtfsInodeOps

`VtfsStore` has the variables `all_entries`, `entry`, `next_ino` and an operator for each
critical section of `storage.c`: `InsertEntry`, `InsertFails`, `DeleteEntry`, `AddLink`, and the
walks `vtfs_storage_lookup` and `vtfs_storage_get_by_ino`. A pointer is the number of the
allocation, so a freed pointer is recognised and "first on the list" is "greatest" (both lists
are filled at the head). `NotAnEntry` stands in memory no live entry occupies.

`VtfsInodeOps` adds `call`, a record per thread: the operation, the step it is at, the inodes it
has locked, and the handler's local pointers.

| Action | Code |
|---|---|
| `BeginCreate`, `BeginLookup`, `BeginRemove`, `BeginLink` | VFS locks taken, the handler's `vtfs_storage_get_by_ino` calls |
| `FindVictim`, `FindChild` | lookup in unlink, rmdir and lookup, with the emptiness and type checks |
| `FetchFound`, `FetchNothing` | `fetch_from_remote`: the server knows the name, or not |
| `CheckName` | type of the parent and lookup in `create_entry_internal`, before the lock |
| `Insert`, `InsertNoMemory` | its critical section |
| `InitNlink` | `entry->nlink = 2` in `vtfs_mkdir`, without the lock |
| `GetInode`, `GetInodeNoMemory` | `vtfs_get_inode`, and the rollback when it fails |
| `FinishLink` | `vtfs_storage_add_link` |
| `Delete` | `vtfs_storage_delete_entry` from its lock on |

The VFS is outside `src/` and modelled by what it guarantees: `Conflict` (the parent's `i_rwsem`,
shared for lookups of different names; the victim's for unlink and rmdir; the source's for
link) and `Visible` (no system call reaches an entry whose dentry is not set up yet or is going).
`Mounts` are the superblocks over the one store. A struct inode is a mount and an entry (`Inode`):
every name of a file has its own, as `vtfs_get_inode` makes it at a lookup. After a link the two
names share one until a dentry goes; sharing only makes them exclude each other, so the model
has more interleavings than that. Unlinks and links of two names of a file therefore overlap at any
step. What a link found by number can be another name than the one it has locked: if that is
freed, the next use of it (`TargetFreed`) ends the thread in the step "undefined", and nothing
begins after it. `miscounted` is history: files whose links were counted from a name that another
link had inserted and not yet counted.

Abstracted: contents, times, permissions, and the server's copy, of which a handler sees only
what a lookup is answered. The kernel may call `lookup` for a name that is already cached in
this model; that only adds behaviours.

### VtfsNamespace

A set of names `[dir, name, ino, isdir]` and a counter; create, link and remove, each atomic.
`VtfsInodeOps` implements it under the mapping "the set of live entries, seen by number": the
insertion and deletion steps are the abstract operations, all others stutter.

### VtfsContent

One file, its names (entries), each with `data`, `size` and `capacity`, a heap of buffers with
the set that is `live`, and what each thread is doing. `Write` is the critical section of
`vtfs_storage_write`, where krealloc keeps or moves the buffer. `vtfs_link` is four steps, the
insertion (`LinkInsert`) and the three stores made without the lock, in the order of the source
(`CopyData`, `CopySize`, `CopyCapacity`); `Filling` are the names between the first and the last.
`Delete` frees the buffer with the last name. Reads, writes, links and unlinks come at any step of each
other; all that keeps two apart is the lock of one name's inode, held by a link that starts from
it or an unlink of it (`Unlocked`). A call whose next access is to memory that is not the file's
any more (`Safe` is false) ends in the step "undefined", and nothing begins after it.

History variables say what went on: `file` is what the file should hold after the writes, with `Gap`
where nothing was written; `beheaded`, that the newest name went while older ones stayed;
`overtaken`, that a write or a link used a name that was no longer the newest, or one that was
still being filled; `torn`, the names written to while they were being filled. These are the cases in
which the code does lose something, and the properties that hold name them.

### VtfsServer

`db` is the committed table, `session` what each transaction has loaded and will write. A request
begins with its first query; `CreateNumber` and `DeleteChildren` are later queries; `Commit` writes
the entities back whole, as they were loaded, or `Rollback` refuses them when a unique column or
a vanished row stops it. `OneMount` says that requests come from one mount of the module, which
holds directory locks while it waits (`Locks`: the VFS takes them, the module none itself); `FALSE` is any
mix of requests. Requests refused by their first query change nothing and are left out, as are `list` and `stat`, which only read.

### VtfsSync

Per name: the module's entry (`local`), the server's (`remote`), what the kernel remembers
(`dentry`); per thread the request it waits for. A call changes `local` as far as its first
request (`EnterCreate`, `EnterDelete`, `Write`); `Serve` answers a request and runs the call to its
next one, `Lose` does the same for a request or an answer that never comes. What a handler does
without a request in between is part of the step before it, unless another thread could see the
difference: `Insert` and `Fill` (the two halves of `fetch_from_remote`), `Instantiate`
(`vtfs_get_inode` after a create), `ReadLocal`.

| Step of a call | Request or code |
|---|---|
| `stat`, `insert`, `fetch`, `fill`, `echo` | a lookup of a name that is not there: stat, entry, read, bytes, and the write these are sent back with |
| `create`, `inode` | create or mkdir, then the inode; without one, `delete` |
| `delete` | unlink, rmdir, or a create taken back |
| `write_first`, `write` | the request of `vtfs_storage_write`, at offset 0, and that of `vtfs_write` |
| `read`, `read_local` | the server's bytes, or the local ones when the request fails |

`Faults` lets requests and answers be lost and inodes be refused. `Evict` drops a dentry, `Reload` is
unload, load and mount. The history variable `truth` is what the calls have made of a name, and
`diverged` the names on which one of the known disagreements has happened: an update or the bytes
of a fetch were lost; a write did not cover its file, was longer than a request has room for, or met
another one; a directory was removed (the server takes one of its two links, and none while it still
has an entry in it: ENOTEMPTY); a create met a file that a lost stat had hidden, or a server without
the directory (ENOENT, when that directory's own creation was lost). A name leaves `diverged` when
both sides have nothing again. Everything else is claimed to agree.

`MaxSent` is the number of bytes for which a request always has room. The encoded text is cut at
512 characters (`http.c:142`, `270`), of which a byte takes between 4/3 and 4, so the cut is
somewhere between 126 and 381 bytes and depends on the bytes. `Arrived` lets a longer text come as any
prefix of at least `MaxSent` bytes, or be refused; `VtfsWire` has the encoding itself. At offset 0
the server clears what a cut text leaves uncovered, also for the echo of a fetch.

Left out: hard links (the server is not told of them), removal while the file is read or written
(`VtfsContent` has it), other clients of the server.

### VtfsReaddir

`children` is the list from its head, `reader` the state of each open directory: position, the
entry the walk stands on while the lock is dropped around `dir_emit`, how many names still fit in
the caller's buffer, and as history the names seen, those that were there all the time, and the
insertions and removals since the listing began. `Enter` is a call up to the first entry it emits,
`Emit` one `dir_emit` and the walk to the next entry. `Insert` can come in the middle of a call,
because a lookup that fetches shares `i_rwsem` with `iterate_shared`; `Remove` waits for calls.

### VtfsWire

One request at a time: `Ask` encodes, `Serve` decodes and answers, `Receive` takes what one `recv`
returned, `Parse` is everything the client does with it. A text is a sequence of tokens: a
character of base64, a digit, a word, so a cut can fall between any two of them. Base64 is real
(bytes to sextets and back), with the two decoders that differ, the module's and Java's. When
not even the status line has come, `vtfs_http_stat` reads a buffer nobody has written:
`Leftovers` is what may be in it. Paths and numbers are assumed to fit.

### VtfsModule

Extends `VtfsStore` with `stage`, `http`, `mounted` and, per entry, the struct inode its dentry leads
to, with `i_nlink` of its own. Handlers are atomic here. The load is four steps, each of which
can fail and undo what came before; the entries outlive the mount; `Evict` drops unused dentries,
and the next lookup makes a new inode. `i_nlink` is unsigned and wraps. `drifted` records the inodes
that missed a change of the entry's count, which the code cannot avoid: a directory fetched into a
parent whose inode is not told, a root with directories when it is mounted, a file linked or
unlinked through another inode of its number.

## 4. What the runs check

| Run | Bounds | Result |
|---|---|---|
| `inode_ops` | 2 threads, 1 mount, 2 names, 5 allocations, 3 numbers | passes, 983 083 states |
| `content` | 2 threads, 2 bytes, 3 names, 2 buffers, limit 2, capacities from 1 | passes, 4 358 051 states |
| `hard_links` | the same | `HardLinksShareContent` fails |
| `appends` | the same | `AppendsAtEnd` fails |
| `unlink_in_use` | the same | `EntryLive` fails |
| `server` | 2 clients of one mount, 2 names, depth 2, 3 rows, files of 2 bytes | passes, 304 082 states |
| `server_read` | the same | `ReadKeepsBytes` fails |
| `readdir` | 1 reader, 4 names, up to 3 entries per call, changes counted to 3 | passes, 423 050 states |
| `wire` | bytes 1 and 255, files of up to 6, 12 characters of URL, 24 of answer | passes, 155 238 states |
| `module` | 2 names, 4 allocations | passes, 460 402 states |
| `sync` | 2 threads, 1 name, 2 bytes, files of 3, requests with room for 2, faults | passes, 966 906 states |
| `sync_append` | 1 thread, files of 2, no faults | `FilesMirrored` fails |

*Inode operations.* `UniqueNames`, `WellFormedTree`, `InoDiscipline`, `LinkCounts` and
`DirLinkCounts` are the store's shape. `LinkCounts` holds although links and unlinks of one file hold no
common lock: `add_link` and `delete_entry` change the counts of all names, pending ones or not, under the
store's lock. It excepts `miscounted` files. Two links of one file can be under way at once only from
two names and in two directories, which takes three names and five allocations: 12 978 506 states, too
many for a run. There TLC finds a lost link within seconds if the exception is left out; in the run the
exception never applies, and the theorem covers both. `LivePointers` and `DeleteIsSafe` say that what was found
or checked in one critical section is still so in the next; they are about the directory and the child
a handler works on, for which the VFS's locks stand. The target of a link is not among them, and can be
freed (`unlink_in_use` is the run that shows an entry used after that). `NumbersFresh` says that a number
never serves two files, also when the target of a link, whose number is passed on, goes before the
insertion: the name the link was called for is locked and keeps the number in use.
`ImplementsNamespace` says that all interleavings look sequential. Five allocations are enough for a directory,
an entry in it and a rival for either, and for a file that is linked from both directories and unlinked by
another name meanwhile; three numbers allow one lost to a failed allocation.

*Contents.* `NewestShowsFile`: the name every access reaches has every write, whichever steps of reads,
links, unlinks and other writes it met, until the newest name is removed or a call that had found
an older name comes after a link. `SizeFits`, `ReadHasBytes`, `NothingLeaks`: sizes against memory and limit,
no false end of file, no buffer lost by a file with one name. Three names allow the removal of an old
name, and a link made after it; capacity 1 with limit 2 makes a buffer grow a second time, and lets
an append be refused by the second check of the limit only. Two buffers are two moves, enough to free
one that an earlier name still points to.

*Server.* `TreeComplete`, `DirLinks`, `KeysDiffer`. Three rows are needed for two creations in
different directories at once, the case in which both draw the same number; the unique column
then refuses one of them.

*Listing.* `MissedAtMostRemoved` and `RepeatedAtMostAdded` bound the damage of a position that counts
entries in a list that changes: a removal can hide one entry that was there all the time, an
insertion can repeat one, and nothing else does. `WalkStandsOnLive` says that the walk may drop the
lock: only because removals hold `i_rwsem` for themselves. Four names and calls of one to three
entries let a listing take up to six calls with changes in each gap.

*Wire.* `ReadAllOrNothing` and `StatTrue`: wherever one `recv` cuts the answer, it is an error or the
whole truth, since the closing quote or brace is missing otherwise. `SentIsPrefix` and
`EncodedFits`: a write whose text does not fit the 512 bytes is silently cut, but to a prefix of its
bytes; when the cut falls so that Java refuses the text, nothing is stored. Six bytes are two
groups of base64; byte 255 encodes to `/`, which takes three characters, so that the cut falls
before, in and after wide characters; with base 3, sizes have one or two digits.

*Life of the module.* `NothingLeft` after every unload and failed load; `DentriesLive` relates dentries
to entries. `CountsAgree` relates the two link counts of what has not drifted. `UnlinksCovered` is about
drifted files too: an unlink never subtracts from an `i_nlink` of zero. Nothing of the kind holds of
directories: the root's inode starts at two after a remount, and so does the inode of a directory in
which others were fetched, so enough rmdirs take their counts through zero (`inode_ops.c:183`;
`Plus` wraps). Four allocations reach a directory in a directory, a file with two
names looked up through different inodes, and a remount with directories.

*Synchronisation.* `SidesAgree` and `ReadsTruth` say that the exceptions in `diverged` are all there
are; `EchoHarmless` that the write a fetch sends is harmless as far as it fits a request, because nobody
can open the file yet; `DentriesKnow` that the kernel is not told of a name it can create while the
module has it. One name is enough, for requests about different names touch different rows and
entries, the lock is the directory's, and what a request meets of other names on the server (the
directory's row, entries in the directory) is a choice of `ServerCreated` and `ServerDeleted`. Two bytes
tell order and offset of writes apart; files of three bytes with room for two in a request make a covering write, and an echo, that are cut. With two
names, one byte and files of one byte (`MaxSent = 1`) all properties hold too.

### Liveness and deadlock

`ListingEnds` assumes weak fairness of the reader: a program calls until a call returns nothing. A call
waits for the directory's `i_rwsem`, which others hold while they create or remove, some of them while
they wait for the server; so the assumption includes that whoever holds the lock lets it go. The
property needs the number of entries to be bounded: a directory to which entries are added faster than
they are listed has no end.

Nothing is claimed about calls that wait for the server. No timeout is set on the socket
(`http.c:103`), so a peer that stays silent holds the directory's lock for ever; `VtfsSync`
assumes no fairness, and that calls return could be stated only by assuming the answers.

Deadlock is checked in `readdir`, `wire`, `module` and `sync`. In the `content` and `server` instances the
file may be gone, or the bound on rows used up, and nothing is left to do; in those of `inode_ops` and
`content` a use of freed memory is the end.

Every property of a passing run has a mutant: a definition of the code changed as a slip would
change it (a check dropped, a counter not moved, a link not subtracted), with which TLC finds the
property violated.

### What the failing runs show

1. Hard links copy data pointer, size and capacity without a lock, and a write changes those of one
   name (`inode_ops.c:212`). TLC's trace is a write that began before the link (`file_ops.c:67`) and
   lands on the old name after it (`89`): the newest, which every access then finds, does not have it,
   and would point to a freed buffer had krealloc moved it. Without any overlap, a write through the
   newest name and its removal leave the other name with old contents or a freed buffer. A cleanup then
   frees the shared buffer once per name.
2. An append overwrites what came between its look at the size and its write (`file_ops.c:78`): in TLC's
   trace a plain write, and just so another append.
3. A read or write can use an entry that unlink freed (`file_ops.c:17`, `67`), and a link the target
   it found by number (`inode_ops.c:196`), when another name is unlinked through its own inode.
4. A read on the server can undo a write that was committed after the read began
   (`FileSystemService.kt:186`).
5. A write behind the start of a file is sent at offset 0 as well, which clears the rest of the
   file on the server (`storage.c:67`).

Other disagreements follow from the models without a run of their own. `link` on the server inserts
the old row's number again in a unique column and is always rolled back. The first delete of a
directory takes one of its two links and answers success (`FileSystemService.kt:154`), so a removed
directory comes back with the next lookup; `ServerDeleted` and the exception in `VtfsSync` are about
it. A read that finds a name before link has stored its size sees an empty file (`inode_ops.c:207-213`).
Two overlapping links, the second through the name the first has not counted yet, lose a count
(`storage.c:435`; `LinkCounts` without its exception, three names). The echo of a fetched file that is
too long for a request clears the file's tail on the server (`http.c:142`, `FileSystemService.kt:198-199`). A
change of the constants shows that the locks are needed: with `Mounts = {m1, m2}` in `InodeOps.cfg` TLC
finds one name created twice, by two mounts that share the store (`storage.c:184`), and a directory
freed while the other mount works in it.

## 5. What is proved

For any threads, clients, readers, names and bytes, and any value of the bounds that the modules'
own assumptions allow. "Needs" names what a theorem assumes besides; it is explained below.

| Theorem | Property | Needs |
|---|---|---|
| `VtfsInodeOpsProofs`: `TypeCorrect` | `TypeOK` | `OneMount` |
| `NamesUnique` | `UniqueNames` | `OneMount` |
| `TreeWellFormed` | `WellFormedTree` | `OneMount` |
| `NumbersDisciplined` | `InoDiscipline` | `OneMount` |
| `PointersLive` | `LivePointers` | `OneMount` |
| `DeletesSafe` | `DeleteIsSafe` | `OneMount` |
| `NumbersNeverReused` | `NumbersFresh` | `OneMount` |
| `NamespaceImplemented` | `ImplementsNamespace` | `OneMount` |
| `VtfsLinkCountProofs`: `LinksCounted`, `DirLinksCounted` | `LinkCounts`, `DirLinkCounts` | `OneMount` |
| `VtfsContentProofs`: `TypesHold` | `TypeOK` | |
| `NewestAlwaysShows` | `NewestShowsFile` | |
| `SizesAlwaysFit` | `SizeFits` | |
| `ReadsFindBytes` | `ReadHasBytes` | |
| `NothingIsLeaked` | `NothingLeaks` | |
| `VtfsServerProofs`: `KeysAlwaysDiffer`, `TypesHold` | `KeysDiffer`, `TypeOK` | |
| `TreeAlwaysComplete`, `DirLinksCounted` | `TreeComplete`, `DirLinks` | `OneMount` |
| `VtfsSyncProofs`: `TypesHold`, `SidesAlwaysAgree` | `TypeOK`, `SidesAgree` | |
| `DentriesAlwaysKnow` | `DentriesKnow` | |
| `EchoChangesNothing` | `EchoHarmless` | |
| `ReadsReturnTruth` | `ReadsTruth` | |
| `VtfsReaddirProofs`: `WalkIsSafe`, `TypesHold` | `WalkStandsOnLive`, `TypeOK` | |
| `MissedCounted`, `RepeatedCounted` | `MissedAtMostRemoved`, `RepeatedAtMostAdded` | |
| `VtfsWireProofs`: `TypesHold`, `EncodedAlwaysFits` | `TypeOK`, `EncodedFits` | |
| `ReadsAllOrNothing` | `ReadAllOrNothing` | |
| `StatsTrue` | `StatTrue` | |
| `SentAlwaysPrefix` | `SentIsPrefix` | |
| `VtfsModuleProofs`: `NothingIsLeft`, `DentriesAlwaysLive` | `NothingLeft`, `DentriesLive` | |
| `TypesHold` | `TypeOK` | `LinksFit` |
| `CountsAlwaysAgree`, `UnlinksAlwaysCovered` | `CountsAgree`, `UnlinksCovered` | `LinksFit` |

### Assumptions

- `OneMount` in `VtfsInodeOpsProofs`: at most one mount. It cannot be dropped (section 4, the instance with two
  mounts). Nothing is assumed about names that share an inode.
- `OneMount` in `VtfsServer`: the requests come from one mount of the module, which holds the locks of the
  directories while it waits. Without it a row can be created in a directory that another request
  removes, and two requests can write one parent back; keys and types hold for any requests.
- `LinksFit`: `MaxEntries + 2 < LinkValues`. `i_nlink` has 32 bits, and an entry takes more
  than 400 bytes (`storage.h:9`): 2^32 of them need 1.6 TB of kernel memory. The run `module` has 4 entries and 16 values.
- `WireAssumption`: bytes are below 256, and the two buffers hold at least four characters (512 in
  `http.c:270`, 4096 in `http.h:6`). That a length has at most two digits is a bound of the model: it
  lets a cut fall before, inside and behind the number.
- From the modules: the bounds are numbers, and the sets that are counted are finite
  (`ServerAssumption`, `ReaddirAssumption`, ...).

### Inode operations

None of the properties is inductive: that no name is inserted twice depends on what the
inserting thread learned when it looked, and that on which locks the others hold. The inductive
invariant `IInv` has four parts: types; the shape of the store (`StoreOK`); for each thread what
it knows at its step (`CallOK`: its parent is a live directory whose inode it has locked, the
name it is about to insert is still free, the entry it is about to delete is still empty, the
entry it created is the only one of its number, ...); and for each two threads that their locks
agree and neither knows what the other has just created (`Apart`). Most steps leave the store's
shape alone (`SameShape`) and one lemma, `SameShapeStep`, does for all of them; insertion
(`InsertFacts`, `InsertStep`) and deletion (`VictimApart`, `DeleteStep`) are argued one conjunct at
a time. The decisive facts are that a lock on the directory excludes every other call on its
names (`SameDirectory`) and that a victim's lock keeps all calls away from it (`VictimApart`).
TLC has checked `IInv` as an invariant of the instance `inode_ops`.

*Link counts.* With `IInv`, the two counts are inductive as they stand (`Counted`). Each is restated
entry by entry; a step changes a set that is counted by one element or not at all (`OneMore`,
`OneLess`). No lock keeps links and unlinks of other names away between the insertion of a link and
its count; the argument is that both leave pending names out: a pending name is its own thread's alone
(`PendingAlone`), nobody removes it (`VictimNotPending`), and a link that takes its count from one
makes the file `miscounted`. A link's target may be freed; `UndefinedStep` and the steps of the others
need no fact about it.

*Refinement.* The mapping takes the live entries but the root to their names and numbers. Every step
inserts one entry, deletes one, or keeps all of them in shape; the first two are `Create` or `Link`
and `Remove` of the namespace, whose guards are what `CallOK` says the thread knows; a failed
allocation takes a number; the rest stutters.

### Contents

The first invariant, `TInv`, carries the types: a capacity covers its size under every name, and an
entry that does not exist yet has no data. The second, `CInv`, always has: no two links fill one entry
(`Single`); the last name made is a name unless the newest was removed (`Front`); a file with one name
owns its buffer (`Owned`); and of each thread that a reader of a name that is not torn is before its end, and
that what unlink removes is not being filled (`Held`). Unless the file was `overtaken`, it also has: the
last name made shows the file if no link is filling it (`Shown`, by `Whole`); a link that does has made
the last name, has so far copied what its source still has, and its source is whole (`Filled`); sizes
are within capacities (`Complete`). The three parts stand together because a write that would break
the copy of a link at work writes to a name that is not the newest, and so overtakes. The rest of the
argument is in `Write`: the same bytes go at the same offset into the buffer and into the history
(`PutShows`), and krealloc keeps the bytes below the size (`GrownFacts`).

### Server

A request's later queries and its commit use rows that were loaded before. The invariant says of
each transaction, operation by operation, which rows it has loaded or will write (`Numbering`,
`Inserting`, `Deleting`, ...), and of every such row that the table's row of the same id has the same
path, number and type (`Stub`): nothing that is written back whole can change a key. With `OneMount`
a loaded directory is the row itself (`Known`), because the locks of two transactions are disjoint
(`LocksApart`); then each commit moves the links of a directory and the number of its
subdirectories together (`Tree`).

### Synchronisation

`IInv` says what both sides have at each step of a call (`LookupOK`, `CreateOK`, `RemoveOK`, `ReadOK`,
`WriteOK`), which calls exclude each other (`Apart`), and what is left when no call changes a name
(`Agreed`, `Known`). `EchoHarmless` follows because a name is looked up only while it has no dentry, and
opened only when it has one: the bytes a fetch sends back are the server's. Beside `IInv` stands
`Short`: what has not diverged was written in one request, so it comes and goes whole
(`ArrivedFacts`). No theorem assumes that
there are no faults.

### Listing

A first invariant shows the walk safe: a call starts to walk at its position less two, and lands on
an entry only because both dots are out by then (`DotsLeft`); insertions by lookups only add entries and
removals wait for every call. The second, `LInv`, counts. Of the `p` entries behind the reader, it has
missed those that were there all the time and were not seen (`Missed`), and it will see again those
it has seen beyond them (`Ahead`); the first are at most the removals, the second with the
repetitions at most the insertions. In the middle of a call the entry it stands on may have been
pushed away from the position, and as many insertions are set aside for what comes again if the call
ends there (`Emitting`).

### Life of the module

The invariant has two layers. `Shape`: the stages of the load, a tree in which every parent is older
than its entry, and dentries over it. From it follows that the cleanup reaches every entry
(`AllReached`, by the least entry that it would not), and both properties without counts. `Counted`: the
counts of entries are those of the tree, and the struct inode of a file has a link for each dentry
that leads to it (`Covered`) and no more than there are entries, so that no count wraps. That is
where `LinksFit` is needed.

### Wire

What a call returns depends on what its parser finds in a text that may end anywhere, so nearly all
of the argument is about beginnings of texts. A word is found in a beginning where it is in the whole,
or not at all (`FindBegun`). So the beginning of an answer gives the beginning of its body
(`PartOfAnswer`), in one piece (`PlainPart`) or chunked (`ChunkedPart`, `UnchunkedBegins`). The beginning of a
body gives an error or what the whole gives (`ReadOfPart`, `StatOfPart`, `ErrorOfPart`): the string of a read
ends with a quote and the number of a stat with a brace, and without these the call fails. Base64 is
undone, for all of a text (`DecodesWhole`) and for the part of it that fits the buffer of a request
(`UrlEncodeFacts`, `JavaDecodePrefix`). `IInv` says what the text is at each step of a call (the request's
encoding, an answer of the controller, a part of one) and what a call that has ended returned; TLC
has checked it on the instance `wire`. Memory nobody wrote does no harm to a read, which wants
status 200 first; a stat makes a `Stat` of whatever is there, and `StatTrue` excepts that case.

The numbers and the chunks are read by recursive functions. What they compute for every input would
need an induction over data, which the provers cannot do; here it needs none, because
`WireAssumption` bounds a length by two digits (`MaxLen < Radix * Radix`) and an answer has at most two
chunks, so each function is unrolled as often as it is applied. A recursive function is a choice
among the solutions of its equation, so it has to be shown that one exists: for the digits it is
written down (`ValueOfOne`, `ValueOfTwo`), for the chunks it is built from the last place of the text
backwards, and the least place one can be built from is the first (`PiecesExist`).

### Only model-checked

- *Liveness* (`ListingEnds`) and ENABLED are out of the prover's reach.
- Properties of the failing runs are false.

## 6. Not modelled

- *Token check, `list` and application set-up of the server.* Neither keeps state. The module never
  sends `list`, and a refused token looks to it like any other error answer (`Serve` in `VtfsWire`).
- *Paths longer than their buffers.* `full_path` has 256 bytes in `file_ops.c` and 512 elsewhere, so a
  deep path names another file; the models' paths fit, and nothing bounds the depth.
- *Allocation under the spinlock* (`storage.c:192`): a matter of the kernel's scheduler.
- *Answers that never come* (`http.c:103`): a thread may wait for ever in `VtfsSync`, and nothing is claimed of it.
- *Bytes of a gap* that was never written (`storage.c:391`): in `VtfsContent`, but nothing says what
  they should be.
- *Double free at cleanup* of a buffer that several names share (`storage.c:145`): follows from
  `hard_links`; `VtfsModule` has no buffers.
- *`vtfs_http_create`, `vtfs_http_delete`, `vtfs_http_set_server`* have no callers. Build files,
  database set-up, test script, the copy of the server: no behaviour of the program.

## 7. Running it

    tlc -config InodeOps.cfg MCInodeOps
    tlc -config Content.cfg MCContent         # HardLinks.cfg, Appends.cfg, UnlinkInUse.cfg
    tlc -config Server.cfg MCServer           # ServerRead.cfg
    tlc -config Readdir.cfg MCReaddir
    tlc -config Wire.cfg MCWire
    tlc -config Module.cfg MCModule
    tlc -config Sync.cfg MCSync               # SyncAppend.cfg
    tlapm VtfsInodeOpsProofs.tla              # and the other seven *Proofs.tla
