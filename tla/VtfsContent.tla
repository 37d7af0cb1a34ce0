----------------------------- MODULE VtfsContent -----------------------------
(***************************************************************************)
(* The contents of one file: read and write (module/file_ops.c and         *)
(* storage.c) by several threads, while link and unlink give the file more *)
(* names and take them away.  Each name is a struct vtfs_entry with its    *)
(* own data pointer, size and capacity; link copies the three one after    *)
(* another, and every access by inode number reaches the newest name.      *)
(* Nothing keeps these calls apart but the lock of an inode, which link    *)
(* holds for the name it starts from and unlink for the one it removes;    *)
(* two names need not share an inode (vtfs_get_inode makes a new one at    *)
(* every lookup), and read and write take no such lock at all.             *)
(*                                                                         *)
(* Entries and buffers are numbered in the order they were allocated and   *)
(* no number is given twice.  A handler is cut where it drops the store's  *)
(* lock; what it keeps in between is an entry pointer and an offset.  The  *)
(* copies of the contents on the server are not part of this module.       *)
(***************************************************************************)
EXTENDS Integers, Sequences, FiniteSets, FiniteSetsExt, Functions

CONSTANTS
  Procs,        \* threads in system calls
  Bytes,        \* the bytes they write
  MaxFileSize,  \* VTFS_MAX_FILE_SIZE
  MinCapacity,  \* the least capacity krealloc is asked for
  MaxLen,       \* bound: bytes in one write
  MaxNames,     \* bound: entries the file ever has
  MaxBuffers    \* bound: buffers krealloc ever returns

ASSUME ContentAssumption ==
  {MaxFileSize, MinCapacity, MaxLen, MaxNames, MaxBuffers} \subseteq Nat \ {0}

VARIABLES
  names,      \* the live entries of the inode
  made,       \* how many entries it has had
  entry,      \* the data, size and capacity of each
  heap,       \* the bytes of each buffer
  live,       \* the buffers that have not been freed
  buffers,    \* how many buffers krealloc has returned
  call,       \* what each thread is doing
  file,       \* history: the contents the writes have made
  beheaded,   \* history: the newest name went while older ones stayed
  overtaken,  \* history: a write or a link used a name that was not the newest,
              \* or that a link was still filling
  torn        \* history: the names written to before link had filled them

vars == <<names, made, entry, heap, live, buffers, call, file, beheaded,
          overtaken, torn>>
heap_vars == <<heap, live, buffers>>
history == <<file, beheaded, overtaken, torn>>

NULL == 0
Zero == "zero"        \* set by memset
Garbage == "garbage"  \* left in memory by whoever had it before
Gap == "gap"          \* of a file: never written

Ops == {"read", "write", "append", "link", "unlink"}
Steps == {"idle", "read", "write", "insert", "data", "size", "capacity", "delete",
          "undefined"}
Linking == {"insert", "data", "size", "capacity"}

\* A call: the entry it found by number (unlink: by name), the name whose inode
\* it has locked, the entry link has made; the offset and bytes of an access.
Idle == [op |-> "none", step |-> "idle", entry |-> NULL, name |-> NULL,
         child |-> NULL, pos |-> 0, text |-> <<>>]

NoData == [data |-> NULL, size |-> 0, capacity |-> 0]

\* vtfs_create has just made the file, with one name and no data.
Init ==
  /\ names = {1} /\ made = 1
  /\ entry = [e \in 1 .. MaxNames |-> NoData]
  /\ heap = [b \in 1 .. MaxBuffers |-> <<>>]
  /\ live = {} /\ buffers = 0
  /\ call = [p \in Procs |-> Idle]
  /\ file = <<>> /\ beheaded = FALSE /\ overtaken = FALSE /\ torn = {}

-----------------------------------------------------------------------------
\* vtfs_storage_get_by_ino: list_add puts an entry at the head of the list.
newest == Max(names)

At(p, step) == call[p].step = step
Return(p) == call' = [call EXCEPT ![p] = Idle]

\* The entries link has put on the list and not yet given their contents.
Filling == {call[p].child : p \in Procs} \ {NULL}

\* The names a link or an unlink may be called for: the dentry exists, and no
\* other call holds the lock of its inode.
Unlocked == names \ (Filling \cup {call[p].name : p \in Procs})

\* Read, write and link find the entry by the number of the inode.
Enter(p, c) ==
  /\ At(p, "idle")
  /\ call' = [call EXCEPT ![p] = c]
  /\ UNCHANGED <<names, made, entry, heap_vars, history>>

\* vtfs_read up to the allocation of its buffer; at or beyond the end: 0 bytes.
BeginRead(p) ==
  \E pos \in 0 .. MaxFileSize :
    /\ names # {} /\ pos < entry[newest].size
    /\ Enter(p, [Idle EXCEPT !.op = "read", !.step = "read", !.entry = newest,
                             !.pos = pos])

\* vtfs_write up to vtfs_storage_write.  The size is checked against the
\* offset of the file, before O_APPEND moves that to the end.
BeginWrite(p) ==
  \E pos \in 0 .. MaxFileSize, n \in 1 .. MaxLen, b \in Bytes, op \in {"write", "append"} :
    /\ names # {} /\ pos + n <= MaxFileSize
    /\ Enter(p, [Idle EXCEPT !.op = op, !.step = "write", !.entry = newest,
                             !.pos = IF op = "append" THEN entry[newest].size ELSE pos,
                             !.text = [i \in 1 .. n |-> b]])

BeginLink(p) ==
  /\ made < MaxNames
  /\ \E n \in Unlocked :
       Enter(p, [Idle EXCEPT !.op = "link", !.step = "insert", !.entry = newest,
                             !.name = n])

BeginUnlink(p) ==
  \E n \in Unlocked :
    Enter(p, [Idle EXCEPT !.op = "unlink", !.step = "delete", !.entry = n,
                          !.name = n])

-----------------------------------------------------------------------------
\* The buffer of entry e, if it has one, has not been freed.
BufferLive(e) == entry[e].data \in live \cup {NULL}

\* What the call's next step touches is memory that is still the file's: the
\* entry it found, and the buffer where it reads, writes or frees one.
Safe(p) ==
  LET e == call[p].entry
      c == entry[e]
      end == call[p].pos + Len(call[p].text)
  IN  /\ e \in names
      /\ At(p, "read") /\ call[p].pos < c.size =>
           BufferLive(e) /\ (c.data # NULL => c.size <= Len(heap[c.data]))
      /\ At(p, "write") /\ end <= MaxFileSize =>
           BufferLive(e) /\ (end <= c.capacity =>
                                c.data # NULL /\ end <= Len(heap[c.data]))
      /\ At(p, "delete") /\ names = {e} => BufferLive(e)

\* A call that uses freed memory: what the kernel does from there on is not
\* defined, and the model has nothing after it.
Undefined(p) ==
  /\ ~At(p, "idle") /\ ~Safe(p)
  /\ call' = [call EXCEPT ![p].step = "undefined"]
  /\ UNCHANGED <<names, made, entry, heap_vars, history>>

\* The bytes of s with t put at offset pos; what lies between is filled.
Put(s, pos, t, fill) ==
  [i \in 1 .. Max({Len(s), pos + Len(t)}) |->
     IF i \in pos + 1 .. pos + Len(t) THEN t[i - pos]
     ELSE IF i <= Len(s) THEN s[i] ELSE fill]

\* vtfs_storage_read, of all there is.  The bytes go to the caller; nothing here
\* changes.
Read(p) ==
  /\ At(p, "read") /\ Safe(p)
  /\ Return(p)
  /\ UNCHANGED <<names, made, entry, heap_vars, history>>

\* Mutants: the size is set to where the write ended; the limit is left to
\* vtfs_write; a write far beyond the end needs more than twice the buffer.
SizeIsEnd(old, end) == end
NeverRefused(end) == FALSE
CapacityDoubled(old, end) == Max({old * 2, MinCapacity})

SizeAfter(old, end) == Max({old, end})
Refused(end) == end > MaxFileSize
Capacity(old, end) == Max({end, old * 2, MinCapacity})

\* What a buffer of that capacity holds after krealloc: the old bytes, then
\* whatever the memory held; the gap before the offset is cleared.
Grown(c, capacity, pos) ==
  LET old == IF c.data = NULL THEN <<>> ELSE heap[c.data] IN
  [i \in 1 .. capacity |->
     IF i \in c.size + 1 .. pos THEN Zero
     ELSE IF i <= Len(old) THEN old[i] ELSE Garbage]

\* The memory of a buffer that krealloc moved means nothing any more.
Without(b) == IF b = NULL THEN heap ELSE [heap EXCEPT ![b] = <<>>]

\* vtfs_storage_write.  krealloc extends the buffer where it is, or moves it
\* and frees the old one.  What fits is written with no look at the gap.
Write(p) ==
  LET e == call[p].entry
      c == entry[e]
      pos == call[p].pos
      end == pos + Len(call[p].text)
      size == SizeAfter(c.size, end)
  IN  /\ At(p, "write") /\ Safe(p) /\ ~Refused(end)
      /\ IF end <= c.capacity
         THEN /\ heap' = [heap EXCEPT ![c.data] = Put(@, pos, call[p].text, Zero)]
              /\ entry' = [entry EXCEPT ![e].size = size]
              /\ UNCHANGED <<live, buffers>>
         ELSE LET capacity == Capacity(c.capacity, end) IN
              \E b \in {c.data, buffers + 1} \cap 1 .. MaxBuffers :
                /\ heap' = [Without(c.data) EXCEPT
                     ![b] = Put(Grown(c, capacity, pos), pos, call[p].text, Zero)]
                /\ entry' = [entry EXCEPT
                     ![e] = [data |-> b, size |-> size, capacity |-> capacity]]
                /\ buffers' = Max({buffers, b})
                /\ live' = (live \ {c.data}) \cup {b}
      /\ file' = Put(file, pos, call[p].text, Gap)
      /\ overtaken' = (overtaken \/ e # newest \/ e \in Filling)
      /\ torn' = torn \cup ({e} \cap Filling)
      /\ Return(p)
      /\ UNCHANGED <<names, made, beheaded>>

\* EFBIG, or krealloc found no memory: nothing is written.
WriteFails(p) ==
  /\ At(p, "write") /\ Safe(p)
  /\ LET c == call[p]  end == c.pos + Len(c.text)
     IN  Refused(end) \/ end > entry[c.entry].capacity
  /\ Return(p)
  /\ UNCHANGED <<names, made, entry, heap_vars, history>>

\* vtfs_link: the new entry is on the list, and found by number, before it has
\* any contents ...
LinkInsert(p) ==
  /\ At(p, "insert") /\ Safe(p) /\ made < MaxNames
  /\ made' = made + 1
  /\ names' = names \cup {made + 1}
  /\ overtaken' = (overtaken \/ call[p].entry # newest \/ call[p].entry \in Filling)
  /\ call' = [call EXCEPT ![p].step = "data", ![p].child = made + 1]
  /\ UNCHANGED <<entry, heap_vars, file, beheaded, torn>>

\* ... which are copied without the lock, field by field.
CopyData(p) ==
  /\ At(p, "data") /\ Safe(p)
  /\ entry' = [entry EXCEPT ![call[p].child].data = entry[call[p].entry].data]
  /\ call' = [call EXCEPT ![p].step = "size"]
  /\ UNCHANGED <<names, made, heap_vars, history>>

\* Mutant: the size is left at 0.
SizeLeft(p) ==
  /\ At(p, "size") /\ Safe(p)
  /\ call' = [call EXCEPT ![p].step = "capacity"]
  /\ UNCHANGED <<names, made, entry, heap_vars, history>>

CopySize(p) ==
  /\ At(p, "size") /\ Safe(p)
  /\ entry' = [entry EXCEPT ![call[p].child].size = entry[call[p].entry].size]
  /\ call' = [call EXCEPT ![p].step = "capacity"]
  /\ UNCHANGED <<names, made, heap_vars, history>>

\* vtfs_storage_add_link, which follows, counts links and is in VtfsInodeOps.
CopyCapacity(p) ==
  /\ At(p, "capacity") /\ Safe(p)
  /\ entry' = [entry EXCEPT ![call[p].child].capacity = entry[call[p].entry].capacity]
  /\ Return(p)
  /\ UNCHANGED <<names, made, heap_vars, history>>

\* vtfs_storage_delete_entry: the last name takes the buffer with it.
\* Mutant: only the entry is freed.
FreesEntryOnly(e) == {}
FreedWith(e) == IF names = {e} THEN {entry[e].data} \ {NULL} ELSE {}

Delete(p) ==
  LET e == call[p].entry IN
  /\ At(p, "delete") /\ Safe(p)
  /\ names' = names \ {e}
  /\ entry' = [entry EXCEPT ![e] = NoData]
  /\ live' = live \ FreedWith(e)
  /\ heap' = [b \in DOMAIN heap |-> IF b \in FreedWith(e) THEN <<>> ELSE heap[b]]
  /\ beheaded' = (beheaded \/ (e = newest /\ names # {e}))
  /\ Return(p)
  /\ UNCHANGED <<made, buffers, file, overtaken, torn>>

Next ==
  /\ \A p \in Procs : ~At(p, "undefined")
  /\ \E p \in Procs :
       \/ BeginRead(p) \/ BeginWrite(p) \/ BeginLink(p) \/ BeginUnlink(p)
       \/ Read(p) \/ Write(p) \/ WriteFails(p)
       \/ LinkInsert(p) \/ CopyData(p) \/ CopySize(p) \/ CopyCapacity(p)
       \/ Delete(p) \/ Undefined(p)

Spec == Init /\ [][Next]_vars

-----------------------------------------------------------------------------
TypeOK ==
  /\ names \subseteq 1 .. made /\ made \in 1 .. MaxNames
  /\ entry \in [1 .. MaxNames -> [data: 0 .. buffers, size: Nat,
                                  capacity: {0} \cup {n \in Nat : n >= MinCapacity}]]
  /\ buffers \in 0 .. MaxBuffers /\ live \subseteq 1 .. buffers
  /\ \A b \in 1 .. MaxBuffers : Range(heap[b]) \subseteq Bytes \cup {Zero, Garbage}
  /\ \A p \in Procs :
       /\ call[p].op \in Ops \cup {"none"} /\ call[p].step \in Steps
       /\ {call[p].entry, call[p].name, call[p].child} \subseteq 0 .. made
       /\ call[p].pos \in 0 .. MaxFileSize /\ Range(call[p].text) \subseteq Bytes
  /\ Range(file) \subseteq Bytes \cup {Gap}
  /\ {beheaded, overtaken} \subseteq BOOLEAN /\ torn \subseteq 1 .. made

\* The name e shows what was written to the file, byte for byte; of what was
\* never written it shows anything.
Shows(e) ==
  LET c == entry[e] IN
  /\ c.size = Len(file)
  /\ c.size > 0 => c.data \in live
  /\ \A i \in 1 .. c.size : file[i] \in {Gap, heap[c.data][i]}

\* The newest name has every write, whichever call it was made by and however
\* often the buffer moved, next to reads, links and unlinks of other names that
\* may come between any two steps: unless the newest name was removed before
\* older ones, or a write or a link that had found an older name, or one that was
\* still being filled, came after the name that replaced it.
NewestShowsFile ==
  names # {} /\ ~beheaded /\ ~overtaken /\ newest \notin Filling => Shows(newest)

\* No size is past the limit, although vtfs_write checks the limit against an
\* offset O_APPEND replaces.  But for the cases above, the sizes and capacities
\* that the accesses trust are covered by memory.
SizeFits ==
  /\ \A e \in names : entry[e].size <= MaxFileSize
  /\ ~overtaken => \A e \in names \ Filling :
       /\ entry[e].size <= entry[e].capacity
       /\ e = newest /\ entry[e].data # NULL /\ ~beheaded =>
            entry[e].capacity <= Len(heap[entry[e].data])

\* A read that found bytes beyond its offset gets at least one when it takes the
\* lock later: no false end of file, whatever links, unlinks and writes came in
\* between.  A name written to before link stored its size in it is excepted.
ReadHasBytes ==
  \A p \in Procs : At(p, "read") /\ call[p].entry \in names \ torn =>
    call[p].pos < entry[call[p].entry].size

\* A file that never had a second name owns one buffer at most, and none when
\* it is gone: krealloc and the last unlink free what the file gives up.
NothingLeaks == made = 1 => live = {entry[e].data : e \in names} \ {NULL}

\* An append puts its bytes at the end of the file (test.sh appends with tee -a
\* and expects the data to be added), also when two threads append.
AppendsAtEnd ==
  \A p \in Procs : At(p, "write") /\ call[p].op = "append" =>
    call[p].pos = entry[call[p].entry].size

\* Every name of a file is the file (README.md lists hard links as done): the
\* name that accesses reach has what was written, also when a write was under way
\* during the link, or another name has been removed.
HardLinksShareContent == names # {} /\ newest \notin Filling => Shows(newest)

\* A read, a write or a link does not use an entry that unlink has freed.
EntryLive ==
  \A p \in Procs : call[p].step \in {"read", "write"} \cup Linking =>
    call[p].entry \in names

=============================================================================
