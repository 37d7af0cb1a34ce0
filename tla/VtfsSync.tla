------------------------------ MODULE VtfsSync ------------------------------
(***************************************************************************)
(* The module next to the server: which of them has what, over the calls   *)
(* of several threads, lost requests, evicted dentries and reloads of the  *)
(* module.  A call changes the module's entries first and then sends the   *)
(* server a request whose answer it ignores; a lookup of a name that is    *)
(* not there fetches it from the server; a read asks the server first.     *)
(*                                                                         *)
(* The names are those of one directory; one module on one mount is the    *)
(* server's only client.  A call is cut at each request: at what it waits  *)
(* for, other calls run.  Unlink next to a read or write of the same file, *)
(* which uses freed memory, is VtfsContent's and left out here; so are     *)
(* hard links, of which the server is not told.                            *)
(***************************************************************************)
EXTENDS Integers, Sequences, FiniteSets, FiniteSetsExt, SequencesExt

CONSTANTS
  Procs,    \* threads in system calls
  Names,    \* the names in the directory
  Bytes,    \* the bytes they write
  Faults,   \* TRUE: requests and answers may be lost, inodes refused
  MaxSent,  \* bytes a write request always has room for: its text is cut where
            \* the encoded bytes no longer fit, which depends on the bytes
  MaxSize   \* bound: bytes in a file

ASSUME SyncAssumption == Faults \in BOOLEAN /\ {MaxSent, MaxSize} \subseteq Nat

VARIABLES
  local,     \* the module's entry of each name
  remote,    \* the server's entry of each path
  dentry,    \* what the kernel remembers of each name
  call,      \* what each thread is doing
  truth,     \* history: what the calls have made of each name not in diverged
  diverged   \* history: names on which something is known to go wrong

vars == <<local, remote, dentry, call, truth, diverged>>
history == <<truth, diverged>>

Zero == "zero"
Texts == SeqOf(Bytes \cup {Zero}, MaxSize)

None == [kind |-> "none", data |-> <<>>]
Dir == [kind |-> "dir", data |-> <<>>]     \* on the server: with two links
Dying == [kind |-> "dying", data |-> <<>>] \* a server's directory with one
File(data) == [kind |-> "file", data |-> data]
IsFile(f) == f.kind = "file"

Things == {None, Dir} \cup [kind: {"file"}, data: Texts]

\* calm is history: no write of the file has been under way with this read.
Idle == [op |-> "none", step |-> "idle", name |-> "none", thing |-> None,
         pos |-> 0, calm |-> FALSE]

Init ==
  /\ local = [n \in Names |-> None] /\ remote = [n \in Names |-> None]
  /\ dentry = [n \in Names |-> "none"]
  /\ call = [p \in Procs |-> Idle]
  /\ truth = [n \in Names |-> None] /\ diverged = {}

-----------------------------------------------------------------------------
(***************************************************************************)
(* Threads and the directory's i_rwsem.                                    *)
(***************************************************************************)
At(p, step) == call[p].step = step
Go(p, step) == call' = [call EXCEPT ![p].step = step]
GoWith(p, step, thing) == call' = [call EXCEPT ![p].step = step, ![p].thing = thing]
Return(p) == call' = [call EXCEPT ![p] = Idle]

Active(p) == call[p].step \notin {"idle", "wait"}
On(n) == {p \in Procs : Active(p) /\ call[p].name = n}
Quiet(n) == On(n) = {}
Doing(n, ops) == {p \in On(n) : call[p].op \in ops}

\* create, mkdir, unlink and rmdir hold the lock for themselves, lookups share
\* it and wait for a lookup of the same name; read and write do not take it.
Alone == {"create", "mkdir", "unlink", "rmdir"}
Changing == {p \in Procs : Active(p) /\ call[p].op \in Alone}
Looking == {p \in Procs : Active(p) /\ call[p].op = "lookup"}

Begin(p, op, n) ==
  /\ At(p, "idle")
  /\ call' = [call EXCEPT ![p] = [Idle EXCEPT !.op = op, !.step = "wait", !.name = n]]
  /\ UNCHANGED <<local, remote, dentry, history>>

\* The lock is free for the call of a thread that waits for it.
MayEnter(p) ==
  LET c == call[p] IN
  /\ At(p, "wait") /\ Changing = {}
  /\ IF c.op = "lookup" THEN Doing(c.name, {"lookup"}) = {}
     ELSE Looking = {} /\ (c.op \in {"unlink", "rmdir"} => Doing(c.name, {"read", "write"}) = {})

\* The kernel asks for a lookup of a name it knows nothing of, for the creation
\* of one it knows not to be there, for the removal of what it knows.
Called(c) ==
  CASE c.op = "lookup" -> dentry[c.name] = "none"
    [] c.op = "unlink" -> dentry[c.name] = "positive" /\ IsFile(local[c.name])
    [] c.op = "rmdir"  -> dentry[c.name] = "positive" /\ local[c.name] = Dir
    [] OTHER           -> dentry[c.name] = "negative"

-----------------------------------------------------------------------------
(***************************************************************************)
(* The calls up to their first request.                                    *)
(***************************************************************************)
Remember(n, what) == dentry' = [dentry EXCEPT ![n] = what]
Keep(n, thing) == local' = [local EXCEPT ![n] = thing]

\* History: what a call has made of a name, and the names that have diverged.
Record(n, thing, bad) ==
  /\ diverged' = bad
  /\ truth' = [truth EXCEPT ![n] = IF n \in bad THEN None ELSE thing]

\* The module's entry is changed.
Now(n, thing) == Keep(n, thing) /\ Record(n, thing, diverged)

\* vtfs_lookup: an entry of the module's own needs no request.
EnterLookup(p) ==
  LET n == call[p].name IN
  /\ IF local[n] = None THEN Go(p, "stat") /\ UNCHANGED dentry
                        ELSE Return(p) /\ Remember(n, "positive")
  /\ UNCHANGED <<local, remote, history>>

\* vtfs_create and vtfs_mkdir: the new entry, then the server is told.
EnterCreate(p) ==
  LET n == call[p].name IN
  /\ Now(n, IF call[p].op = "mkdir" THEN Dir ELSE File(<<>>))
  /\ Go(p, "create")
  /\ UNCHANGED <<remote, dentry>>

\* Mutant: the server is not told.
EnterDeleteLocally(p) ==
  /\ Now(call[p].name, None)
  /\ Remember(call[p].name, "negative") /\ Return(p)
  /\ UNCHANGED remote

\* vtfs_unlink and vtfs_rmdir: the entry goes, then the server is told.
EnterDelete(p) ==
  LET n == call[p].name IN
  /\ Now(n, None)
  /\ Go(p, "delete")
  /\ UNCHANGED <<remote, dentry>>

Enter(p) ==
  /\ MayEnter(p)
  /\ IF ~Called(call[p]) THEN Return(p) /\ UNCHANGED <<local, remote, dentry, history>>
     ELSE \/ call[p].op = "lookup" /\ EnterLookup(p)
          \/ call[p].op \in {"create", "mkdir"} /\ EnterCreate(p)
          \/ call[p].op \in {"unlink", "rmdir"} /\ EnterDelete(p)

\* Mutant: a file that is still being fetched can be opened.
OpenedEarly(n) == IsFile(local[n]) /\ Doing(n, Alone) = {}

\* An open file: its dentry stays, and nobody is removing it.
Opened(n) == dentry[n] = "positive" /\ IsFile(local[n]) /\ Doing(n, Alone) = {}

\* Mutant: the bytes go to the end.
LocalAppended(data, pos, text) == data \o text

\* memcpy over what was there, from a position not beyond the end.
LocalWritten(data, pos, text) ==
  [i \in 1 .. Max({pos + Len(text), Len(data)}) |->
     IF i \in pos + 1 .. pos + Len(text) THEN text[i - pos] ELSE data[i]]

\* Only a write that covers the whole file, alone and in one request, leaves
\* both sides alike.
Covers(n, pos, text) ==
  /\ pos = 0 /\ Len(text) \in Len(local[n].data) .. MaxSent
  /\ Doing(n, {"write"}) = {}

\* vtfs_write up to the first request: the module's copy, and truth with it.
Write(p, n) ==
  \E pos \in 0 .. Len(local[n].data), text \in SeqOf(Bytes, MaxSize) \ {<<>>} :
    LET made == File(LocalWritten(local[n].data, pos, text)) IN
    /\ At(p, "idle") /\ Opened(n) /\ pos + Len(text) <= MaxSize
    /\ Keep(n, made)
    /\ Record(n, made, IF Covers(n, pos, text) THEN diverged ELSE diverged \cup {n})
    /\ call' = [q \in Procs |->
         IF q = p THEN [Idle EXCEPT !.op = "write", !.step = "write_first", !.name = n,
                                    !.thing = File(text), !.pos = pos]
         ELSE [call[q] EXCEPT !.calm = @ /\ call[q].name # n]]
    /\ UNCHANGED <<remote, dentry>>

\* vtfs_read: the end of the file is where the module has it.
Read(p, n) ==
  \E pos \in 0 .. MaxSize :
    /\ At(p, "idle") /\ Opened(n) /\ pos < Len(local[n].data)
    /\ call' = [call EXCEPT ![p] =
         [Idle EXCEPT !.op = "read", !.step = "read", !.name = n, !.pos = pos,
                      !.calm = Doing(n, {"write"}) = {}]]
    /\ UNCHANGED <<local, remote, dentry, history>>

-----------------------------------------------------------------------------
(***************************************************************************)
(* The server, as FileSystemService answers these requests.                *)
(***************************************************************************)

\* write: at offset 0 the rest of the file becomes zero, elsewhere it stays.
ServerWritten(f, pos, text) ==
  IF ~IsFile(f) THEN f
  ELSE File([i \in 1 .. Max({pos + Len(text), Len(f.data)}) |->
         CASE i \in pos + 1 .. pos + Len(text) -> text[i - pos]
           [] i \notin pos + 1 .. pos + Len(text) /\ pos > 0 /\ i <= Len(f.data) -> f.data[i]
           [] OTHER -> Zero])

\* The text of a write arrives whole, or of a long one what there was room for;
\* cut, it may also be no base64 any more and is refused.
Arrived(f, pos, text) ==
  IF Len(text) <= MaxSent THEN {ServerWritten(f, pos, text)}
  ELSE {f} \cup {ServerWritten(f, pos, SubSeq(text, 1, m)) : m \in MaxSent .. Len(text)}

\* create: what is there stays, and without a row of the directory, whose own
\* creation was lost, nothing is made.
ServerCreated(f, isdir) ==
  IF f # None THEN {f}
  ELSE {IF isdir THEN Dir ELSE File(<<>>)} \cup (IF Faults THEN {None} ELSE {})

\* delete: one link less; a directory has two, and keeps them while the server
\* still has an entry in it.
ServerDeleted(f) ==
  CASE f = Dir   -> {Dir, Dying}
    [] f = Dying -> {Dying, None}
    [] OTHER     -> {None}

\* What the request of a thread can make of the server's entry.
Served(c, f) ==
  CASE c.step = "create" -> ServerCreated(f, c.op = "mkdir")
    [] c.step = "delete" -> ServerDeleted(f)
    [] c.step \in {"echo", "write_first"} -> Arrived(f, 0, c.thing.data)
    [] c.step = "write" -> Arrived(f, c.pos, c.thing.data)
    [] OTHER -> {f}

Requests == {"stat", "fetch", "echo", "create", "delete", "write_first", "write", "read"}

-----------------------------------------------------------------------------
(***************************************************************************)
(* The calls from their requests on.                                       *)
(***************************************************************************)

\* vtfs_storage_write sends them at offset 0, then vtfs_write at their own.
AfterFirst == "write"

\* A lookup ends with what it found.
Found(p, n, what) == Remember(n, what) /\ Return(p)

\* The answer to a stat; a directory that is dying is one.
Stated(p, n, f) ==
  IF f = None THEN Found(p, n, "negative")
  ELSE GoWith(p, "insert", IF IsFile(f) THEN f ELSE Dir) /\ UNCHANGED dentry

\* The answer to the read of a fetch: without bytes nothing is written.
Fetched(p, n, f) ==
  IF f.data = <<>> THEN Found(p, n, "positive")
  ELSE GoWith(p, "fill", f) /\ UNCHANGED dentry

\* Mutant: the result is the file from its start.
AnsweredFromStart(p, f) == call' = [call EXCEPT ![p] = [Idle EXCEPT !.thing = f]]

\* The answer to a read: bytes the server has, also none, are the result.
Answered(p, f) ==
  call' = [call EXCEPT ![p] =
    [Idle EXCEPT !.thing = File(SubSeq(f.data, call[p].pos + 1, Len(f.data)))]]

\* What the thread does with the answer f.
Answer(p, f) ==
  LET c == call[p]  n == call[p].name IN
  CASE c.step = "stat"        -> Stated(p, n, f)
    [] c.step = "fetch"       -> IF IsFile(f) THEN Fetched(p, n, f) ELSE Found(p, n, "positive")
    [] c.step = "echo"        -> Found(p, n, "positive")
    [] c.step = "create"      -> Go(p, "inode") /\ UNCHANGED dentry
    [] c.step = "delete"      -> IF c.op \in {"unlink", "rmdir"} THEN Found(p, n, "negative")
                                 ELSE Return(p) /\ UNCHANGED dentry
    [] c.step = "write_first" -> Go(p, AfterFirst) /\ UNCHANGED dentry
    [] c.step = "write"       -> Return(p) /\ UNCHANGED dentry
    [] OTHER -> (IF IsFile(f) THEN Answered(p, f) ELSE Go(p, "read_local")) /\ UNCHANGED dentry

\* A request is served.  A create finds something there that the stat before
\* had missed, or no directory; a directory is not or only half deleted; once
\* both sides have nothing they agree again.
Serve(p) ==
  LET c == call[p]  n == c.name  f == remote[n] IN
  /\ c.step \in Requests
  /\ \E g \in Served(c, f) :
       /\ remote' = [remote EXCEPT ![n] = g]
       /\ Record(n, truth[n],
                 CASE c.step = "create" /\ (f # None \/ g = None) -> diverged \cup {n}
                   [] c.step = "delete" /\ g # None -> diverged \cup {n}
                   [] c.step = "delete" /\ g = None -> diverged \ {n}
                   [] OTHER -> diverged)
  /\ Answer(p, f)
  /\ UNCHANGED local

\* It is not, or its answer is lost; an answer that nobody looks at makes no
\* difference, so what was served has been served above.
Lose(p) ==
  LET c == call[p]  n == c.name IN
  /\ Faults /\ c.step \in Requests
  /\ CASE c.step = "read" -> Go(p, "read_local") /\ UNCHANGED dentry
       [] OTHER -> Answer(p, None)
  /\ Record(n, truth[n],
            IF c.step \in {"create", "delete", "write", "fetch"}
            THEN diverged \cup {n} ELSE diverged)
  /\ UNCHANGED <<local, remote>>

\* Mutant: without bytes the lookup goes on as if nothing had been found.
InsertUnknown(p) ==
  LET n == call[p].name  f == call[p].thing IN
  /\ At(p, "insert")
  /\ Keep(n, IF IsFile(f) THEN File(<<>>) ELSE Dir)
  /\ IF f.data = <<>> THEN Found(p, n, "negative") ELSE Go(p, "fetch") /\ UNCHANGED dentry
  /\ UNCHANGED <<remote, history>>

\* fetch_from_remote with the answer of the stat: the new entry, empty.
Insert(p) ==
  LET n == call[p].name  f == call[p].thing IN
  /\ At(p, "insert")
  /\ Keep(n, IF IsFile(f) THEN File(<<>>) ELSE Dir)
  /\ IF f.data = <<>> THEN Found(p, n, "positive") ELSE Go(p, "fetch") /\ UNCHANGED dentry
  /\ UNCHANGED <<remote, history>>

\* ... and with the bytes: they are written, and so sent to the server again.
Fill(p) ==
  LET n == call[p].name IN
  /\ At(p, "fill")
  /\ Keep(n, File(LocalWritten(local[n].data, 0, call[p].thing.data)))
  /\ Go(p, "echo")
  /\ UNCHANGED <<remote, dentry, history>>

\* vtfs_get_inode, after create has told the server.  Without an inode the
\* entry goes again, here and there.
Instantiate(p) ==
  LET n == call[p].name IN
  /\ At(p, "inode")
  /\ \/ Found(p, n, "positive") /\ UNCHANGED <<local, history>>
     \/ Faults /\ Now(n, None) /\ Go(p, "delete") /\ UNCHANGED dentry
  /\ UNCHANGED remote

\* vtfs_storage_read, when the server gave an error.
ReadLocal(p) ==
  LET c == call[p] IN
  /\ At(p, "read_local")
  /\ Answered(p, local[c.name])
  /\ UNCHANGED <<local, remote, dentry, history>>

-----------------------------------------------------------------------------
(***************************************************************************)
(* The kernel.                                                             *)
(***************************************************************************)
Evict(n) ==
  /\ Quiet(n) /\ dentry[n] # "none"
  /\ Remember(n, "none")
  /\ UNCHANGED <<local, remote, call, history>>

\* umount, rmmod, insmod, mount: the entries are gone, the server's are not.
Reload ==
  /\ \A p \in Procs : At(p, "idle")
  /\ local' = [n \in Names |-> None] /\ dentry' = [n \in Names |-> "none"]
  /\ UNCHANGED <<remote, call, history>>

Step(p) == Serve(p) \/ Lose(p) \/ Insert(p) \/ Fill(p) \/ Instantiate(p) \/ ReadLocal(p)

Calls == Alone \cup {"lookup"}

Next ==
  \/ \E p \in Procs, n \in Names :
       Read(p, n) \/ Write(p, n) \/ \E op \in Calls : Begin(p, op, n)
  \/ \E p \in Procs : Enter(p) \/ Step(p)
  \/ \E n \in Names : Evict(n)
  \/ Reload

Spec == Init /\ [][Next]_vars

-----------------------------------------------------------------------------
TypeOK ==
  /\ local \in [Names -> Things] /\ remote \in [Names -> Things \cup {Dying}]
  /\ dentry \in [Names -> {"none", "negative", "positive"}]
  /\ truth \in [Names -> Things] /\ diverged \subseteq Names
  /\ \A p \in Procs :
       /\ call[p].op \in Calls \cup {"none", "read", "write"}
       /\ call[p].step \in Requests
            \cup {"idle", "wait", "insert", "fill", "inode", "read_local"}
       /\ call[p].name \in Names \cup {"none"} /\ call[p].thing \in Things

\* The server has what the calls have made, and the module the same or has not
\* fetched it, also after reloads, failed lookups and creations taken back:
\* nothing deleted comes back, nothing written is gone.  The exceptions are
\* those of diverged: an update or the bytes of a fetch were lost, a write did
\* not cover its file, was too long for a request or met another one, a
\* directory was removed, a file was created where a lost stat had hidden one
\* or where the server has no directory.
SidesAgree ==
  \A n \in Names \ diverged : Quiet(n) =>
    remote[n] = truth[n] /\ local[n] \in {None, truth[n]}

\* A read that no write of the file overlaps returns what the calls have
\* written, whether the bytes come from the server or from the module.
ReadsTruthStep ==
  \A p \in Procs : LET c == call[p]  n == c.name IN
    c.op = "read" /\ c.step # "idle" /\ call'[p].step = "idle" /\ c.calm /\ n \notin diverged =>
      call'[p].thing = File(SubSeq(truth[n].data, c.pos + 1, Len(truth[n].data)))
ReadsTruth == [][ReadsTruthStep]_vars

\* What a fetch sends back to the server is what the server has, as far as a
\* request has room for it: no write that came in between is overwritten there.
EchoHarmlessStep ==
  \A p \in Procs :
    At(p, "echo") /\ call'[p].step # "echo" /\ Len(call[p].thing.data) <= MaxSent =>
      remote' = remote
EchoHarmless == [][EchoHarmlessStep]_vars

\* The dentry of a name that the module has is never negative between calls: a
\* create does not meet an entry the kernel was not told of.
DentriesKnow ==
  \A n \in Names : Quiet(n) =>
    /\ dentry[n] = "negative" => local[n] = None
    /\ dentry[n] = "positive" => local[n] # None

\* While nothing is lost, the server has each file as the module has it
\* (README.md: files are kept in memory and can be synchronised with the
\* server).
FilesMirrored == \A n \in Names : Quiet(n) /\ IsFile(local[n]) => remote[n] = local[n]

=============================================================================
