---------------------------- MODULE VtfsSyncProofs ----------------------------
(***************************************************************************)
(* Proofs about VtfsSync, for any threads, names, bytes, file size and room *)
(* in a request, with or without faults.                                   *)
(***************************************************************************)
EXTENDS VtfsSync, SequenceTheorems, TLAPS

Steps == Requests \cup {"idle", "wait", "insert", "fill", "inode", "read_local"}

Call == [op: Calls \cup {"none", "read", "write"}, step: Steps,
         name: Names \cup {"none"}, thing: Things, pos: 0 .. MaxSize, calm: BOOLEAN]

-----------------------------------------------------------------------------
(***************************************************************************)
(* The inductive invariant: what both sides have while a call is at a      *)
(* step, which calls exclude each other, and what is left when none runs.  *)
(***************************************************************************)
Running(c) == c.step \notin {"idle", "wait"}

\* What create and mkdir make.
Made(c) == IF c.op = "mkdir" THEN Dir ELSE File(<<>>)

\* A lookup: nobody changes the server's entry while it is fetched.
LookupOK(c) ==
  LET n == c.name IN
  /\ dentry[n] = "none"
  /\ n \notin diverged => remote[n] = truth[n]
  /\ \/ c.step = "stat" /\ local[n] = None
     \/ /\ c.step = "insert" /\ local[n] = None /\ remote[n] # None
        /\ c.thing = IF IsFile(remote[n]) THEN remote[n] ELSE Dir
     \/ /\ c.step \in {"fetch", "fill"} /\ local[n] = File(<<>>)
        /\ c.thing = remote[n] /\ IsFile(remote[n]) /\ remote[n].data # <<>>
     \/ /\ c.step = "echo" /\ local[n] = remote[n]
        /\ c.thing = remote[n] /\ IsFile(remote[n])

\* A creation: the kernel knows that the name was free; taken back, it leaves
\* nothing.
CreateOK(c) ==
  LET n == c.name IN
  /\ dentry[n] = "negative"
  /\ \/ /\ c.step = "create" /\ local[n] = Made(c)
        /\ n \notin diverged => truth[n] = Made(c)
     \/ /\ c.step = "inode" /\ local[n] = Made(c)
        /\ n \notin diverged => truth[n] = Made(c) /\ remote[n] = Made(c)
     \/ c.step = "delete" /\ local[n] = None /\ truth[n] = None

RemoveOK(c) ==
  LET n == c.name IN
  dentry[n] = "positive" /\ c.step = "delete" /\ local[n] = None /\ truth[n] = None

ReadOK(c) ==
  LET n == c.name IN
  /\ dentry[n] = "positive" /\ IsFile(local[n])
  /\ c.step \in {"read", "read_local"}

\* A write that is the only one and covers the file has truth with it, and the
\* server has no more bytes than it will overwrite.
WriteOK(c) ==
  LET n == c.name IN
  /\ dentry[n] = "positive" /\ IsFile(local[n])
  /\ c.step \in {"write_first", "write"} /\ IsFile(c.thing)
  /\ c.pos + Len(c.thing.data) <= MaxSize
  /\ n \notin diverged =>
       /\ c.pos = 0 /\ c.thing = truth[n] /\ local[n] = truth[n]
       /\ IsFile(remote[n]) /\ Len(remote[n].data) <= Len(c.thing.data)

CallOK(c) ==
  /\ c.step = "wait" => c.op \in Calls /\ c.name \in Names
  /\ Running(c) =>
       /\ c.name \in Names
       /\ \/ c.op = "lookup" /\ LookupOK(c)
          \/ c.op \in {"create", "mkdir"} /\ CreateOK(c)
          \/ c.op \in {"unlink", "rmdir"} /\ RemoveOK(c)
          \/ c.op = "read" /\ ReadOK(c)
          \/ c.op = "write" /\ WriteOK(c)

\* Two calls: the directory's lock and the dcache keep apart those that change
\* or look up names; a name being removed is not open; two writers of a file
\* have diverged; a write ends the calm of the reads it meets.
Apart(c, d) ==
  Running(c) /\ Running(d) =>
    /\ c.op \in Alone => d.op \notin Calls
    /\ c.name = d.name =>
         /\ ~(c.op = "lookup" /\ d.op = "lookup")
         /\ c.op \in {"unlink", "rmdir"} => d.op \notin {"read", "write"}
         /\ c.op = "write" /\ d.op = "write" => c.name \in diverged
         /\ c.op = "read" /\ d.op = "write" => ~c.calm

\* While nothing but reads runs on a name, both sides agree about it; while
\* nothing changes or looks it up, its dentry is right.
Agreed(n) ==
  n \notin diverged /\ Doing(n, Calls \cup {"write"}) = {} =>
    remote[n] = truth[n] /\ local[n] \in {None, truth[n]}
Known(n) ==
  Doing(n, Calls) = {} =>
    /\ dentry[n] = "negative" => local[n] = None
    /\ dentry[n] = "positive" => local[n] # None

StateOK ==
  /\ local \in [Names -> Things] /\ remote \in [Names -> Things \cup {Dying}]
  /\ dentry \in [Names -> {"none", "negative", "positive"}]
  /\ truth \in [Names -> Things] /\ diverged \subseteq Names

IInv ==
  /\ StateOK
  /\ call \in [Procs -> Call]
  /\ \A p \in Procs : CallOK(call[p])
  /\ \A p, q \in Procs : p # q => Apart(call[p], call[q])
  /\ \A n \in Names : Agreed(n) /\ Known(n)

\* What has not diverged was written in one request.
Short == \A n \in Names \ diverged : Len(truth[n].data) <= MaxSent

-----------------------------------------------------------------------------
(***************************************************************************)
(* Files and their bytes.                                                  *)
(***************************************************************************)
LEMMA MaxOfTwo ==
  ASSUME NEW a \in Nat, NEW b \in Nat
  PROVE  Max({a, b}) = IF a >= b THEN a ELSE b
BY DEF Max

\* Texts are the short sequences, and a function on 1 .. m is one.
LEMMA TextFacts ==
  ASSUME NEW s \in Texts
  PROVE  /\ s \in Seq(Bytes \cup {Zero}) /\ Len(s) \in 0 .. MaxSize
         /\ s = [i \in 1 .. Len(s) |-> s[i]]
         /\ \A i \in 1 .. Len(s) : s[i] \in Bytes \cup {Zero}
<1>1. PICK m \in 0 .. MaxSize : s \in [1 .. m -> Bytes \cup {Zero}]
  BY DEF Texts, SeqOf
<1>2. m \in Nat /\ MaxSize \in Nat  BY SyncAssumption
<1>3. s \in Seq(Bytes \cup {Zero}) /\ Len(s) = m  BY <1>1, <1>2
<1> QED  BY <1>1, <1>2, <1>3

LEMMA IsText ==
  ASSUME NEW m \in 0 .. MaxSize, NEW s, s \in [1 .. m -> Bytes \cup {Zero}]
  PROVE  s \in Texts /\ Len(s) = m
BY SyncAssumption DEF Texts, SeqOf

LEMMA EmptyText == <<>> \in Texts
<1>1. <<>> \in [1 .. 0 -> Bytes \cup {Zero}] /\ 0 \in 0 .. MaxSize
  BY SyncAssumption
<1> QED  BY <1>1, IsText

LEMMA ThingFacts ==
  ASSUME NEW f \in Things \cup {Dying}
  PROVE  /\ f.data \in Texts
         /\ IsFile(f) => f = File(f.data) /\ f \in Things
         /\ ~IsFile(f) => f \in {None, Dir, Dying} /\ f.data = <<>>
BY EmptyText DEF Things, None, Dir, Dying, File, IsFile

LEMMA FileFacts ==
  ASSUME NEW t \in Texts
  PROVE  File(t) \in Things /\ IsFile(File(t)) /\ File(t).data = t
BY DEF Things, File, IsFile

LEMMA OtherThings ==
  /\ None \in Things /\ Dir \in Things /\ ~IsFile(None) /\ ~IsFile(Dir) /\ ~IsFile(Dying)
  /\ None # Dir /\ None # Dying /\ Dir # Dying /\ Dying \notin Things
  /\ None.data = <<>> /\ Dir.data = <<>> /\ Dying.data = <<>>
BY DEF Things, None, Dir, Dying, IsFile

LEMMA EmptyFile ==
  /\ File(<<>>) \in Things /\ IsFile(File(<<>>)) /\ File(<<>>).data = <<>>
  /\ File(<<>>) # None /\ File(<<>>) # Dir
BY EmptyText, FileFacts, OtherThings

\* What a write leaves in the module's copy is a text, the text written if that
\* covers the file.
LEMMA LocalWrittenFacts ==
  ASSUME NEW data \in Texts, NEW text \in Texts, NEW pos \in 0 .. Len(data),
         pos + Len(text) <= MaxSize
  PROVE  /\ LocalWritten(data, pos, text) \in Texts
         /\ pos = 0 /\ Len(text) >= Len(data) => LocalWritten(data, pos, text) = text
<1> DEFINE m == IF pos + Len(text) >= Len(data) THEN pos + Len(text) ELSE Len(data)
           w == [i \in 1 .. m |->
                   IF i \in pos + 1 .. pos + Len(text) THEN text[i - pos] ELSE data[i]]
<1>1. /\ Len(data) \in 0 .. MaxSize /\ Len(text) \in 0 .. MaxSize /\ pos \in Nat
      /\ MaxSize \in Nat
      /\ \A i \in 1 .. Len(data) : data[i] \in Bytes \cup {Zero}
      /\ \A i \in 1 .. Len(text) : text[i] \in Bytes \cup {Zero}
      /\ text = [i \in 1 .. Len(text) |-> text[i]]
  BY TextFacts, SyncAssumption
<1>2. Max({pos + Len(text), Len(data)}) = m
  <2>1. pos + Len(text) \in Nat /\ Len(data) \in Nat  BY <1>1
  <2> QED  BY <2>1, MaxOfTwo
<1>3. LocalWritten(data, pos, text) = w  BY <1>2 DEF LocalWritten
<1>4. m \in 0 .. MaxSize  BY <1>1
<1>5. w \in [1 .. m -> Bytes \cup {Zero}]
  <2>1. ASSUME NEW i \in 1 .. m
        PROVE  (IF i \in pos + 1 .. pos + Len(text) THEN text[i - pos] ELSE data[i])
                 \in Bytes \cup {Zero}
    BY <1>1
  <2> QED  BY <2>1
<1>6. ASSUME pos = 0, Len(text) >= Len(data) PROVE w = text
  <2>1. m = Len(text)  BY <1>1, <1>6
  <2>2. \A i \in 1 .. m : w[i] = text[i]  BY <1>1, <1>6, <2>1
  <2> QED  BY <1>1, <2>1, <2>2
<1>7. w \in Texts  BY <1>4, <1>5, IsText
<1> HIDE DEF w
<1> QED  BY <1>3, <1>6, <1>7

\* What a write leaves on the server is of the same kind, the text written if
\* the file was not longer.
LEMMA ServerWrittenFacts ==
  ASSUME NEW f \in Things \cup {Dying}, NEW text \in Texts, NEW pos \in Nat,
         pos + Len(text) <= MaxSize
  PROVE  /\ ServerWritten(f, pos, text) \in Things \cup {Dying}
         /\ IsFile(ServerWritten(f, pos, text)) <=> IsFile(f)
         /\ ~IsFile(f) => ServerWritten(f, pos, text) = f
         /\ IsFile(f) /\ pos = 0 /\ Len(f.data) <= Len(text) =>
              ServerWritten(f, pos, text) = File(text)
<1>1. CASE ~IsFile(f)  BY <1>1 DEF ServerWritten
<1>2. CASE IsFile(f)
  <2> DEFINE data == f.data
             m == IF pos + Len(text) >= Len(data) THEN pos + Len(text) ELSE Len(data)
             byte(i) == CASE i \in pos + 1 .. pos + Len(text) -> text[i - pos]
                          [] i \notin pos + 1 .. pos + Len(text) /\ pos > 0
                               /\ i <= Len(data) -> data[i]
                          [] OTHER -> Zero
             w == [i \in 1 .. m |-> byte(i)]
  <2>1. /\ Len(data) \in 0 .. MaxSize /\ Len(text) \in 0 .. MaxSize /\ MaxSize \in Nat
        /\ \A i \in 1 .. Len(data) : data[i] \in Bytes \cup {Zero}
        /\ \A i \in 1 .. Len(text) : text[i] \in Bytes \cup {Zero}
        /\ text = [i \in 1 .. Len(text) |-> text[i]]
    BY ThingFacts, TextFacts, SyncAssumption
  <2>2. Max({pos + Len(text), Len(data)}) = m
    <3>1. pos + Len(text) \in Nat /\ Len(data) \in Nat  BY <2>1
    <3> QED  BY <3>1, MaxOfTwo
  <2>3. ServerWritten(f, pos, text) = File(w)  BY <1>2, <2>2 DEF ServerWritten
  <2>4. m \in 0 .. MaxSize  BY <2>1
  <2>5. w \in [1 .. m -> Bytes \cup {Zero}]
    <3>1. ASSUME NEW i \in 1 .. m PROVE byte(i) \in Bytes \cup {Zero}
      BY <2>1
    <3> HIDE DEF byte
    <3> QED  BY <3>1
  <2>6. ASSUME pos = 0, Len(data) <= Len(text) PROVE w = text
    <3>1. m = Len(text)  BY <2>1, <2>6
    <3>2. \A i \in 1 .. m : byte(i) = text[i]  BY <2>1, <2>6, <3>1
    <3> HIDE DEF byte
    <3> QED  BY <2>1, <3>1, <3>2
  <2>7. w \in Texts  BY <2>4, <2>5, IsText
  <2> HIDE DEF w
  <2> QED  BY <1>2, <2>3, <2>6, <2>7, FileFacts
<1> QED  BY <1>1, <1>2

\* The bytes of an entry from a position on.
LEMMA RestFacts ==
  ASSUME NEW f \in Things \cup {Dying}, NEW pos \in Nat
  PROVE  File(SubSeq(f.data, pos + 1, Len(f.data))) \in Things
<1> DEFINE s == f.data
           r == SubSeq(s, pos + 1, Len(s))
<1>1. s \in Texts  BY ThingFacts
<1>2. /\ s \in Seq(Bytes \cup {Zero}) /\ Len(s) \in 0 .. MaxSize /\ MaxSize \in Nat
  BY <1>1, TextFacts, SyncAssumption
<1>3. r \in Seq(Bytes \cup {Zero}) /\ Len(r) <= Len(s)
  <2>1. \A i \in pos + 1 .. Len(s) : s[i] \in Bytes \cup {Zero}
    BY <1>1, TextFacts
  <2>2. Len(r) = IF pos + 1 <= Len(s) THEN Len(s) - (pos + 1) + 1 ELSE 0
    BY <1>2, <2>1, SubSeqProperties
  <2> QED  BY <1>2, <2>1, <2>2, SubSeqProperties
<1>4. Len(r) \in 0 .. MaxSize /\ r \in [1 .. Len(r) -> Bytes \cup {Zero}]
  <2> HIDE DEF r
  <2> QED  BY <1>2, <1>3, LenProperties
<1>5. r \in Texts  BY <1>4, IsText
<1> QED  BY <1>5, FileFacts

\* What the server has after a write: the text in it that arrived, all of it if
\* a request has the room.
LEMMA ArrivedFacts ==
  ASSUME NEW f \in Things \cup {Dying}, NEW text \in Texts, NEW pos \in Nat,
         pos + Len(text) <= MaxSize, NEW g \in Arrived(f, pos, text)
  PROVE  /\ g \in Things \cup {Dying}
         /\ Len(text) <= MaxSent => g = ServerWritten(f, pos, text)
<1>1. CASE Len(text) <= MaxSent
  <2>1. g = ServerWritten(f, pos, text)  BY <1>1 DEF Arrived
  <2> QED  BY <2>1, ServerWrittenFacts
<1>2. CASE ~(Len(text) <= MaxSent)
  <2>1. g = f \/ \E m \in MaxSent .. Len(text) : g = ServerWritten(f, pos, SubSeq(text, 1, m))
    BY <1>2 DEF Arrived
  <2>2. ASSUME NEW m \in MaxSent .. Len(text)
        PROVE  ServerWritten(f, pos, SubSeq(text, 1, m)) \in Things \cup {Dying}
    <3>1. /\ text \in Seq(Bytes \cup {Zero}) /\ Len(text) \in 0 .. MaxSize
          /\ MaxSize \in Nat /\ MaxSent \in Nat
          /\ \A i \in 1 .. Len(text) : text[i] \in Bytes \cup {Zero}
      BY TextFacts, SyncAssumption
    <3>2. PICK t : t = SubSeq(text, 1, m)
      OBVIOUS
    <3>3. m \in Nat /\ m <= Len(text) /\ m \in 0 .. MaxSize  BY <3>1
    <3>4. t = [i \in 1 .. m |-> text[i]]  BY <3>1, <3>2, <3>3
    <3>5. t \in [1 .. m -> Bytes \cup {Zero}]  BY <3>1, <3>3, <3>4
    <3>6. t \in Texts /\ Len(t) = m  BY <3>3, <3>5, IsText
    <3>7. pos + Len(t) <= MaxSize  BY <3>1, <3>3, <3>6
    <3> QED  BY <3>2, <3>6, <3>7, ServerWrittenFacts
  <2> QED  BY <1>2, <2>1, <2>2
<1> QED  BY <1>1, <1>2

-----------------------------------------------------------------------------
(***************************************************************************)
(* What a step on one name leaves to show.                                 *)
(***************************************************************************)

\* A call that the step does not move: at most its calm ends.
SameCall(d, c) ==
  /\ d.op = c.op /\ d.step = c.step /\ d.name = c.name /\ d.thing = c.thing
  /\ d.pos = c.pos /\ (d.calm => c.calm)

\* Everything but name n stays.
OnlyName(n) ==
  \A m \in Names \ {n} :
    /\ local'[m] = local[m] /\ remote'[m] = remote[m] /\ dentry'[m] = dentry[m]
    /\ truth'[m] = truth[m] /\ (m \in diverged' <=> m \in diverged)

\* The step of p, on n: n is settled, and the other calls on n are right.
LEMMA StepOn ==
  ASSUME IInv, NEW p \in Procs, NEW n \in Names,
         StateOK', call' \in [Procs -> Call], OnlyName(n),
         \A q \in Procs \ {p} : SameCall(call'[q], call[q]),
         Running(call[p]) => call[p].name = n,
         Running(call'[p]) => call'[p].name = n,
         CallOK(call[p])',
         \A q \in Procs \ {p} :
           /\ Running(call[q]) /\ call[q].name = n => CallOK(call[q])'
           /\ Apart(call[p], call[q])' /\ Apart(call[q], call[p])'
           /\ Running(call[q]) /\ call[q].name = n /\ call[q].op = "write" =>
                (n \in diverged => n \in diverged'),
         (Agreed(n) /\ Known(n))'
  PROVE  IInv'
<1>1. ASSUME NEW q \in Procs \ {p} PROVE CallOK(call[q])'
  <2>1. CallOK(call[q]) /\ SameCall(call'[q], call[q])  BY DEF IInv
  <2>2. CASE ~Running(call[q])
    BY <2>1, <2>2 DEF CallOK, SameCall, Running
  <2>3. CASE Running(call[q]) /\ call[q].name = n
    BY <2>3
  <2>4. CASE Running(call[q]) /\ call[q].name # n
    <3> DEFINE m == call[q].name
    <3>1. /\ m \in Names \ {n} /\ call'[q].name = m /\ call'[q].step = call[q].step
          /\ call'[q].op = call[q].op /\ call'[q].thing = call[q].thing
          /\ call'[q].pos = call[q].pos /\ Running(call[q])'
      BY <2>1, <2>4 DEF CallOK, SameCall, Running
    <3>2. /\ local'[m] = local[m] /\ remote'[m] = remote[m] /\ dentry'[m] = dentry[m]
          /\ truth'[m] = truth[m] /\ (m \in diverged' <=> m \in diverged)
      BY <3>1 DEF OnlyName
    <3>3. Made(call[q])' = Made(call[q])  BY <3>1 DEF Made
    <3>4. /\ LookupOK(call[q]) => LookupOK(call[q])'
          /\ CreateOK(call[q]) => CreateOK(call[q])'
          /\ RemoveOK(call[q]) => RemoveOK(call[q])'
          /\ ReadOK(call[q]) => ReadOK(call[q])'
          /\ WriteOK(call[q]) => WriteOK(call[q])'
      BY <3>1, <3>2, <3>3 DEF LookupOK, CreateOK, RemoveOK, ReadOK, WriteOK
    <3> QED  BY <2>1, <2>4, <3>1, <3>4 DEF CallOK, Running
  <2> QED  BY <2>2, <2>3, <2>4
<1>2. ASSUME NEW q \in Procs \ {p}, NEW r \in Procs \ {p}, q # r
      PROVE  Apart(call[q], call[r])'
  <2>1. /\ Apart(call[q], call[r]) /\ SameCall(call'[q], call[q])
        /\ SameCall(call'[r], call[r]) /\ CallOK(call[q])
    BY <1>2 DEF IInv
  <2>2. Running(call[q]) => call[q].name \in Names  BY <2>1 DEF CallOK
  <2>3. ASSUME Running(call[q]), call[q].op = "write", call[q].name \in diverged
        PROVE  call[q].name \in diverged'
    BY <2>2, <2>3 DEF OnlyName
  <2> QED  BY <2>1, <2>3 DEF Apart, SameCall, Running
<1>3. ASSUME NEW m \in Names \ {n} PROVE (Agreed(m) /\ Known(m))'
  <2>1. Agreed(m) /\ Known(m)  BY DEF IInv
  <2>2. \A ops : Doing(m, ops)' = Doing(m, ops)
    BY DEF Doing, On, Active, SameCall, Running
  <2>3. /\ Doing(m, Calls)' = Doing(m, Calls)
        /\ Doing(m, Calls \cup {"write"})' = Doing(m, Calls \cup {"write"})
    BY <2>2 DEF Calls, Alone
  <2> QED  BY <2>1, <2>3 DEF Agreed, Known, OnlyName
<1> QED  BY <1>1, <1>2, <1>3 DEF IInv

\* A call of the kernel's on a name is the only call there, so a step of it has
\* nobody else to be right for.
LEMMA AloneOnName ==
  ASSUME IInv, NEW p \in Procs, Running(call[p]), call[p].op \in Calls,
         NEW q \in Procs \ {p}, Running(call[q])
  PROVE  call[q].name # call[p].name
<1>1. /\ CallOK(call[p]) /\ CallOK(call[q]) /\ Apart(call[p], call[q])
      /\ Apart(call[q], call[p])
  BY DEF IInv
<1>2. /\ call[p].op = "lookup" => dentry[call[p].name] = "none"
      /\ call[p].op \in {"create", "mkdir"} => dentry[call[p].name] = "negative"
      /\ call[q].op \in {"read", "write"} => dentry[call[q].name] = "positive"
      /\ call[q].op \in Calls \cup {"read", "write"}
  BY <1>1 DEF CallOK, LookupOK, CreateOK, ReadOK, WriteOK, Calls, Alone
<1> QED  BY <1>1, <1>2 DEF Apart, Calls, Alone

\* n is as it should be when no call runs on it.
Settled(n) ==
  /\ n \notin diverged => remote[n] = truth[n] /\ local[n] \in {None, truth[n]}
  /\ dentry[n] = "negative" => local[n] = None
  /\ dentry[n] = "positive" => local[n] # None

\* The locks a call of op needs are free for p.
Free(p, op) ==
  \A q \in Procs \ {p} : Running(call[q]) =>
    /\ op \in Alone => call[q].op \notin Calls
    /\ call[q].op \in Alone => op \notin Calls

LEMMA AloneStep ==
  ASSUME IInv, NEW p \in Procs, NEW n \in Names,
         StateOK', OnlyName(n), NEW c \in Call, call' = [call EXCEPT ![p] = c],
         \A q \in Procs \ {p} : Running(call[q]) => call[q].name # n,
         Running(call[p]) => call[p].name = n,
         CallOK(call[p])',
         Running(c) => c.name = n /\ c.op \in Calls /\ Free(p, c.op),
         Running(c) \/ Settled(n)'
  PROVE  IInv'
<1>1. call' \in [Procs -> Call] /\ call'[p] = c
      /\ \A q \in Procs \ {p} : call'[q] = call[q]
  BY DEF IInv
<1>2. \A q \in Procs \ {p} : SameCall(call'[q], call[q])
  BY <1>1 DEF SameCall
<1>3. ASSUME NEW q \in Procs \ {p}
      PROVE  Apart(call[p], call[q])' /\ Apart(call[q], call[p])'
  BY <1>1 DEF Apart, Free, Running
<1>4. (Agreed(n) /\ Known(n))'
  <2>1. CASE Running(c)
    <3>1. p \in Doing(n, Calls)' /\ p \in Doing(n, Calls \cup {"write"})'
      BY <1>1, <2>1 DEF Doing, On, Active, Running, Calls, Alone
    <3> QED  BY <3>1 DEF Agreed, Known
  <2>2. CASE ~Running(c)
    BY <2>2 DEF Settled, Agreed, Known
  <2> QED  BY <2>1, <2>2
<1> QED  BY <1>1, <1>2, <1>3, <1>4, StepOn

\* A thread that is in no call before or after changes nothing.
LEMMA QuietStep ==
  ASSUME IInv, NEW p \in Procs, NEW c \in Call, call' = [call EXCEPT ![p] = c],
         UNCHANGED <<local, remote, dentry, truth, diverged>>,
         ~Running(call[p]), ~Running(c), c.step = "wait" => c.op \in Calls /\ c.name \in Names
  PROVE  IInv'
<1>1. call' \in [Procs -> Call] /\ call'[p] = c
      /\ \A q \in Procs \ {p} : call'[q] = call[q]
  BY DEF IInv
<1>2. ASSUME NEW q \in Procs PROVE CallOK(call[q])'
  <2>1. CASE q = p  BY <1>1, <2>1 DEF CallOK, Running
  <2>2. CASE q # p
    <3>1. CallOK(call[q]) /\ call'[q] = call[q]  BY <1>1, <2>2 DEF IInv
    <3> QED
      BY <3>1 DEF CallOK, LookupOK, CreateOK, RemoveOK, ReadOK, WriteOK, Made, Running
  <2> QED  BY <2>1, <2>2
<1>3. ASSUME NEW q \in Procs, NEW r \in Procs, q # r PROVE Apart(call[q], call[r])'
  <2>1. Apart(call[q], call[r])  BY <1>3 DEF IInv
  <2> QED  BY <1>1, <2>1 DEF Apart, Running
<1>4. ASSUME NEW m \in Names PROVE (Agreed(m) /\ Known(m))'
  <2>1. Agreed(m) /\ Known(m)  BY DEF IInv
  <2>2. \A ops : Doing(m, ops)' = Doing(m, ops)
    BY <1>1 DEF Doing, On, Active, Running
  <2>3. /\ Doing(m, Calls)' = Doing(m, Calls)
        /\ Doing(m, Calls \cup {"write"})' = Doing(m, Calls \cup {"write"})
    BY <2>2 DEF Calls, Alone
  <2> QED  BY <2>1, <2>3 DEF Agreed, Known
<1>5. StateOK'  BY DEF IInv, StateOK
<1> QED  BY <1>1, <1>2, <1>3, <1>4, <1>5 DEF IInv

\* What a running call of the kernel's may count on ...
LEMMA RunsAlone ==
  ASSUME IInv, NEW p \in Procs, Running(call[p]), call[p].op \in Calls
  PROVE  /\ call[p].name \in Names /\ Free(p, call[p].op)
         /\ \A q \in Procs \ {p} : Running(call[q]) => call[q].name # call[p].name
<1>1. call[p].name \in Names  BY DEF IInv, CallOK
<1>2. ASSUME NEW q \in Procs \ {p}, Running(call[q])
      PROVE  /\ call[p].op \in Alone => call[q].op \notin Calls
             /\ call[q].op \in Alone => call[p].op \notin Calls
  BY <1>2 DEF IInv, Apart
<1> QED  BY <1>1, <1>2, AloneOnName DEF Free

\* ... and what one that gets its lock finds.
LEMMA EntersAlone ==
  ASSUME IInv, NEW p \in Procs, MayEnter(p), Called(call[p])
  PROVE  /\ call[p].name \in Names /\ call[p].op \in Calls /\ Free(p, call[p].op)
         /\ \A q \in Procs \ {p} : Running(call[q]) => call[q].name # call[p].name
         /\ Settled(call[p].name)
<1> DEFINE n == call[p].name
<1>1. call[p].name \in Names /\ call[p].op \in Calls
  BY DEF IInv, CallOK, MayEnter, At
<1>2. \A q \in Procs : Running(call[q]) =>
        /\ call[q].op \in Calls \cup {"read", "write"}
        /\ call[q].op \in {"read", "write"} => dentry[call[q].name] = "positive"
  BY DEF IInv, CallOK, LookupOK, CreateOK, ReadOK, WriteOK, Calls, Alone
<1>3. \A q \in Procs : Running(call[q]) => call[q].op \notin Alone
  BY DEF MayEnter, Changing, Active, Running
<1>4. CASE call[p].op = "lookup"
  <2>1. dentry[n] = "none"  BY <1>4 DEF Called
  <2>2. \A q \in Procs : Running(call[q]) => ~(call[q].op = "lookup" /\ call[q].name = n)
    BY <1>4 DEF MayEnter, Doing, On, Active, Running
  <2>3. \A q \in Procs : Running(call[q]) => call[q].name # n
    BY <1>2, <1>3, <2>1, <2>2 DEF Calls
  <2>4. Free(p, call[p].op)  BY <1>3, <1>4 DEF Free, Alone
  <2>5. Doing(n, Calls) = {} /\ Doing(n, Calls \cup {"write"}) = {}
    BY <2>3 DEF Doing, On, Active, Running
  <2> QED  BY <1>1, <2>3, <2>4, <2>5 DEF IInv, Agreed, Known, Settled
<1>5. CASE call[p].op # "lookup"
  <2>1. \A q \in Procs : Running(call[q]) => call[q].op # "lookup"
    BY <1>5 DEF MayEnter, Looking, Active, Running
  <2>2. \A q \in Procs : Running(call[q]) => call[q].op \notin Calls
    BY <1>3, <2>1 DEF Calls
  <2>3. \A q \in Procs : Running(call[q]) => call[q].name # n
    <3>1. CASE call[p].op \in {"unlink", "rmdir"}
      <4>1. \A q \in Procs : Running(call[q]) =>
               ~(call[q].op \in {"read", "write"} /\ call[q].name = n)
        BY <1>5, <3>1 DEF MayEnter, Doing, On, Active, Running
      <4> QED  BY <1>2, <2>2, <4>1
    <3>2. CASE call[p].op \in {"create", "mkdir"}
      <4>1. dentry[n] = "negative"  BY <3>2 DEF Called
      <4> QED  BY <1>2, <2>2, <4>1
    <3> QED  BY <1>1, <1>5, <3>1, <3>2 DEF Calls, Alone
  <2>4. Free(p, call[p].op)  BY <2>2 DEF Free, Calls
  <2>5. Doing(n, Calls) = {} /\ Doing(n, Calls \cup {"write"}) = {}
    BY <2>3 DEF Doing, On, Active, Running
  <2> QED  BY <1>1, <2>3, <2>4, <2>5 DEF IInv, Agreed, Known, Settled
<1> QED  BY <1>4, <1>5

LEMMA IdleFacts == Idle \in Call /\ ~Running(Idle) /\ Idle.step = "idle"
BY OtherThings, SyncAssumption DEF Idle, Call, Steps, Running

-----------------------------------------------------------------------------
(***************************************************************************)
(* Each step keeps the invariant.                                          *)
(***************************************************************************)
LEMMA BeginStep ==
  ASSUME IInv, NEW p \in Procs, NEW op \in Calls, NEW n \in Names, Begin(p, op, n)
  PROVE  IInv'
<1>1. PICK c : c = [Idle EXCEPT !.op = op, !.step = "wait", !.name = n]
  OBVIOUS
<1>2. c \in Call /\ c.step = "wait" /\ c.op = op /\ c.name = n
  BY <1>1, IdleFacts DEF Call, Steps
<1>3. ~Running(call[p]) /\ call' = [call EXCEPT ![p] = c]
      /\ UNCHANGED <<local, remote, dentry, truth, diverged>>
  BY <1>1 DEF Begin, At, Running, history
<1>4. ~Running(c)  BY <1>2 DEF Running
<1> QED  BY <1>2, <1>3, <1>4, QuietStep

LEMMA EnterStep ==
  ASSUME IInv, NEW p \in Procs, Enter(p), NEW n, n = call[p].name
  PROVE  IInv'
<1>1. ~Running(call[p]) /\ call[p] \in Call /\ MayEnter(p) /\ StateOK
  BY DEF Enter, MayEnter, At, Running, IInv
<1>2. CASE ~Called(call[p])
  <2>1. call' = [call EXCEPT ![p] = Idle]
        /\ UNCHANGED <<local, remote, dentry, truth, diverged>>
    BY <1>2 DEF Enter, Return, history
  <2> QED  BY <1>1, <2>1, IdleFacts, QuietStep
<1>3. CASE Called(call[p])
  <2>1. /\ n \in Names /\ call[p].op \in Calls /\ Free(p, call[p].op)
        /\ \A q \in Procs \ {p} : Running(call[q]) => call[q].name # n
        /\ Settled(n) /\ call \in [Procs -> Call]
    BY <1>1, <1>3, EntersAlone DEF IInv
  <2>2. CASE call[p].op = "lookup" /\ local[n] # None
    <3>1. /\ call' = [call EXCEPT ![p] = Idle]
          /\ dentry' = [dentry EXCEPT ![n] = "positive"]
          /\ UNCHANGED <<local, remote, truth, diverged>>
      BY <1>3, <2>2 DEF Enter, EnterLookup, Return, Remember, history
    <3>2. StateOK' /\ OnlyName(n)
      BY <1>1, <2>1, <3>1 DEF StateOK, OnlyName
    <3>3. Settled(n)'  BY <1>1, <2>1, <2>2, <3>1 DEF StateOK, Settled
    <3>4. CallOK(call[p])'  BY <2>1, <3>1, IdleFacts DEF CallOK
    <3> QED  BY <1>1, <2>1, <3>1, <3>2, <3>3, <3>4, IdleFacts, AloneStep
  <2>3. CASE call[p].op = "lookup" /\ local[n] = None
    <3>0. PICK c : c = [call[p] EXCEPT !.step = "stat"]
      OBVIOUS
    <3>1. c \in Call /\ c.step = "stat" /\ c.name = n /\ c.op = "lookup"
      BY <1>1, <2>3, <3>0 DEF Call, Steps, Requests
    <3>2. /\ call' = [call EXCEPT ![p] = c] /\ call'[p] = c
          /\ UNCHANGED <<local, remote, dentry, truth, diverged>>
      BY <1>3, <2>1, <2>3, <3>0, <3>1 DEF Enter, EnterLookup, Go, history
    <3>3. StateOK' /\ OnlyName(n)  BY <1>1, <3>2 DEF StateOK, OnlyName
    <3>4. dentry[n] = "none"  BY <1>3, <2>3 DEF Called
    <3>5. LookupOK(call[p])'
      BY <2>1, <2>3, <3>1, <3>2, <3>4 DEF LookupOK, Settled
    <3>6. CallOK(call[p])' /\ Running(c)
      BY <2>1, <3>1, <3>2, <3>5 DEF CallOK, Running
    <3> QED  BY <1>1, <2>1, <2>3, <3>1, <3>2, <3>3, <3>6, AloneStep
  <2>4. CASE call[p].op \in {"create", "mkdir"}
    <3>0. PICK c : c = [call[p] EXCEPT !.step = "create"]
      OBVIOUS
    <3>1. c \in Call /\ c.step = "create" /\ c.name = n /\ c.op = call[p].op
      BY <1>1, <3>0 DEF Call, Steps, Requests
    <3>2. /\ call' = [call EXCEPT ![p] = c] /\ call'[p] = c
          /\ local' = [local EXCEPT ![n] = Made(c)]
          /\ truth' = [truth EXCEPT ![n] = IF n \in diverged THEN None ELSE Made(c)]
          /\ UNCHANGED <<remote, dentry, diverged>>
      BY <1>3, <2>1, <2>4, <3>0, <3>1 DEF Enter, EnterCreate, Now, Keep, Record, Go, Made
    <3>3. Made(c) \in Things  BY OtherThings, EmptyFile DEF Made
    <3>4. StateOK' /\ OnlyName(n)
      BY <1>1, <2>1, <3>2, <3>3, OtherThings DEF StateOK, OnlyName
    <3>5. dentry[n] = "negative"  BY <1>3, <2>4 DEF Called
    <3>6. /\ local'[n] = Made(c) /\ dentry'[n] = "negative"
          /\ n \notin diverged' => truth'[n] = Made(c)
      BY <1>1, <2>1, <3>2, <3>5 DEF StateOK
    <3>7. CreateOK(call[p])'
      BY <3>1, <3>2, <3>6 DEF CreateOK, Made
    <3>8. CallOK(call[p])' /\ Running(c)
      BY <2>1, <2>4, <3>1, <3>2, <3>7 DEF CallOK, Running
    <3> QED  BY <1>1, <2>1, <3>1, <3>2, <3>4, <3>8, AloneStep
  <2>5. CASE call[p].op \in {"unlink", "rmdir"}
    <3>0. PICK c : c = [call[p] EXCEPT !.step = "delete"]
      OBVIOUS
    <3>1. c \in Call /\ c.step = "delete" /\ c.name = n /\ c.op = call[p].op
      BY <1>1, <3>0 DEF Call, Steps, Requests
    <3>2. /\ call' = [call EXCEPT ![p] = c] /\ call'[p] = c
          /\ local' = [local EXCEPT ![n] = None]
          /\ truth' = [truth EXCEPT ![n] = None]
          /\ UNCHANGED <<remote, dentry, diverged>>
      BY <1>3, <2>1, <2>5, <3>0, <3>1 DEF Enter, EnterDelete, Now, Keep, Record, Go
    <3>3. StateOK' /\ OnlyName(n)
      BY <1>1, <2>1, <3>2, OtherThings DEF StateOK, OnlyName
    <3>4. dentry[n] = "positive"  BY <1>3, <2>5 DEF Called
    <3>5. local'[n] = None /\ truth'[n] = None /\ dentry'[n] = "positive"
      BY <1>1, <2>1, <3>2, <3>4 DEF StateOK
    <3>6. RemoveOK(call[p])'
      BY <3>1, <3>2, <3>5 DEF RemoveOK
    <3>7. CallOK(call[p])' /\ Running(c)
      BY <2>1, <2>5, <3>1, <3>2, <3>6 DEF CallOK, Running
    <3> QED  BY <1>1, <2>1, <3>1, <3>2, <3>3, <3>7, AloneStep
  <2> QED  BY <2>1, <2>2, <2>3, <2>4, <2>5 DEF Calls, Alone
<1> QED  BY <1>2, <1>3

\* A request's step tells its call, and truth of a diverged name is forgotten.
LEMMA RequestFacts ==
  ASSUME IInv, NEW p \in Procs, Running(call[p]), NEW n, n = call[p].name
  PROVE  /\ call[p] \in Call /\ n \in Names /\ StateOK /\ call \in [Procs -> Call]
         /\ call[p].step \in {"stat", "fetch", "echo", "insert", "fill"} =>
              call[p].op = "lookup" /\ LookupOK(call[p])
         /\ call[p].step \in {"create", "inode"} =>
              call[p].op \in {"create", "mkdir"} /\ CreateOK(call[p])
         /\ call[p].step = "delete" =>
              \/ call[p].op \in {"create", "mkdir"} /\ CreateOK(call[p])
              \/ call[p].op \in {"unlink", "rmdir"} /\ RemoveOK(call[p])
         /\ call[p].step \in {"write_first", "write"} =>
              call[p].op = "write" /\ WriteOK(call[p])
         /\ call[p].step \in {"read", "read_local"} =>
              call[p].op = "read" /\ ReadOK(call[p])
<1>1. call[p] \in Call /\ n \in Names /\ StateOK /\ call \in [Procs -> Call] /\ CallOK(call[p])
  BY DEF IInv, CallOK
<1>2. /\ LookupOK(call[p]) =>
           call[p].step \in {"stat", "fetch", "echo", "insert", "fill"}
      /\ CreateOK(call[p]) => call[p].step \in {"create", "inode", "delete"}
      /\ RemoveOK(call[p]) => call[p].step = "delete"
      /\ ReadOK(call[p]) => call[p].step \in {"read", "read_local"}
      /\ WriteOK(call[p]) => call[p].step \in {"write_first", "write"}
  BY DEF LookupOK, CreateOK, RemoveOK, ReadOK, WriteOK
<1> QED  BY <1>1, <1>2 DEF CallOK

\* An answer to a lookup's request: the server's entry, or none.  Only the bytes
\* sent back for a name that has diverged may change the entry.
LEMMA LookupAnswered ==
  ASSUME IInv, NEW p \in Procs, NEW n, n = call[p].name,
         call[p].step \in {"stat", "fetch", "echo"}, NEW f \in {remote[n], None},
         NEW g \in Things \cup {Dying}, remote' = [remote EXCEPT ![n] = g],
         g # remote[n] => call[p].step = "echo" /\ n \in diverged,
         Answer(p, f), UNCHANGED local,
         diverged' \in {diverged, diverged \cup {n}},
         call[p].step = "fetch" /\ f = None => n \in diverged',
         truth' = [truth EXCEPT ![n] = IF n \in diverged' THEN None ELSE truth[n]]
  PROVE  IInv'
<1>1. Running(call[p])  BY DEF Running
<1>2. /\ call[p] \in Call /\ n \in Names /\ StateOK /\ call \in [Procs -> Call]
      /\ call[p].op = "lookup" /\ LookupOK(call[p])
  BY <1>1, RequestFacts
<1>3. /\ Free(p, call[p].op)
      /\ \A q \in Procs \ {p} : Running(call[q]) => call[q].name # n
  BY <1>1, <1>2, RunsAlone DEF Calls
<1>5. /\ truth' \in [Names -> Things] /\ diverged' \subseteq Names
      /\ truth'[n] = (IF n \in diverged' THEN None ELSE truth[n])
      /\ \A m \in Names \ {n} : truth'[m] = truth[m] /\ (m \in diverged' <=> m \in diverged)
      /\ n \notin diverged' => n \notin diverged
  BY <1>2, OtherThings DEF StateOK
<1>6. /\ remote[n] \in Things \cup {Dying} /\ local[n] \in Things
      /\ remote' \in [Names -> Things \cup {Dying}] /\ remote'[n] = g
      /\ \A m \in Names \ {n} : remote'[m] = remote[m]
      /\ n \notin diverged' => g = remote[n]
      /\ call[p].step # "echo" => g = remote[n]
  BY <1>2, <1>5 DEF StateOK
<1>7. ASSUME NEW what \in {"negative", "positive"}, Found(p, n, what),
             what = "negative" => local[n] = None, what = "positive" => local[n] # None,
             n \notin diverged' => local[n] \in {None, remote[n]}
      PROVE  IInv'
  <2>1. call' = [call EXCEPT ![p] = Idle] /\ call'[p] = Idle
        /\ dentry' = [dentry EXCEPT ![n] = what]
    BY <1>2, <1>7 DEF Found, Return, Remember
  <2>2. dentry' \in [Names -> {"none", "negative", "positive"}]
        /\ dentry'[n] = what /\ \A m \in Names \ {n} : dentry'[m] = dentry[m]
    BY <1>2, <2>1 DEF StateOK
  <2>3. StateOK' /\ OnlyName(n)  BY <1>2, <1>5, <1>6, <2>2 DEF StateOK, OnlyName
  <2>4. n \notin diverged' => remote'[n] = truth'[n] /\ remote'[n] = remote[n]
    BY <1>2, <1>5, <1>6 DEF LookupOK
  <2>5. Settled(n)'  BY <1>7, <2>2, <2>4 DEF Settled
  <2>6. CallOK(call[p])'  BY <2>1, IdleFacts DEF CallOK
  <2> QED  BY <1>1, <1>2, <1>3, <2>1, <2>3, <2>5, <2>6, IdleFacts, AloneStep
<1>8. ASSUME NEW step \in {"insert", "fill"}, NEW thing \in Things,
             GoWith(p, step, thing), UNCHANGED dentry, f # None, g = remote[n],
             IF step = "insert" THEN local[n] = None /\ thing = IF IsFile(f) THEN f ELSE Dir
             ELSE local[n] = File(<<>>) /\ IsFile(f) /\ f.data # <<>> /\ thing = f
      PROVE  IInv'
  <2>0. PICK c : c = [call[p] EXCEPT !.step = step, !.thing = thing]
    OBVIOUS
  <2>1. c \in Call /\ c.step = step /\ c.name = n /\ c.op = "lookup" /\ c.thing = thing
    BY <1>2, <2>0 DEF Call, Steps
  <2>2. call' = [call EXCEPT ![p] = c] /\ call'[p] = c
    BY <1>2, <1>8, <2>0 DEF GoWith
  <2>3. StateOK' /\ OnlyName(n)  BY <1>2, <1>5, <1>6, <1>8 DEF StateOK, OnlyName
  <2>4. dentry'[n] = "none" /\ (n \notin diverged' => remote[n] = truth'[n])
    BY <1>2, <1>5, <1>8 DEF LookupOK
  <2>5. f = remote[n] /\ remote'[n] = remote[n]  BY <1>6, <1>8
  <2>6. LookupOK(call[p])'
    BY <1>8, <2>1, <2>2, <2>4, <2>5 DEF LookupOK
  <2>7. CallOK(call[p])' /\ Running(c)
    BY <1>2, <2>1, <2>2, <2>6 DEF CallOK, Running
  <2> QED  BY <1>1, <1>2, <1>3, <2>1, <2>2, <2>3, <2>7, AloneStep DEF Calls
<1>9. CASE call[p].step = "stat"
  <2>1. local[n] = None  BY <1>2, <1>9 DEF LookupOK
  <2>2. Stated(p, n, f)  BY <1>9 DEF Answer
  <2>3. CASE f = None
    BY <1>7, <2>1, <2>2, <2>3 DEF Stated
  <2>4. CASE f # None
    <3>1. (IF IsFile(f) THEN f ELSE Dir) \in Things
      BY <1>6, ThingFacts, OtherThings
    <3> QED  BY <1>6, <1>8, <1>9, <2>1, <2>2, <2>4, <3>1 DEF Stated
  <2> QED  BY <2>3, <2>4
<1>10. CASE call[p].step = "fetch"
  <2>1. local[n] = File(<<>>) /\ IsFile(remote[n]) /\ remote[n].data # <<>>
    BY <1>2, <1>10 DEF LookupOK
  <2>2. IF IsFile(f) THEN Fetched(p, n, f) ELSE Found(p, n, "positive")
    BY <1>10 DEF Answer
  <2>3. CASE f = None
    <3>1. Found(p, n, "positive")  BY <2>2, <2>3, OtherThings
    <3> QED  BY <1>7, <1>10, <2>1, <2>3, <3>1, EmptyFile
  <2>4. CASE f # None
    <3>1. f = remote[n] /\ f \in Things  BY <1>6, <2>1, <2>4, ThingFacts
    <3>2. GoWith(p, "fill", f) /\ UNCHANGED dentry
      BY <2>1, <2>2, <3>1 DEF Fetched
    <3> QED  BY <1>6, <1>8, <1>10, <2>1, <2>4, <3>1, <3>2
  <2> QED  BY <2>3, <2>4
<1>11. CASE call[p].step = "echo"
  <2>1. local[n] = remote[n] /\ IsFile(remote[n])
    BY <1>2, <1>11 DEF LookupOK
  <2>2. Found(p, n, "positive")  BY <1>11 DEF Answer
  <2> QED  BY <1>7, <2>1, <2>2, OtherThings
<1> QED  BY <1>9, <1>10, <1>11

\* A creation goes on whatever the server said.
LEMMA CreateAnswered ==
  ASSUME IInv, NEW p \in Procs, NEW n, n = call[p].name, call[p].step = "create",
         NEW g \in Things \cup {Dying}, remote' = [remote EXCEPT ![n] = g],
         Go(p, "inode"), UNCHANGED <<local, dentry>>,
         diverged' \in {diverged, diverged \cup {n}},
         n \notin diverged' => g = Made(call[p]),
         truth' = [truth EXCEPT ![n] = IF n \in diverged' THEN None ELSE truth[n]]
  PROVE  IInv'
<1>1. Running(call[p])  BY DEF Running
<1>2. /\ call[p] \in Call /\ n \in Names /\ StateOK /\ call \in [Procs -> Call]
      /\ call[p].op \in {"create", "mkdir"} /\ CreateOK(call[p])
  BY <1>1, RequestFacts
<1>3. /\ Free(p, call[p].op)
      /\ \A q \in Procs \ {p} : Running(call[q]) => call[q].name # n
  BY <1>1, <1>2, RunsAlone DEF Calls, Alone
<1>4. PICK c : c = [call[p] EXCEPT !.step = "inode"]
  OBVIOUS
<1>5. c \in Call /\ c.step = "inode" /\ c.name = n /\ c.op = call[p].op
  BY <1>2, <1>4 DEF Call, Steps
<1>6. call' = [call EXCEPT ![p] = c] /\ call'[p] = c
  BY <1>2, <1>4 DEF Go
<1>7. StateOK' /\ OnlyName(n)
  BY <1>2, OtherThings DEF StateOK, OnlyName
<1>8. /\ remote'[n] = g /\ truth'[n] = (IF n \in diverged' THEN None ELSE truth[n])
  BY <1>2 DEF StateOK
<1>9. Made(c) = Made(call[p])  BY <1>5 DEF Made
<1>10. /\ dentry[n] = "negative" /\ local[n] = Made(c)
       /\ n \notin diverged => truth[n] = Made(c)
  BY <1>2, <1>9 DEF CreateOK
<1>11. CreateOK(call[p])'
  BY <1>5, <1>6, <1>8, <1>9, <1>10 DEF CreateOK, Made
<1>12. CallOK(call[p])' /\ Running(c)
  BY <1>2, <1>5, <1>6, <1>11 DEF CallOK, Running
<1> QED  BY <1>1, <1>2, <1>3, <1>5, <1>6, <1>7, <1>12, AloneStep DEF Calls, Alone

\* A deletion ends whatever the server said.
LEMMA DeleteAnswered ==
  ASSUME IInv, NEW p \in Procs, NEW n, n = call[p].name, call[p].step = "delete",
         NEW g \in Things \cup {Dying}, remote' = [remote EXCEPT ![n] = g],
         call' = [call EXCEPT ![p] = Idle], UNCHANGED local,
         dentry' = IF call[p].op \in {"unlink", "rmdir"}
                   THEN [dentry EXCEPT ![n] = "negative"] ELSE dentry,
         diverged' \in {diverged, diverged \cup {n}, diverged \ {n}},
         n \notin diverged' => g = None,
         truth' = [truth EXCEPT ![n] = IF n \in diverged' THEN None ELSE truth[n]]
  PROVE  IInv'
<1>1. Running(call[p])  BY DEF Running
<1>2. /\ call[p] \in Call /\ n \in Names /\ StateOK /\ call \in [Procs -> Call]
      /\ \/ call[p].op \in {"create", "mkdir"} /\ CreateOK(call[p])
         \/ call[p].op \in {"unlink", "rmdir"} /\ RemoveOK(call[p])
  BY <1>1, RequestFacts
<1>3. \A q \in Procs \ {p} : Running(call[q]) => call[q].name # n
  BY <1>1, <1>2, RunsAlone DEF Calls, Alone
<1>4. local[n] = None /\ truth[n] = None /\ dentry[n] \in {"negative", "positive"}
      /\ (call[p].op \notin {"unlink", "rmdir"} => dentry[n] = "negative")
  BY <1>2, OtherThings, EmptyFile DEF CreateOK, RemoveOK, Made
<1>5. StateOK' /\ OnlyName(n)
  BY <1>2, OtherThings DEF StateOK, OnlyName
<1>6. remote'[n] = g /\ truth'[n] = None /\ dentry'[n] = "negative"
  BY <1>2, <1>4 DEF StateOK
<1>7. Settled(n)'  BY <1>4, <1>6 DEF Settled
<1>8. call'[p] = Idle  BY <1>2
<1>9. CallOK(call[p])'  BY <1>8, IdleFacts DEF CallOK
<1> QED  BY <1>1, <1>2, <1>3, <1>5, <1>7, <1>9, IdleFacts, AloneStep

LEMMA InsertStep ==
  ASSUME IInv, NEW p \in Procs, NEW n, n = call[p].name, Insert(p)
  PROVE  IInv'
<1>1. Running(call[p]) /\ call[p].step = "insert"  BY DEF Running, Insert, At
<1>2. /\ call[p] \in Call /\ n \in Names /\ StateOK /\ call \in [Procs -> Call]
      /\ call[p].op = "lookup" /\ LookupOK(call[p])
  BY <1>1, RequestFacts
<1>3. /\ Free(p, call[p].op)
      /\ \A q \in Procs \ {p} : Running(call[q]) => call[q].name # n
  BY <1>1, <1>2, RunsAlone DEF Calls
<1>4. PICK f : f = call[p].thing
  OBVIOUS
<1>5. /\ remote[n] \in Things \cup {Dying} /\ dentry[n] = "none"
      /\ f = (IF IsFile(remote[n]) THEN remote[n] ELSE Dir) /\ f \in Things
      /\ n \notin diverged => remote[n] = truth[n] /\ truth[n] \in Things
      /\ remote[n] # None
  BY <1>1, <1>2, <1>4 DEF LookupOK, StateOK, Call
<1>6. PICK new : new = IF IsFile(f) THEN File(<<>>) ELSE Dir
  OBVIOUS
<1>7. new \in Things /\ new # None  BY <1>6, OtherThings, EmptyFile
<1>8. local' = [local EXCEPT ![n] = new] /\ UNCHANGED <<remote, truth, diverged>>
  BY <1>4, <1>6 DEF Insert, Keep, history
<1>9. local'[n] = new /\ local' \in [Names -> Things]
  BY <1>2, <1>7, <1>8 DEF StateOK
<1>10. CASE f.data = <<>>
  <2>1. call' = [call EXCEPT ![p] = Idle] /\ call'[p] = Idle
        /\ dentry' = [dentry EXCEPT ![n] = "positive"]
    BY <1>2, <1>4, <1>10 DEF Insert, Found, Return, Remember
  <2>2. StateOK' /\ OnlyName(n) /\ dentry'[n] = "positive"
    BY <1>2, <1>8, <1>9, <2>1 DEF StateOK, OnlyName
  <2>3. ASSUME n \notin diverged PROVE new = truth[n]
    <3>1. remote[n] \in Things /\ remote[n] = truth[n]  BY <1>5, <2>3
    <3>2. CASE IsFile(remote[n])
      <4>1. f = remote[n] /\ f = File(f.data)  BY <1>5, <3>2, ThingFacts
      <4> QED  BY <1>6, <1>10, <3>1, <3>2, <4>1
    <3>3. CASE ~IsFile(remote[n])
      <4>1. f = Dir /\ remote[n] = Dir
        BY <1>5, <3>1, <3>3, ThingFacts, OtherThings
      <4> QED  BY <1>6, <3>1, <4>1, OtherThings
    <3> QED  BY <3>2, <3>3
  <2>4. Settled(n)'  BY <1>5, <1>7, <1>8, <1>9, <2>2, <2>3 DEF Settled
  <2>5. CallOK(call[p])'  BY <2>1, IdleFacts DEF CallOK
  <2> QED  BY <1>1, <1>2, <1>3, <2>1, <2>2, <2>4, <2>5, IdleFacts, AloneStep
<1>11. CASE f.data # <<>>
  <2>0. PICK c : c = [call[p] EXCEPT !.step = "fetch"]
    OBVIOUS
  <2>1. c \in Call /\ c.step = "fetch" /\ c.name = n /\ c.op = "lookup" /\ c.thing = f
    BY <1>2, <1>4, <2>0 DEF Call, Steps, Requests
  <2>2. call' = [call EXCEPT ![p] = c] /\ call'[p] = c /\ dentry' = dentry
    BY <1>2, <1>4, <1>11, <2>0 DEF Insert, Go
  <2>3. StateOK' /\ OnlyName(n)  BY <1>2, <1>8, <1>9, <2>2 DEF StateOK, OnlyName
  <2>4. IsFile(remote[n]) /\ f = remote[n] /\ new = File(<<>>)
    BY <1>5, <1>6, <1>11, OtherThings
  <2>5. LookupOK(call[p])'
    BY <1>5, <1>8, <1>9, <1>11, <2>1, <2>2, <2>4 DEF LookupOK
  <2>6. CallOK(call[p])' /\ Running(c)
    BY <1>2, <2>1, <2>2, <2>5 DEF CallOK, Running
  <2> QED  BY <1>1, <1>2, <1>3, <2>1, <2>2, <2>3, <2>6, AloneStep DEF Calls
<1> QED  BY <1>10, <1>11

LEMMA FillStep ==
  ASSUME IInv, NEW p \in Procs, NEW n, n = call[p].name, Fill(p)
  PROVE  IInv'
<1>1. Running(call[p]) /\ call[p].step = "fill"  BY DEF Running, Fill, At
<1>2. /\ call[p] \in Call /\ n \in Names /\ StateOK /\ call \in [Procs -> Call]
      /\ call[p].op = "lookup" /\ LookupOK(call[p])
  BY <1>1, RequestFacts
<1>3. /\ Free(p, call[p].op)
      /\ \A q \in Procs \ {p} : Running(call[q]) => call[q].name # n
  BY <1>1, <1>2, RunsAlone DEF Calls
<1>4. PICK f : f = call[p].thing
  OBVIOUS
<1>5. /\ f = remote[n] /\ IsFile(f) /\ local[n] = File(<<>>) /\ dentry[n] = "none"
      /\ n \notin diverged => remote[n] = truth[n]
      /\ f \in Things
  BY <1>1, <1>2, <1>4 DEF LookupOK, Call
<1>6. f.data \in Texts /\ f = File(f.data)  BY <1>5, ThingFacts
<1>7. LocalWritten(<<>>, 0, f.data) = f.data
  <2>1. Len(<<>>) = 0 /\ Len(f.data) \in 0 .. MaxSize /\ MaxSize \in Nat
    BY <1>6, TextFacts, SyncAssumption
  <2>2. 0 \in 0 .. Len(<<>>) /\ 0 + Len(f.data) <= MaxSize /\ Len(f.data) >= Len(<<>>)
    BY <2>1
  <2> QED  BY <1>6, <2>2, EmptyText, LocalWrittenFacts
<1>8. local' = [local EXCEPT ![n] = f] /\ UNCHANGED <<remote, dentry, truth, diverged>>
  BY <1>4, <1>5, <1>6, <1>7, EmptyFile DEF Fill, Keep, history
<1>9. local'[n] = f /\ StateOK' /\ OnlyName(n)
  BY <1>2, <1>5, <1>8 DEF StateOK, OnlyName
<1>10. PICK c : c = [call[p] EXCEPT !.step = "echo"]
  OBVIOUS
<1>11. c \in Call /\ c.step = "echo" /\ c.name = n /\ c.op = "lookup" /\ c.thing = f
  BY <1>2, <1>4, <1>10 DEF Call, Steps, Requests
<1>12. call' = [call EXCEPT ![p] = c] /\ call'[p] = c
  BY <1>2, <1>10 DEF Fill, Go
<1>13. LookupOK(call[p])'
  BY <1>5, <1>8, <1>9, <1>11, <1>12 DEF LookupOK
<1>14. CallOK(call[p])' /\ Running(c)
  BY <1>2, <1>11, <1>12, <1>13 DEF CallOK, Running
<1> QED  BY <1>1, <1>2, <1>3, <1>9, <1>11, <1>12, <1>14, AloneStep DEF Calls

LEMMA InstantiateStep ==
  ASSUME IInv, NEW p \in Procs, NEW n, n = call[p].name, Instantiate(p)
  PROVE  IInv'
<1>1. Running(call[p]) /\ call[p].step = "inode"  BY DEF Running, Instantiate, At
<1>2. /\ call[p] \in Call /\ n \in Names /\ StateOK /\ call \in [Procs -> Call]
      /\ call[p].op \in {"create", "mkdir"} /\ CreateOK(call[p])
  BY <1>1, RequestFacts
<1>3. /\ Free(p, call[p].op)
      /\ \A q \in Procs \ {p} : Running(call[q]) => call[q].name # n
  BY <1>1, <1>2, RunsAlone DEF Calls, Alone
<1>4. /\ dentry[n] = "negative" /\ local[n] = Made(call[p])
      /\ n \notin diverged => truth[n] = local[n] /\ remote[n] = local[n]
      /\ Made(call[p]) # None
  BY <1>1, <1>2, OtherThings, EmptyFile DEF CreateOK, Made
<1>5. CASE Found(p, n, "positive") /\ UNCHANGED <<local, history>>
  <2>1. call' = [call EXCEPT ![p] = Idle] /\ call'[p] = Idle
        /\ dentry' = [dentry EXCEPT ![n] = "positive"]
        /\ UNCHANGED <<local, remote, truth, diverged>>
    BY <1>2, <1>5 DEF Instantiate, Found, Return, Remember, history
  <2>2. StateOK' /\ OnlyName(n) /\ dentry'[n] = "positive"
    BY <1>2, <2>1 DEF StateOK, OnlyName
  <2>3. Settled(n)'  BY <1>4, <2>1, <2>2 DEF Settled
  <2>4. CallOK(call[p])'  BY <2>1, IdleFacts DEF CallOK
  <2> QED  BY <1>1, <1>2, <1>3, <2>1, <2>2, <2>3, <2>4, IdleFacts, AloneStep
<1>6. CASE Now(n, None) /\ Go(p, "delete") /\ UNCHANGED dentry
  <2>1. PICK c : c = [call[p] EXCEPT !.step = "delete"]
    OBVIOUS
  <2>2. c \in Call /\ c.step = "delete" /\ c.name = n /\ c.op = call[p].op
    BY <1>2, <2>1 DEF Call, Steps, Requests
  <2>3. /\ call' = [call EXCEPT ![p] = c] /\ call'[p] = c
        /\ local' = [local EXCEPT ![n] = None]
        /\ truth' = [truth EXCEPT ![n] = None]
        /\ UNCHANGED <<remote, dentry, diverged>>
    BY <1>2, <1>6, <2>1 DEF Instantiate, Now, Keep, Record, Go
  <2>4. StateOK' /\ OnlyName(n) /\ local'[n] = None /\ truth'[n] = None
    BY <1>2, <2>3, OtherThings DEF StateOK, OnlyName
  <2>5. CreateOK(call[p])'  BY <1>4, <2>2, <2>3, <2>4 DEF CreateOK
  <2>6. CallOK(call[p])' /\ Running(c)
    BY <1>2, <2>2, <2>3, <2>5 DEF CallOK, Running
  <2> QED  BY <1>1, <1>2, <1>3, <2>2, <2>3, <2>4, <2>6, AloneStep DEF Calls, Alone
<1> QED  BY <1>5, <1>6 DEF Instantiate

\* What else runs on a file that a read or a write is under way on, or that is
\* open: reads and writes.
LEMMA OthersOpen ==
  ASSUME IInv, NEW p \in Procs, NEW n \in Names,
         \/ Running(call[p]) /\ call[p].op \in {"read", "write"} /\ call[p].name = n
         \/ Opened(n),
         NEW q \in Procs \ {p}, Running(call[q]), call[q].name = n
  PROVE  \/ call[q].op = "read" /\ ReadOK(call[q])
         \/ call[q].op = "write" /\ WriteOK(call[q])
<1>1. CallOK(call[p]) /\ CallOK(call[q])  BY DEF IInv
<1>2. dentry[n] = "positive"  BY <1>1 DEF CallOK, ReadOK, WriteOK, Opened
<1>3. call[q].op \notin {"unlink", "rmdir"}
  <2>1. CASE Opened(n)
    BY <2>1 DEF Opened, Doing, On, Active, Running, Alone
  <2>2. CASE Running(call[p]) /\ call[p].op \in {"read", "write"} /\ call[p].name = n
    BY <2>2 DEF IInv, Apart
  <2> QED  BY <2>1, <2>2
<1> QED  BY <1>1, <1>2, <1>3 DEF CallOK, LookupOK, CreateOK

\* A step of a read or write that leaves the module's entry: other writers have
\* diverged, other reads do not mind.
LEMMA OpenStep ==
  ASSUME IInv, NEW p \in Procs, NEW n \in Names, StateOK', OnlyName(n),
         NEW c \in Call, call' = [call EXCEPT ![p] = c],
         Running(call[p]), call[p].op \in {"read", "write"}, call[p].name = n,
         UNCHANGED <<local, dentry>>, diverged \subseteq diverged',
         n \notin diverged' => truth'[n] = truth[n],
         Running(c) => c.name = n /\ c.op = call[p].op /\ c.calm = call[p].calm,
         CallOK(call[p])',
         call[p].op = "read" => remote' = remote,
         call[p].op = "write" /\ ~Running(c) /\ n \notin diverged' =>
           remote'[n] = truth[n] /\ local[n] = truth[n]
  PROVE  IInv'
<1>1. call' \in [Procs -> Call] /\ call'[p] = c
      /\ \A q \in Procs \ {p} : call'[q] = call[q]
  BY DEF IInv
<1>2. \A q \in Procs \ {p} : SameCall(call'[q], call[q])
  BY <1>1 DEF SameCall
<1>3. CallOK(call[p]) /\ Agreed(n) /\ dentry[n] = "positive" /\ IsFile(local[n])
  BY DEF IInv, CallOK, ReadOK, WriteOK
<1>4. ASSUME NEW q \in Procs \ {p}
      PROVE  Apart(call[p], call[q])' /\ Apart(call[q], call[p])'
  <2>1. Apart(call[p], call[q]) /\ Apart(call[q], call[p])  BY DEF IInv
  <2> QED  BY <1>1, <2>1 DEF Apart, Running
<1>5. ASSUME NEW q \in Procs \ {p}, Running(call[q]), call[q].name = n
      PROVE  CallOK(call[q])'
  <2>1. call'[q] = call[q] /\ CallOK(call[q])  BY <1>1 DEF IInv
  <2>2. CASE call[q].op = "read" /\ ReadOK(call[q])
    <3>1. ReadOK(call[q])'  BY <1>5, <2>1, <2>2 DEF ReadOK
    <3> QED  BY <1>5, <2>1, <2>2, <3>1 DEF CallOK, Running, ReadOK
  <2>3. CASE call[q].op = "write" /\ WriteOK(call[q])
    <3>1. CASE call[p].op = "write"
      <4>1. n \in diverged'  BY <1>5, <2>3, <3>1 DEF IInv, Apart
      <4>2. WriteOK(call[q])'  BY <1>5, <2>1, <2>3, <4>1 DEF WriteOK
      <4> QED  BY <1>5, <2>1, <2>3, <4>2 DEF CallOK, Running, WriteOK
    <3>2. CASE call[p].op = "read"
      <4>1. WriteOK(call[q])'  BY <1>5, <2>1, <2>3, <3>2 DEF WriteOK
      <4> QED  BY <1>5, <2>1, <2>3, <4>1 DEF CallOK, Running, WriteOK
    <3> QED  BY <3>1, <3>2
  <2> QED  BY <1>5, <2>2, <2>3, OthersOpen
<1>6. (Agreed(n) /\ Known(n))'
  <2>1. Known(n)'  BY <1>3, OtherThings DEF Known
  <2>2. ASSUME n \notin diverged', Doing(n, Calls \cup {"write"})' = {}
        PROVE  remote'[n] = truth'[n] /\ local'[n] \in {None, truth'[n]}
    <3>1. CASE call[p].op = "write"
      <4>1. ~Running(c)
        BY <1>1, <2>2, <3>1 DEF Doing, On, Active, Running
      <4> QED  BY <2>2, <3>1, <4>1
    <3>2. CASE call[p].op = "read"
      <4>1. \A q \in Procs : Running(call[q]) /\ call[q].name = n =>
              call[q].op \notin Calls \cup {"write"}
        BY <1>1, <2>2, <3>2 DEF Doing, On, Active, Running, Calls, Alone
      <4>2. Doing(n, Calls \cup {"write"}) = {}
        BY <4>1 DEF Doing, On, Active, Running
      <4> QED  BY <1>3, <2>2, <3>2, <4>2 DEF Agreed
    <3> QED  BY <3>1, <3>2
  <2> QED  BY <2>1, <2>2 DEF Agreed
<1>7. \A q \in Procs \ {p} :
        Running(call[q]) /\ call[q].name = n /\ call[q].op = "write" =>
          (n \in diverged => n \in diverged')
  OBVIOUS
<1> QED  BY <1>1, <1>2, <1>4, <1>5, <1>6, <1>7, StepOn

\* A read goes on to the module's bytes, or ends with bytes.
LEMMA ReadAnswered ==
  ASSUME IInv, NEW p \in Procs, NEW n, n = call[p].name,
         call[p].step \in {"read", "read_local"},
         \/ Go(p, "read_local")
         \/ \E f \in Things \cup {Dying} : Answered(p, f),
         UNCHANGED <<local, remote, dentry, diverged>>,
         truth' = truth \/ truth' = [truth EXCEPT ![n] = IF n \in diverged THEN None ELSE truth[n]]
  PROVE  IInv'
<1>1. Running(call[p])  BY DEF Running
<1>2. /\ call[p] \in Call /\ n \in Names /\ StateOK /\ call \in [Procs -> Call]
      /\ call[p].op = "read" /\ ReadOK(call[p])
  BY <1>1, RequestFacts
<1>3. StateOK' /\ OnlyName(n) /\ (n \notin diverged' => truth'[n] = truth[n])
  BY <1>2, OtherThings DEF StateOK, OnlyName
<1>4. CASE Go(p, "read_local")
  <2>1. PICK c : c = [call[p] EXCEPT !.step = "read_local"]
    OBVIOUS
  <2>2. /\ c \in Call /\ c.step = "read_local" /\ c.name = n /\ c.op = "read"
        /\ c.calm = call[p].calm
    BY <1>2, <2>1 DEF Call, Steps
  <2>3. call' = [call EXCEPT ![p] = c] /\ call'[p] = c  BY <1>2, <1>4, <2>1 DEF Go
  <2>4. ReadOK(call[p])'  BY <1>2, <2>2, <2>3 DEF ReadOK
  <2>5. CallOK(call[p])'  BY <1>2, <2>2, <2>3, <2>4 DEF CallOK
  <2> QED  BY <1>1, <1>2, <1>3, <2>2, <2>3, <2>5, OpenStep
<1>5. CASE \E f \in Things \cup {Dying} : Answered(p, f)
  <2>1. PICK f \in Things \cup {Dying} : Answered(p, f)  BY <1>5
  <2>2. PICK t : t = File(SubSeq(f.data, call[p].pos + 1, Len(f.data)))
    OBVIOUS
  <2>3. call[p].pos \in Nat  BY <1>2, SyncAssumption DEF Call
  <2>4. t \in Things  BY <2>2, <2>3, RestFacts
  <2>5. PICK c : c = [Idle EXCEPT !.thing = t]
    OBVIOUS
  <2>6. c \in Call /\ c.step = "idle"
    BY <2>4, <2>5, IdleFacts DEF Call
  <2>7. call' = [call EXCEPT ![p] = c] /\ call'[p] = c
    BY <1>2, <2>1, <2>2, <2>5 DEF Answered
  <2>8. CallOK(call[p])' /\ ~Running(c)  BY <2>6, <2>7 DEF CallOK, Running
  <2> QED  BY <1>1, <1>2, <1>3, <2>6, <2>7, <2>8, OpenStep
<1> QED  BY <1>4, <1>5

\* A write goes on from its first request to its second, or ends.
LEMMA WriteAnswered ==
  ASSUME IInv, NEW p \in Procs, NEW n, n = call[p].name,
         call[p].step \in {"write_first", "write"},
         NEW g \in Things \cup {Dying}, remote' = [remote EXCEPT ![n] = g],
         IF call[p].step = "write_first" THEN Go(p, "write") ELSE Return(p),
         UNCHANGED <<local, dentry>>, diverged' \in {diverged, diverged \cup {n}},
         truth' = [truth EXCEPT ![n] = IF n \in diverged' THEN None ELSE truth[n]],
         \/ call[p].step = "write_first" /\ g = remote[n]
         \/ n \in diverged'
         \/ g = ServerWritten(remote[n], IF call[p].step = "write" THEN call[p].pos ELSE 0,
                              call[p].thing.data)
  PROVE  IInv'
<1>1. Running(call[p])  BY DEF Running
<1>2. /\ call[p] \in Call /\ n \in Names /\ StateOK /\ call \in [Procs -> Call]
      /\ call[p].op = "write" /\ WriteOK(call[p])
  BY <1>1, RequestFacts
<1>3. /\ StateOK' /\ OnlyName(n) /\ remote'[n] = g
      /\ n \notin diverged' => truth'[n] = truth[n]
      /\ diverged \subseteq diverged'
  BY <1>2, OtherThings DEF StateOK, OnlyName
<1>4. PICK f : f = call[p].thing
  OBVIOUS
<1>5. /\ f \in Things /\ IsFile(f) /\ dentry[n] = "positive" /\ IsFile(local[n])
      /\ call[p].pos + Len(f.data) <= MaxSize
      /\ n \notin diverged' =>
           /\ call[p].pos = 0 /\ f = truth[n] /\ local[n] = truth[n]
           /\ IsFile(remote[n]) /\ Len(remote[n].data) <= Len(f.data)
  BY <1>2, <1>3, <1>4 DEF WriteOK, Call
<1>6. f.data \in Texts /\ f = File(f.data) /\ Len(f.data) \in 0 .. MaxSize
      /\ remote[n] \in Things \cup {Dying}
  BY <1>2, <1>5, ThingFacts, TextFacts DEF StateOK
<1>7. ASSUME n \notin diverged', ~(call[p].step = "write_first" /\ g = remote[n])
      PROVE  g = f
  <2>1. g = ServerWritten(remote[n], 0, f.data)  BY <1>4, <1>5, <1>7
  <2>2. 0 \in Nat /\ 0 + Len(f.data) <= MaxSize  BY <1>5, <1>6, <1>7
  <2> QED  BY <1>5, <1>6, <1>7, <2>1, <2>2, ServerWrittenFacts
<1>8. CASE call[p].step = "write_first"
  <2>1. PICK c : c = [call[p] EXCEPT !.step = "write"]
    OBVIOUS
  <2>2. /\ c \in Call /\ c.step = "write" /\ c.name = n /\ c.op = "write"
        /\ c.calm = call[p].calm /\ c.thing = f /\ c.pos = call[p].pos
    BY <1>2, <1>4, <2>1 DEF Call, Steps, Requests
  <2>3. call' = [call EXCEPT ![p] = c] /\ call'[p] = c  BY <1>2, <1>8, <2>1 DEF Go
  <2>4. n \notin diverged' => IsFile(g) /\ Len(g.data) <= Len(f.data)
    BY <1>5, <1>6, <1>7
  <2>5. WriteOK(call[p])'
    BY <1>3, <1>5, <2>2, <2>3, <2>4 DEF WriteOK
  <2>6. CallOK(call[p])' /\ Running(c)
    BY <1>2, <2>2, <2>3, <2>5 DEF CallOK, Running
  <2> QED  BY <1>1, <1>2, <1>3, <2>2, <2>3, <2>6, OpenStep
<1>9. CASE call[p].step = "write"
  <2>1. call' = [call EXCEPT ![p] = Idle] /\ call'[p] = Idle
    BY <1>2, <1>9 DEF Return
  <2>2. CallOK(call[p])'  BY <2>1, IdleFacts DEF CallOK
  <2>3. n \notin diverged' => g = truth[n] /\ local[n] = truth[n]
    BY <1>5, <1>7, <1>9
  <2> QED  BY <1>1, <1>2, <1>3, <2>1, <2>2, <2>3, IdleFacts, OpenStep
<1> QED  BY <1>8, <1>9

LEMMA ReadStep ==
  ASSUME IInv, NEW p \in Procs, NEW n \in Names, Read(p, n)
  PROVE  IInv'
<1>1. PICK pos \in 0 .. MaxSize :
        /\ call' = [call EXCEPT ![p] =
             [Idle EXCEPT !.op = "read", !.step = "read", !.name = n, !.pos = pos,
                          !.calm = Doing(n, {"write"}) = {}]]
        /\ UNCHANGED <<local, remote, dentry, history>>
  BY DEF Read
<1>2. PICK c : c = [Idle EXCEPT !.op = "read", !.step = "read", !.name = n, !.pos = pos,
                                !.calm = Doing(n, {"write"}) = {}]
  OBVIOUS
<1>3. /\ c \in Call /\ c.step = "read" /\ c.op = "read" /\ c.name = n
      /\ c.calm = (Doing(n, {"write"}) = {})
  BY <1>2, IdleFacts DEF Call, Steps, Requests
<1>4. /\ call' = [call EXCEPT ![p] = c] /\ call'[p] = c
      /\ \A q \in Procs \ {p} : call'[q] = call[q]
      /\ call' \in [Procs -> Call]
      /\ UNCHANGED <<local, remote, dentry, truth, diverged>>
  BY <1>1, <1>2, <1>3 DEF history, IInv
<1>5. Opened(n) /\ ~Running(call[p])  BY DEF Read, At, Running
<1>6. StateOK' /\ OnlyName(n) /\ Agreed(n) /\ Known(n)
  BY <1>4 DEF IInv, StateOK, OnlyName
<1>7. \A q \in Procs \ {p} : SameCall(call'[q], call[q])
  BY <1>4 DEF SameCall
<1>8. CallOK(call[p])'
  <2>1. ReadOK(call[p])'  BY <1>3, <1>4, <1>5 DEF ReadOK, Opened
  <2> QED  BY <1>3, <1>4, <2>1 DEF CallOK
<1>9. ASSUME NEW q \in Procs \ {p}
      PROVE  /\ Running(call[q]) /\ call[q].name = n => CallOK(call[q])'
             /\ Apart(call[p], call[q])' /\ Apart(call[q], call[p])'
  <2>1. Running(call[q]) /\ call[q].name = n => call[q].op \in {"read", "write"}
    BY <1>5, OthersOpen
  <2>2. CallOK(call[q]) /\ call'[q] = call[q]  BY <1>4 DEF IInv
  <2>3. CallOK(call[q])'
    BY <1>4, <2>2 DEF CallOK, LookupOK, CreateOK, RemoveOK, ReadOK, WriteOK, Made, Running
  <2>4. Running(call[q]) /\ call[q].name = n /\ call[q].op = "write" => ~c.calm
    BY <1>3 DEF Doing, On, Active, Running
  <2>5. Apart(call[p], call[q])' /\ Apart(call[q], call[p])'
    BY <1>3, <1>4, <2>1, <2>4 DEF Apart, Running, Calls, Alone
  <2> QED  BY <2>3, <2>5
<1>10. (Agreed(n) /\ Known(n))'
  <2>1. \A ops : "read" \notin ops /\ Doing(n, ops)' = {} => Doing(n, ops) = {}
    BY <1>3, <1>4, <1>5 DEF Doing, On, Active, Running
  <2>2. "read" \notin Calls /\ "read" \notin Calls \cup {"write"}  BY DEF Calls, Alone
  <2>3. /\ Doing(n, Calls)' = {} => Doing(n, Calls) = {}
        /\ Doing(n, Calls \cup {"write"})' = {} => Doing(n, Calls \cup {"write"}) = {}
    BY <2>1, <2>2 DEF Calls, Alone
  <2> QED  BY <1>4, <1>6, <2>3 DEF Agreed, Known
<1>11. Running(call'[p]) => call'[p].name = n  BY <1>3, <1>4
<1>12. n \in diverged => n \in diverged'  BY <1>4
<1> QED  BY <1>4, <1>5, <1>6, <1>7, <1>8, <1>9, <1>10, <1>11, <1>12, StepOn

\* A write: the only one, covering the file, it has truth with it; the others
\* leave the name diverged and end the calm of the reads.
LEMMA WriteStep ==
  ASSUME IInv, NEW p \in Procs, NEW n \in Names, Write(p, n)
  PROVE  IInv'
<1>1. PICK pos \in 0 .. Len(local[n].data), text \in SeqOf(Bytes, MaxSize) \ {<<>>} :
        LET made == File(LocalWritten(local[n].data, pos, text)) IN
        /\ pos + Len(text) <= MaxSize
        /\ Keep(n, made)
        /\ Record(n, made, IF Covers(n, pos, text) THEN diverged ELSE diverged \cup {n})
        /\ call' = [q \in Procs |->
             IF q = p THEN [Idle EXCEPT !.op = "write", !.step = "write_first", !.name = n,
                                        !.thing = File(text), !.pos = pos]
             ELSE [call[q] EXCEPT !.calm = @ /\ call[q].name # n]]
        /\ UNCHANGED <<remote, dentry>>
  BY DEF Write
<1>2. Opened(n) /\ ~Running(call[p])  BY DEF Write, At, Running
<1>3. /\ StateOK /\ call \in [Procs -> Call] /\ IsFile(local[n]) /\ dentry[n] = "positive"
      /\ Agreed(n) /\ local[n] \in Things
  BY <1>2 DEF Opened, IInv, StateOK
<1>4. text \in Texts /\ local[n].data \in Texts /\ local[n] = File(local[n].data)
  <2>1. text \in Texts  BY DEF Texts, SeqOf
  <2> QED  BY <1>3, <2>1, ThingFacts
<1>5. /\ Len(text) \in 0 .. MaxSize /\ Len(local[n].data) \in 0 .. MaxSize
      /\ MaxSize \in Nat /\ pos \in 0 .. MaxSize
  BY <1>4, TextFacts, SyncAssumption
<1>6. PICK made : made = File(LocalWritten(local[n].data, pos, text))
  OBVIOUS
<1>7. /\ made \in Things /\ IsFile(made)
      /\ pos = 0 /\ Len(text) >= Len(local[n].data) => made = File(text)
  <2>1. pos + Len(text) <= MaxSize  BY <1>1
  <2>2. /\ LocalWritten(local[n].data, pos, text) \in Texts
        /\ pos = 0 /\ Len(text) >= Len(local[n].data) =>
             LocalWritten(local[n].data, pos, text) = text
    BY <1>4, <2>1, LocalWrittenFacts
  <2> QED  BY <1>6, <2>2, FileFacts
<1>8. /\ local' = [local EXCEPT ![n] = made]
      /\ diverged' = (IF Covers(n, pos, text) THEN diverged ELSE diverged \cup {n})
      /\ truth' = [truth EXCEPT ![n] = IF n \in diverged' THEN None ELSE made]
      /\ UNCHANGED <<remote, dentry>>
  BY <1>1, <1>6 DEF Keep, Record
<1>9. PICK c : c = [Idle EXCEPT !.op = "write", !.step = "write_first", !.name = n,
                                !.thing = File(text), !.pos = pos]
  OBVIOUS
<1>10. /\ c \in Call /\ c.step = "write_first" /\ c.op = "write" /\ c.name = n
       /\ c.thing = File(text) /\ c.pos = pos
  <2>1. File(text) \in Things  BY <1>4, FileFacts
  <2> QED  BY <1>5, <1>9, <2>1, IdleFacts DEF Call, Steps, Requests
<1>11. /\ call'[p] = c
       /\ \A q \in Procs \ {p} : call'[q] = [call[q] EXCEPT !.calm = @ /\ call[q].name # n]
  BY <1>1, <1>9
<1>12. ASSUME NEW q \in Procs \ {p}
       PROVE  /\ call'[q] \in Call /\ SameCall(call'[q], call[q])
              /\ call[q].name = n => ~call'[q].calm
  <2>1. call[q] \in Call  BY <1>3
  <2> QED  BY <1>11, <2>1 DEF Call, SameCall
<1>13. call' \in [Procs -> Call]
  <2>1. \A q \in Procs : call'[q] \in Call  BY <1>10, <1>11, <1>12
  <2>2. call' = [q \in Procs |-> call'[q]]  BY <1>1
  <2> QED  BY <2>1, <2>2
<1>14. /\ StateOK' /\ OnlyName(n) /\ local'[n] = made
       /\ truth'[n] = (IF n \in diverged' THEN None ELSE made)
  BY <1>3, <1>7, <1>8, OtherThings DEF StateOK, OnlyName
<1>15. \A q \in Procs \ {p} : Running(call[q]) /\ call[q].name = n =>
         \/ call[q].op = "read" /\ ReadOK(call[q])
         \/ call[q].op = "write" /\ WriteOK(call[q]) /\ n \in diverged'
  <2>1. ASSUME NEW q \in Procs \ {p}, Running(call[q]), call[q].name = n,
               call[q].op = "write"
        PROVE  n \in diverged'
    <3>1. q \in Doing(n, {"write"})  BY <2>1 DEF Doing, On, Active, Running
    <3> QED  BY <1>8, <3>1 DEF Covers
  <2> QED  BY <1>2, <2>1, OthersOpen
<1>16. CallOK(call[p])'
  <2>1. ASSUME n \notin diverged'
        PROVE  /\ pos = 0 /\ made = File(text)
               /\ IsFile(remote[n]) /\ Len(remote[n].data) <= Len(text)
    <3>1. Covers(n, pos, text) /\ n \notin diverged  BY <1>8, <2>1
    <3>2. Doing(n, Calls \cup {"write"}) = {}
      <4>1. \A q \in Procs : Running(call[q]) /\ call[q].name = n => call[q].op = "read"
        BY <1>2, <1>15, <2>1
      <4> QED  BY <4>1 DEF Doing, On, Active, Running, Calls, Alone
    <3>3. remote[n] = local[n]  BY <1>3, <3>1, <3>2, OtherThings DEF Agreed
    <3> QED  BY <1>3, <1>7, <3>1, <3>3 DEF Covers
  <2>2. File(text).data = text /\ IsFile(File(text))  BY <1>4, FileFacts
  <2>3. pos + Len(text) <= MaxSize  BY <1>1
  <2>4. WriteOK(call[p])'
    BY <1>3, <1>7, <1>8, <1>10, <1>11, <1>14, <2>1, <2>2, <2>3 DEF WriteOK
  <2> QED  BY <1>10, <1>11, <2>4 DEF CallOK
<1>17. ASSUME NEW q \in Procs \ {p}
       PROVE  /\ Running(call[q]) /\ call[q].name = n => CallOK(call[q])'
              /\ Apart(call[p], call[q])' /\ Apart(call[q], call[p])'
  <2>1. /\ SameCall(call'[q], call[q]) /\ (call[q].name = n => ~call'[q].calm)
        /\ CallOK(call[q])
    BY <1>12 DEF IInv
  <2>2. ASSUME Running(call[q]), call[q].name = n PROVE CallOK(call[q])'
    <3>1. CASE call[q].op = "read" /\ ReadOK(call[q])
      <4>1. ReadOK(call[q])'
        BY <1>7, <1>8, <1>14, <2>1, <2>2, <3>1 DEF ReadOK, SameCall
      <4> QED  BY <2>1, <2>2, <3>1, <4>1 DEF CallOK, SameCall, Running, ReadOK
    <3>2. CASE call[q].op = "write" /\ WriteOK(call[q]) /\ n \in diverged'
      <4>1. WriteOK(call[q])'
        BY <1>7, <1>8, <1>14, <2>1, <2>2, <3>2 DEF WriteOK, SameCall
      <4> QED  BY <2>1, <2>2, <3>2, <4>1 DEF CallOK, SameCall, Running, WriteOK
    <3> QED  BY <1>15, <2>2, <3>1, <3>2
  <2>3. Apart(call[p], call[q])' /\ Apart(call[q], call[p])'
    <3>1. Running(call[q])' /\ call'[q].name = n =>
            /\ call'[q].op \in {"read", "write"} /\ ~call'[q].calm
            /\ call'[q].op = "write" => n \in diverged'
      BY <1>15, <2>1 DEF SameCall, Running
    <3> QED  BY <1>10, <1>11, <3>1 DEF Apart, Running, Calls, Alone
  <2> QED  BY <2>2, <2>3
<1>18. (Agreed(n) /\ Known(n))'
  <2>1. p \in Doing(n, Calls \cup {"write"})'
    BY <1>10, <1>11 DEF Doing, On, Active
  <2> QED  BY <1>3, <1>7, <1>8, <1>14, <2>1, OtherThings DEF Agreed, Known
<1>19. Running(call'[p]) => call'[p].name = n  BY <1>10, <1>11
<1>20. n \in diverged => n \in diverged'  BY <1>8
<1> QED
  BY <1>2, <1>12, <1>13, <1>14, <1>16, <1>17, <1>18, <1>19, <1>20, StepOn

LEMMA EvictStep ==
  ASSUME IInv, NEW n \in Names, Evict(n)
  PROVE  IInv'
<1>1. /\ dentry' = [dentry EXCEPT ![n] = "none"] /\ Quiet(n)
      /\ UNCHANGED <<local, remote, call, truth, diverged>> /\ StateOK
  BY DEF Evict, Remember, history, IInv
<1>2. StateOK' /\ dentry'[n] = "none" /\ \A m \in Names \ {n} : dentry'[m] = dentry[m]
  BY <1>1 DEF StateOK
<1>3. ASSUME NEW q \in Procs PROVE CallOK(call[q])'
  <2>1. CallOK(call[q])  BY DEF IInv
  <2>2. Running(call[q]) => call[q].name \in Names \ {n}
    BY <1>1, <2>1 DEF CallOK, Quiet, On, Active, Running
  <2> QED
    BY <1>1, <1>2, <2>1, <2>2
    DEF CallOK, LookupOK, CreateOK, RemoveOK, ReadOK, WriteOK, Made, Running
<1>4. ASSUME NEW q \in Procs, NEW r \in Procs, q # r PROVE Apart(call[q], call[r])'
  BY <1>1, <1>4 DEF IInv, Apart, Running
<1>5. ASSUME NEW m \in Names PROVE (Agreed(m) /\ Known(m))'
  <2>1. Agreed(m) /\ Known(m)  BY DEF IInv
  <2>2. /\ Doing(m, Calls)' = Doing(m, Calls)
        /\ Doing(m, Calls \cup {"write"})' = Doing(m, Calls \cup {"write"})
    BY <1>1 DEF Doing, On, Active, Calls, Alone
  <2> QED  BY <1>1, <1>2, <2>1, <2>2 DEF Agreed, Known
<1> QED  BY <1>1, <1>2, <1>3, <1>4, <1>5 DEF IInv

LEMMA ReloadStep ==
  ASSUME IInv, Reload
  PROVE  IInv'
<1>1. /\ \A p \in Procs : ~Running(call[p]) /\ call[p].step = "idle"
      /\ local' = [n \in Names |-> None] /\ dentry' = [n \in Names |-> "none"]
      /\ UNCHANGED <<remote, call, truth, diverged>> /\ StateOK
  BY DEF Reload, At, Running, history, IInv
<1>2. StateOK'  BY <1>1, OtherThings DEF StateOK
<1>3. ASSUME NEW q \in Procs PROVE CallOK(call[q])'
  BY <1>1 DEF CallOK, Running
<1>4. ASSUME NEW q \in Procs, NEW r \in Procs PROVE Apart(call[q], call[r])'
  BY <1>1 DEF Apart, Running
<1>5. ASSUME NEW m \in Names PROVE (Agreed(m) /\ Known(m))'
  <2>1. Agreed(m)  BY DEF IInv
  <2>2. Doing(m, Calls \cup {"write"}) = {}
    BY <1>1 DEF Doing, On, Active
  <2> QED  BY <1>1, <2>1, <2>2 DEF Agreed, Known
<1> QED  BY <1>1, <1>2, <1>3, <1>4, <1>5 DEF IInv

LEMMA Stutter == ASSUME IInv, UNCHANGED vars PROVE IInv'
<1>1. UNCHANGED <<local, remote, dentry, call, truth, diverged>>  BY DEF vars
<1>2. StateOK'  BY <1>1 DEF IInv, StateOK
<1>3. ASSUME NEW q \in Procs PROVE CallOK(call[q])'
  <2>1. CallOK(call[q])  BY DEF IInv
  <2> QED
    BY <1>1, <2>1
    DEF CallOK, LookupOK, CreateOK, RemoveOK, ReadOK, WriteOK, Made, Running
<1>4. ASSUME NEW q \in Procs, NEW r \in Procs, q # r PROVE Apart(call[q], call[r])'
  BY <1>1, <1>4 DEF IInv, Apart, Running
<1>5. ASSUME NEW m \in Names PROVE (Agreed(m) /\ Known(m))'
  <2>1. Agreed(m) /\ Known(m)  BY DEF IInv
  <2> QED  BY <1>1, <2>1 DEF Agreed, Known, Doing, On, Active
<1> QED  BY <1>1, <1>2, <1>3, <1>4, <1>5 DEF IInv

LEMMA ServeStep ==
  ASSUME IInv, Short, NEW p \in Procs, NEW n, n = call[p].name, Serve(p)
  PROVE  IInv'
<1>1. Running(call[p]) /\ call[p].step \in Requests  BY DEF Serve, Running, Requests
<1>2. /\ call[p] \in Call /\ n \in Names /\ StateOK /\ call \in [Procs -> Call]
  BY <1>1, RequestFacts
<1>3. PICK g \in Served(call[p], remote[n]) :
        /\ remote' = [remote EXCEPT ![n] = g]
        /\ Record(n, truth[n],
             CASE call[p].step = "create" /\ (remote[n] # None \/ g = None) ->
                    diverged \cup {n}
               [] call[p].step = "delete" /\ g # None -> diverged \cup {n}
               [] call[p].step = "delete" /\ g = None -> diverged \ {n}
               [] OTHER -> diverged)
  BY DEF Serve
<1>4. PICK bad : bad = CASE call[p].step = "create" /\ (remote[n] # None \/ g = None) ->
                              diverged \cup {n}
                         [] call[p].step = "delete" /\ g # None -> diverged \cup {n}
                         [] call[p].step = "delete" /\ g = None -> diverged \ {n}
                         [] OTHER -> diverged
  OBVIOUS
<1>5. /\ remote' = [remote EXCEPT ![n] = g] /\ Answer(p, remote[n]) /\ UNCHANGED local
      /\ diverged' = bad
      /\ truth' = [truth EXCEPT ![n] = IF n \in bad THEN None ELSE truth[n]]
  BY <1>3, <1>4 DEF Serve, Record
<1>6. remote[n] \in Things \cup {Dying} /\ remote \in [Names -> Things \cup {Dying}]
  BY <1>2 DEF StateOK
<1>7. CASE call[p].step \in {"stat", "fetch", "echo"}
  <2>1. g \in Things \cup {Dying} /\ (g # remote[n] => call[p].step = "echo" /\ n \in diverged)
    <3>1. CASE call[p].step = "echo"
      <4>1. IsFile(remote[n]) /\ call[p].thing = remote[n]
            /\ (n \notin diverged => remote[n] = truth[n])
        BY <1>1, <3>1, RequestFacts DEF LookupOK
      <4>2. /\ remote[n].data \in Texts /\ remote[n] = File(remote[n].data)
            /\ Len(remote[n].data) \in 0 .. MaxSize /\ MaxSize \in Nat
        BY <1>6, <4>1, ThingFacts, TextFacts, SyncAssumption
      <4>3. g \in Arrived(remote[n], 0, remote[n].data)
        BY <1>3, <3>1, <4>1 DEF Served
      <4>4. 0 \in Nat /\ 0 + Len(remote[n].data) <= MaxSize
            /\ Len(remote[n].data) <= Len(remote[n].data)
        BY <4>2
      <4>5. /\ g \in Things \cup {Dying}
            /\ Len(remote[n].data) <= MaxSent => g = ServerWritten(remote[n], 0, remote[n].data)
        BY <1>6, <4>2, <4>3, <4>4, ArrivedFacts
      <4>6. ServerWritten(remote[n], 0, remote[n].data) = remote[n]
        BY <1>6, <4>1, <4>2, <4>4, ServerWrittenFacts
      <4>7. n \notin diverged => Len(remote[n].data) <= MaxSent
        BY <1>2, <4>1 DEF Short
      <4> QED  BY <3>1, <4>5, <4>6, <4>7
    <3>2. CASE call[p].step # "echo"
      BY <1>3, <1>6, <1>7, <3>2 DEF Served
    <3> QED  BY <3>1, <3>2
  <2>2. diverged' = diverged  BY <1>4, <1>5, <1>7
  <2>3. call[p].step = "fetch" => remote[n] # None
    BY <1>1, RequestFacts, OtherThings DEF LookupOK
  <2> QED  BY <1>4, <1>5, <1>7, <2>1, <2>2, <2>3, LookupAnswered
<1>8. CASE call[p].step = "create"
  <2>1. g \in ServerCreated(remote[n], call[p].op = "mkdir")
    BY <1>3, <1>8 DEF Served
  <2>2. g \in Things \cup {Dying}
    BY <1>6, <2>1, OtherThings, EmptyFile DEF ServerCreated
  <2>3. Go(p, "inode") /\ UNCHANGED dentry  BY <1>5, <1>8 DEF Answer
  <2>4. diverged' = IF remote[n] # None \/ g = None THEN diverged \cup {n} ELSE diverged
    BY <1>4, <1>5, <1>8
  <2>5. remote[n] = None /\ g # None => g = Made(call[p])
    BY <2>1 DEF ServerCreated, Made
  <2> QED  BY <1>4, <1>5, <1>8, <2>2, <2>3, <2>4, <2>5, CreateAnswered
<1>9. CASE call[p].step = "delete"
  <2>1. g \in ServerDeleted(remote[n])  BY <1>3, <1>9 DEF Served
  <2>2. g \in Things \cup {Dying}  BY <2>1, OtherThings DEF ServerDeleted
  <2>3. /\ call' = [call EXCEPT ![p] = Idle]
        /\ dentry' = IF call[p].op \in {"unlink", "rmdir"}
                     THEN [dentry EXCEPT ![n] = "negative"] ELSE dentry
    <3>1. IF call[p].op \in {"unlink", "rmdir"} THEN Found(p, n, "negative")
          ELSE Return(p) /\ UNCHANGED dentry
      BY <1>5, <1>9 DEF Answer
    <3> QED  BY <3>1 DEF Found, Return, Remember
  <2>4. diverged' = IF g # None THEN diverged \cup {n} ELSE diverged \ {n}
    BY <1>4, <1>5, <1>9
  <2> QED  BY <1>4, <1>5, <1>9, <2>2, <2>3, <2>4, DeleteAnswered
<1>10. CASE call[p].step \in {"write_first", "write"}
  <2>1. PICK pos : pos = IF call[p].step = "write" THEN call[p].pos ELSE 0
    OBVIOUS
  <2>2. g \in Arrived(remote[n], pos, call[p].thing.data)
    BY <1>3, <1>10, <2>1 DEF Served
  <2>3. WriteOK(call[p])  BY <1>1, <1>10, RequestFacts
  <2>4. /\ g \in Things \cup {Dying}
        /\ Len(call[p].thing.data) <= MaxSent =>
             g = ServerWritten(remote[n], pos, call[p].thing.data)
    <3>1. call[p].thing.data \in Texts /\ call[p].pos \in Nat
      BY <1>2, ThingFacts, SyncAssumption DEF Call
    <3>2. pos \in Nat /\ pos + Len(call[p].thing.data) <= MaxSize
      BY <2>1, <2>3, <3>1, TextFacts DEF WriteOK
    <3> QED  BY <1>6, <2>2, <3>1, <3>2, ArrivedFacts
  <2>5. n \notin diverged => Len(call[p].thing.data) <= MaxSent
    BY <1>2, <2>3 DEF WriteOK, Short
  <2>6. /\ IF call[p].step = "write_first" THEN Go(p, "write") ELSE Return(p)
        /\ UNCHANGED dentry
    BY <1>5, <1>10 DEF Answer, AfterFirst
  <2>7. diverged' = diverged  BY <1>4, <1>5, <1>10
  <2>8. n \in diverged' \/ g = ServerWritten(remote[n], pos, call[p].thing.data)
    BY <2>4, <2>5, <2>7
  <2> QED  BY <1>4, <1>5, <1>10, <2>1, <2>4, <2>6, <2>7, <2>8, WriteAnswered
<1>11. CASE call[p].step = "read"
  <2>1. g = remote[n]  BY <1>3, <1>11 DEF Served
  <2>2. remote' = remote  BY <1>5, <1>6, <2>1
  <2>3. (IF IsFile(remote[n]) THEN Answered(p, remote[n]) ELSE Go(p, "read_local"))
        /\ UNCHANGED dentry
    BY <1>5, <1>11 DEF Answer
  <2>4. bad = diverged  BY <1>4, <1>11
  <2> QED  BY <1>5, <1>6, <1>11, <2>2, <2>3, <2>4, ReadAnswered
<1> QED  BY <1>1, <1>7, <1>8, <1>9, <1>10, <1>11 DEF Requests

LEMMA LoseStep ==
  ASSUME IInv, NEW p \in Procs, NEW n, n = call[p].name, Lose(p)
  PROVE  IInv'
<1>1. Running(call[p]) /\ call[p].step \in Requests  BY DEF Lose, Running, Requests
<1>2. /\ call[p] \in Call /\ n \in Names /\ StateOK /\ call \in [Procs -> Call]
  BY <1>1, RequestFacts
<1>3. PICK bad : bad = IF call[p].step \in {"create", "delete", "write", "fetch"}
                       THEN diverged \cup {n} ELSE diverged
  OBVIOUS
<1>4. /\ UNCHANGED <<local, remote>> /\ diverged' = bad
      /\ truth' = [truth EXCEPT ![n] = IF n \in bad THEN None ELSE truth[n]]
  BY <1>3 DEF Lose, Record
<1>5. call[p].step # "read" => Answer(p, None)  BY DEF Lose
<1>6. remote[n] \in Things \cup {Dying} /\ remote' = [remote EXCEPT ![n] = remote[n]]
  BY <1>2, <1>4 DEF StateOK
<1>7. CASE call[p].step \in {"stat", "fetch", "echo"}
  BY <1>3, <1>4, <1>5, <1>6, <1>7, LookupAnswered
<1>8. CASE call[p].step = "create"
  <2>1. Go(p, "inode") /\ UNCHANGED dentry  BY <1>5, <1>8 DEF Answer
  <2> QED  BY <1>3, <1>4, <1>6, <1>8, <2>1, CreateAnswered
<1>9. CASE call[p].step = "delete"
  <2>1. IF call[p].op \in {"unlink", "rmdir"} THEN Found(p, n, "negative")
        ELSE Return(p) /\ UNCHANGED dentry
    BY <1>5, <1>9 DEF Answer
  <2>2. /\ call' = [call EXCEPT ![p] = Idle]
        /\ dentry' = IF call[p].op \in {"unlink", "rmdir"}
                     THEN [dentry EXCEPT ![n] = "negative"] ELSE dentry
    BY <2>1 DEF Found, Return, Remember
  <2> QED  BY <1>3, <1>4, <1>6, <1>9, <2>2, DeleteAnswered
<1>10. CASE call[p].step \in {"write_first", "write"}
  <2>1. /\ IF call[p].step = "write_first" THEN Go(p, "write") ELSE Return(p)
        /\ UNCHANGED dentry
    BY <1>5, <1>10 DEF Answer, AfterFirst
  <2> QED  BY <1>3, <1>4, <1>6, <1>10, <2>1, WriteAnswered
<1>11. CASE call[p].step = "read"
  <2>1. Go(p, "read_local") /\ UNCHANGED dentry  BY <1>11 DEF Lose
  <2>2. bad = diverged  BY <1>3, <1>11
  <2> QED  BY <1>4, <1>11, <2>1, <2>2, ReadAnswered
<1> QED  BY <1>1, <1>7, <1>8, <1>9, <1>10, <1>11 DEF Requests

LEMMA ReadLocalStep ==
  ASSUME IInv, NEW p \in Procs, NEW n, n = call[p].name, ReadLocal(p)
  PROVE  IInv'
<1>1. Running(call[p]) /\ call[p].step = "read_local"  BY DEF ReadLocal, At, Running
<1>2. n \in Names /\ StateOK  BY <1>1, RequestFacts
<1>3. local[n] \in Things \cup {Dying} /\ Answered(p, local[n])
      /\ UNCHANGED <<local, remote, dentry, truth, diverged>>
  BY <1>2 DEF ReadLocal, StateOK, history
<1> QED  BY <1>1, <1>3, ReadAnswered

-----------------------------------------------------------------------------
(***************************************************************************)
(* The theorems.                                                           *)
(***************************************************************************)
LEMMA Initially == Init => IInv /\ Short
<1> SUFFICES ASSUME Init PROVE IInv /\ Short
  OBVIOUS
<1>1. StateOK  BY OtherThings DEF Init, StateOK
<1>2. call \in [Procs -> Call] /\ \A p \in Procs : call[p] = Idle
  BY IdleFacts DEF Init
<1>3. ASSUME NEW p \in Procs PROVE CallOK(call[p])
  BY <1>2, IdleFacts DEF CallOK
<1>4. ASSUME NEW p \in Procs, NEW q \in Procs PROVE Apart(call[p], call[q])
  BY <1>2, IdleFacts DEF Apart
<1>5. ASSUME NEW n \in Names PROVE Agreed(n) /\ Known(n)
  BY DEF Init, Agreed, Known
<1>6. Short  BY EmptyText, OtherThings, SyncAssumption DEF Init, Short
<1> QED  BY <1>1, <1>2, <1>3, <1>4, <1>5, <1>6 DEF IInv

LEMMA Inductive == IInv /\ Short /\ [Next]_vars => IInv'
<1> SUFFICES ASSUME IInv, Short, [Next]_vars PROVE IInv'
  OBVIOUS
<1>1. ASSUME NEW p \in Procs, NEW n \in Names, Read(p, n) PROVE IInv'
  BY <1>1, ReadStep
<1>2. ASSUME NEW p \in Procs, NEW n \in Names, Write(p, n) PROVE IInv'
  BY <1>2, WriteStep
<1>3. ASSUME NEW p \in Procs, NEW n \in Names, NEW op \in Calls, Begin(p, op, n) PROVE IInv'
  BY <1>3, BeginStep
<1>4. ASSUME NEW p \in Procs, Enter(p) PROVE IInv'
  BY <1>4, EnterStep
<1>5. ASSUME NEW p \in Procs, Step(p) PROVE IInv'
  BY <1>5, ServeStep, LoseStep, InsertStep, FillStep, InstantiateStep, ReadLocalStep DEF Step
<1>6. ASSUME NEW n \in Names, Evict(n) PROVE IInv'
  BY <1>6, EvictStep
<1>7. CASE Reload  BY <1>7, ReloadStep
<1>8. CASE UNCHANGED vars  BY <1>8, Stutter
<1> QED  BY <1>1, <1>2, <1>3, <1>4, <1>5, <1>6, <1>7, <1>8 DEF Next

\* A call that makes something of name n keeps what has not diverged short.
LEMMA RecordShort ==
  ASSUME StateOK, Short, NEW n \in Names, NEW thing, NEW bad, Record(n, thing, bad),
         \A m \in Names \ {n} : m \in diverged => m \in bad,
         n \notin bad => Len(thing.data) <= MaxSent
  PROVE  Short'
<1>1. ASSUME NEW m \in Names, m \notin bad PROVE Len(truth'[m].data) <= MaxSent
  <2>1. truth'[m] = IF m = n THEN thing ELSE truth[m]  BY <1>1 DEF Record, StateOK
  <2> QED  BY <1>1, <2>1 DEF Short
<1> QED  BY <1>1 DEF Short, Record

LEMMA NothingIsShort == Len(None.data) <= MaxSent /\ Len(Dir.data) <= MaxSent
                        /\ Len(File(<<>>).data) <= MaxSent
BY EmptyFile, OtherThings, SyncAssumption

LEMMA StaysShort == IInv /\ Short /\ [Next]_vars => Short'
<1> SUFFICES ASSUME IInv, Short, [Next]_vars PROVE Short'
  OBVIOUS
<1>0. StateOK  BY DEF IInv
<1>1. ASSUME UNCHANGED <<truth, diverged>> PROVE Short'
  BY <1>1 DEF Short
<1>2. ASSUME NEW p \in Procs, NEW n \in Names, Write(p, n) PROVE Short'
  <2>1. PICK pos \in 0 .. Len(local[n].data), text \in SeqOf(Bytes, MaxSize) \ {<<>>} :
          /\ pos + Len(text) <= MaxSize /\ Opened(n)
          /\ Record(n, File(LocalWritten(local[n].data, pos, text)),
                    IF Covers(n, pos, text) THEN diverged ELSE diverged \cup {n})
    BY <1>2 DEF Write
  <2>2. text \in Texts /\ local[n].data \in Texts
    <3>1. text \in Texts  BY DEF Texts, SeqOf
    <3> QED  BY <1>0, <3>1, ThingFacts DEF StateOK
  <2>3. ASSUME Covers(n, pos, text)
        PROVE  Len(File(LocalWritten(local[n].data, pos, text)).data) <= MaxSent
    <3>1. Len(text) \in 0 .. MaxSize /\ Len(local[n].data) \in 0 .. MaxSize
      BY <2>2, TextFacts
    <3>2. pos = 0 /\ Len(text) >= Len(local[n].data) /\ Len(text) <= MaxSent
      BY <2>3, <3>1, SyncAssumption DEF Covers
    <3>3. LocalWritten(local[n].data, pos, text) = text
      BY <2>1, <2>2, <3>2, LocalWrittenFacts
    <3> QED  BY <2>2, <3>2, <3>3, FileFacts
  <2> QED  BY <1>0, <2>1, <2>3, RecordShort
<1>3. ASSUME NEW p \in Procs, Enter(p) PROVE Short'
  <2>1. ASSUME NEW thing \in {None, Dir, File(<<>>)}, Now(call[p].name, thing),
               Called(call[p])
        PROVE  Short'
    <3>1. call[p].name \in Names  BY <1>3, <2>1, EntersAlone DEF Enter
    <3> QED  BY <1>0, <2>1, <3>1, NothingIsShort, RecordShort DEF Now
  <2>2. CASE ~Called(call[p]) \/ EnterLookup(p)
    <3>1. UNCHANGED <<truth, diverged>>  BY <1>3, <2>2 DEF Enter, EnterLookup, history
    <3> QED  BY <1>1, <3>1
  <2>3. CASE Called(call[p]) /\ EnterCreate(p)
    BY <2>1, <2>3 DEF EnterCreate
  <2>4. CASE Called(call[p]) /\ EnterDelete(p)
    BY <2>1, <2>4 DEF EnterDelete
  <2> QED  BY <1>3, <2>2, <2>3, <2>4 DEF Enter
<1>4. ASSUME NEW p \in Procs, Serve(p) PROVE Short'
  <2>1. PICK n : n = call[p].name
    OBVIOUS
  <2>2. Running(call[p])  BY <1>4 DEF Serve, Running, Requests
  <2>3. n \in Names /\ (call[p].step = "delete" => truth[n] = None)
    BY <2>1, <2>2, RequestFacts, OtherThings, EmptyFile DEF CreateOK, RemoveOK
  <2>4. PICK g, bad :
          /\ Record(n, truth[n], bad)
          /\ bad \in {diverged, diverged \cup {n}, diverged \ {n}}
          /\ bad = diverged \ {n} => call[p].step = "delete" \/ bad = diverged
    BY <1>4, <2>1 DEF Serve
  <2>5. n \notin bad => Len(truth[n].data) <= MaxSent
    BY <2>3, <2>4, NothingIsShort DEF Short
  <2> QED  BY <1>0, <2>3, <2>4, <2>5, RecordShort
<1>5. ASSUME NEW p \in Procs, Lose(p) PROVE Short'
  <2>1. PICK n : n = call[p].name
    OBVIOUS
  <2>2. Running(call[p])  BY <1>5 DEF Lose, Running, Requests
  <2>3. n \in Names  BY <2>1, <2>2, RequestFacts
  <2>4. PICK bad \in {diverged, diverged \cup {n}} : Record(n, truth[n], bad)
    BY <1>5, <2>1 DEF Lose
  <2>5. n \notin bad => Len(truth[n].data) <= MaxSent
    BY <2>3, <2>4 DEF Short
  <2> QED  BY <1>0, <2>3, <2>4, <2>5, RecordShort
<1>6. ASSUME NEW p \in Procs, Instantiate(p) PROVE Short'
  <2>1. Running(call[p])  BY <1>6 DEF Instantiate, At, Running
  <2>2. call[p].name \in Names  BY <2>1, RequestFacts
  <2>3. CASE Now(call[p].name, None)
    BY <1>0, <2>2, <2>3, NothingIsShort, RecordShort DEF Now
  <2>4. CASE UNCHANGED history  BY <1>1, <2>4 DEF history
  <2> QED  BY <1>6, <2>3, <2>4 DEF Instantiate
<1>7. ASSUME NEW p \in Procs, Insert(p) \/ Fill(p) \/ ReadLocal(p) PROVE Short'
  BY <1>1, <1>7 DEF Insert, Fill, ReadLocal, history
<1>8. ASSUME NEW p \in Procs, NEW n \in Names,
             Read(p, n) \/ (\E op \in Calls : Begin(p, op, n)) \/ Evict(n)
      PROVE  Short'
  BY <1>1, <1>8 DEF Read, Begin, Evict, history
<1>9. CASE Reload \/ UNCHANGED vars
  BY <1>1, <1>9 DEF Reload, vars, history
<1>10. ASSUME NEW n \in Names, Evict(n) PROVE Short'
  BY <1>1, <1>10 DEF Evict, history
<1> QED
  BY <1>2, <1>3, <1>4, <1>5, <1>6, <1>7, <1>8, <1>9, <1>10 DEF Next, Step

LEMMA Invariance == Spec => [](IInv /\ Short)
BY Initially, Inductive, StaysShort, PTL DEF Spec

\* The state keeps its types through every call, loss, eviction and reload.
THEOREM TypesHold == Spec => []TypeOK
<1>1. IInv => TypeOK
  BY DEF IInv, StateOK, TypeOK, Call, Steps
<1> QED  BY <1>1, Invariance, PTL

\* Whatever is interleaved, lost, evicted or reloaded (vtfs_lookup, vtfs_create,
\* vtfs_unlink and their requests): when no call runs on a name that nothing is
\* known to have gone wrong on, the server has what the calls have made of it,
\* and the module the same or nothing.
THEOREM SidesAlwaysAgree == Spec => []SidesAgree
<1>1. ASSUME IInv PROVE SidesAgree
  <2>1. ASSUME NEW n \in Names \ diverged, Quiet(n)
        PROVE  remote[n] = truth[n] /\ local[n] \in {None, truth[n]}
    <3>1. Doing(n, Calls \cup {"write"}) = {}  BY <2>1 DEF Quiet, Doing
    <3> QED  BY <1>1, <2>1, <3>1 DEF IInv, Agreed
  <2> QED  BY <2>1 DEF SidesAgree
<1> QED  BY <1>1, Invariance, PTL

\* The kernel's dentry of a name is right between calls: negative only where the
\* module has no entry, positive only where it has one.
THEOREM DentriesAlwaysKnow == Spec => []DentriesKnow
<1>1. ASSUME IInv PROVE DentriesKnow
  <2>1. ASSUME NEW n \in Names, Quiet(n)
        PROVE  /\ dentry[n] = "negative" => local[n] = None
               /\ dentry[n] = "positive" => local[n] # None
    <3>1. Doing(n, Calls) = {}  BY <2>1 DEF Quiet, Doing
    <3> QED  BY <1>1, <2>1, <3>1 DEF IInv, Known
  <2> QED  BY <2>1 DEF DentriesKnow
<1> QED  BY <1>1, Invariance, PTL

\* A step of one thread's call leaves the others where they are, and a running
\* call moves by its own steps only.
LEMMA StepMovesOne ==
  ASSUME IInv, NEW p \in Procs, Step(p), NEW q \in Procs \ {p}
  PROVE  call'[q] = call[q]
<1>1. call \in [Procs -> Call]  BY DEF IInv
<1>2. ASSUME NEW c, call' = [call EXCEPT ![p] = c] PROVE call'[q] = call[q]
  BY <1>1, <1>2
<1>3. ASSUME NEW f, Answer(p, f) PROVE call'[q] = call[q]
  <2>1. call[p].step = "stat" => Stated(p, call[p].name, f)  BY <1>3 DEF Answer
  <2>2. call[p].step = "fetch" =>
          IF IsFile(f) THEN Fetched(p, call[p].name, f)
          ELSE Found(p, call[p].name, "positive")
    BY <1>3 DEF Answer
  <2>3. call[p].step = "echo" => Found(p, call[p].name, "positive")
    BY <1>3 DEF Answer
  <2>4. call[p].step = "create" => Go(p, "inode")  BY <1>3 DEF Answer
  <2>5. call[p].step = "delete" => \/ Found(p, call[p].name, "negative")
                                   \/ Return(p)
    BY <1>3 DEF Answer
  <2>6. call[p].step = "write_first" => Go(p, "write")  BY <1>3 DEF Answer, AfterFirst
  <2>7. call[p].step = "write" => Return(p)  BY <1>3 DEF Answer
  <2>8. call[p].step \notin {"stat", "fetch", "echo", "create", "delete", "write_first", "write"}
          => Answered(p, f) \/ Go(p, "read_local")
    BY <1>3 DEF Answer
  <2> QED
    BY <1>1, <2>1, <2>2, <2>3, <2>4, <2>5, <2>6, <2>7, <2>8
    DEF Stated, Fetched, Found, Return, Go, GoWith, Answered
<1>4. CASE Serve(p)  BY <1>3, <1>4 DEF Serve
<1>5. CASE Lose(p)
  <2>1. Go(p, "read_local") \/ Answer(p, None)  BY <1>5 DEF Lose
  <2> QED  BY <1>1, <1>3, <2>1 DEF Go
<1>6. CASE Insert(p) \/ Fill(p) \/ Instantiate(p) \/ ReadLocal(p)
  BY <1>1, <1>6
  DEF Insert, Fill, Instantiate, ReadLocal, Found, Return, Go, Answered
<1> QED  BY <1>4, <1>5, <1>6 DEF Step

LEMMA RunningMoves ==
  ASSUME IInv, [Next]_vars, NEW p \in Procs, Running(call[p]), ~Step(p)
  PROVE  call'[p].step = call[p].step
<1>1. call \in [Procs -> Call] /\ call[p] \in Call /\ call[p].step \notin {"idle", "wait"}
  BY DEF IInv, Running
<1>2. ASSUME NEW q \in Procs, NEW c, call' = [call EXCEPT ![q] = c],
             call[q].step \in {"idle", "wait"}
      PROVE  call'[p].step = call[p].step
  BY <1>1, <1>2
<1>3. ASSUME NEW q \in Procs, NEW n \in Names, Read(q, n) PROVE call'[p].step = call[p].step
  BY <1>2, <1>3 DEF Read, At
<1>4. ASSUME NEW q \in Procs, NEW n \in Names, Write(q, n) PROVE call'[p].step = call[p].step
  <2>1. q # p  BY <1>1, <1>4 DEF Write, At
  <2>2. call'[p] = [call[p] EXCEPT !.calm = @ /\ call[p].name # n]
    BY <1>4, <2>1 DEF Write
  <2> QED  BY <1>1, <2>2 DEF Call
<1>5. ASSUME NEW q \in Procs, NEW n \in Names, NEW op \in Calls, Begin(q, op, n)
      PROVE  call'[p].step = call[p].step
  BY <1>2, <1>5 DEF Begin, At
<1>6. ASSUME NEW q \in Procs, Enter(q) PROVE call'[p].step = call[p].step
  BY <1>2, <1>6
  DEF Enter, MayEnter, At, EnterLookup, EnterCreate, EnterDelete, Return, Go
<1>7. ASSUME NEW q \in Procs, Step(q) PROVE call'[p].step = call[p].step
  BY <1>7, StepMovesOne
<1>8. ASSUME NEW n \in Names, Evict(n) PROVE call'[p].step = call[p].step
  BY <1>8 DEF Evict
<1>9. CASE Reload \/ UNCHANGED vars
  BY <1>9 DEF Reload, vars
<1> QED  BY <1>3, <1>4, <1>5, <1>6, <1>7, <1>8, <1>9 DEF Next

\* vtfs_storage_write in fetch_from_remote sends the fetched bytes back to the
\* server: whatever ran in between, the server has them still, and a request with
\* room for them changes nothing there.
THEOREM EchoChangesNothing == Spec => EchoHarmless
<1>1. ASSUME IInv, [Next]_vars PROVE EchoHarmlessStep
  <2>1. ASSUME NEW p \in Procs, call[p].step = "echo", call'[p].step # "echo",
               Len(call[p].thing.data) <= MaxSent
        PROVE  remote' = remote
    <3>1. Running(call[p])  BY <2>1 DEF Running
    <3>2. Step(p)  BY <1>1, <2>1, <3>1, RunningMoves
    <3>3. Serve(p) \/ Lose(p)
      BY <2>1, <3>2 DEF Step, Insert, Fill, Instantiate, ReadLocal, At
    <3>4. PICK n : n = call[p].name
      OBVIOUS
    <3>5. n \in Names /\ LookupOK(call[p]) /\ StateOK
      BY <1>1, <2>1, <3>1, <3>4, RequestFacts
    <3>6. CASE Lose(p)  BY <3>6 DEF Lose
    <3>7. CASE Serve(p)
      <4>1. IsFile(remote[n]) /\ call[p].thing = remote[n]
            /\ remote[n] \in Things \cup {Dying}
            /\ remote \in [Names -> Things \cup {Dying}]
        BY <2>1, <3>4, <3>5 DEF LookupOK, StateOK
      <4>2. /\ remote[n].data \in Texts /\ remote[n] = File(remote[n].data)
            /\ Len(remote[n].data) \in 0 .. MaxSize /\ MaxSize \in Nat
        BY <4>1, ThingFacts, TextFacts, SyncAssumption
      <4>3. 0 \in Nat /\ 0 + Len(remote[n].data) <= MaxSize
            /\ Len(remote[n].data) <= Len(remote[n].data)
        BY <4>2
      <4>4. ServerWritten(remote[n], 0, remote[n].data) = remote[n]
        BY <4>1, <4>2, <4>3, ServerWrittenFacts
      <4>5. Served(call[p], remote[n]) = {ServerWritten(remote[n], 0, remote[n].data)}
        BY <2>1, <4>1 DEF Served, Arrived
      <4>6. remote' = [remote EXCEPT ![n] = ServerWritten(remote[n], 0, remote[n].data)]
        BY <3>4, <3>7, <4>5 DEF Serve
      <4> QED  BY <4>1, <4>4, <4>6
    <3> QED  BY <3>3, <3>6, <3>7
  <2> QED  BY <2>1 DEF EchoHarmlessStep, At
<1>2. IInv /\ [Next]_vars => [EchoHarmlessStep]_vars  BY <1>1
<1> QED  BY <1>2, Invariance, PTL DEF Spec, EchoHarmless

\* vtfs_read, with the server's bytes or the module's own: a read that no write
\* of the file overlaps returns what the calls have written from its position.
THEOREM ReadsReturnTruth == Spec => ReadsTruth
<1>1. ASSUME IInv, [Next]_vars PROVE ReadsTruthStep
  <2>1. ASSUME NEW p \in Procs, call[p].op = "read", call[p].step # "idle",
               call'[p].step = "idle", call[p].calm, call[p].name \notin diverged
        PROVE  call'[p].thing =
                 File(SubSeq(truth[call[p].name].data, call[p].pos + 1,
                             Len(truth[call[p].name].data)))
    <3>0. PICK n : n = call[p].name
      OBVIOUS
    <3>1. Running(call[p])
      BY <1>1, <2>1 DEF IInv, CallOK, Running, Calls, Alone
    <3>2. Step(p)  BY <1>1, <2>1, <3>1, RunningMoves
    <3>3. /\ n \in Names /\ call \in [Procs -> Call] /\ CallOK(call[p])
      BY <1>1, <3>0, <3>1, RequestFacts DEF IInv
    <3>4. ReadOK(call[p])  BY <2>1, <3>1, <3>3 DEF CallOK, Calls
    <3>5. call[p].step \in {"read", "read_local"}  BY <3>4 DEF ReadOK
    <3>6. Doing(n, Calls \cup {"write"}) = {}
      <4>1. ASSUME NEW q \in Procs, Running(call[q]), call[q].name = n
            PROVE  call[q].op \notin Calls \cup {"write"}
        <5>1. q = p => call[q].op \notin Calls \cup {"write"}
          BY <2>1 DEF Calls, Alone
        <5>2. q # p => call[q].op \notin Calls
          BY <1>1, <3>0, <3>1, <4>1, AloneOnName
        <5>3. q # p => call[q].op # "write"
          BY <1>1, <2>1, <3>0, <3>1, <4>1 DEF IInv, Apart
        <5> QED  BY <5>1, <5>2, <5>3
      <4> QED  BY <4>1 DEF Doing, On, Active, Running
    <3>7. remote[n] = truth[n] /\ local[n] = truth[n] /\ IsFile(truth[n])
      <4>1. remote[n] = truth[n] /\ local[n] \in {None, truth[n]}
        BY <1>1, <2>1, <3>0, <3>3, <3>6 DEF IInv, Agreed
      <4>2. IsFile(local[n])  BY <3>0, <3>4 DEF ReadOK
      <4> QED  BY <4>1, <4>2, OtherThings
    <3>8. ASSUME Go(p, "read_local") PROVE FALSE
      <4>1. call'[p] = [call[p] EXCEPT !.step = "read_local"] /\ call[p] \in Call
        BY <3>3, <3>8 DEF Go
      <4>2. call'[p].step = "read_local"  BY <4>1 DEF Call
      <4> QED  BY <2>1, <4>2
    <3>9. Answered(p, truth[n])
      <4>1. Serve(p) \/ Lose(p) \/ ReadLocal(p)
        BY <3>2, <3>5 DEF Step, Insert, Fill, Instantiate, At
      <4>2. CASE Serve(p)
        <5>1. call[p].step = "read" /\ Answer(p, remote[n])
          BY <3>0, <3>5, <4>2 DEF Serve, Requests
        <5> QED  BY <3>7, <5>1 DEF Answer
      <4>3. CASE Lose(p)
        <5>1. call[p].step = "read"  BY <3>5, <4>3 DEF Lose, Requests
        <5> QED  BY <3>8, <4>3, <5>1 DEF Lose
      <4>4. CASE ReadLocal(p)
        BY <3>0, <3>7, <4>4 DEF ReadLocal
      <4> QED  BY <4>1, <4>2, <4>3, <4>4
    <3>10. PICK t : t = File(SubSeq(truth[n].data, call[p].pos + 1, Len(truth[n].data)))
      OBVIOUS
    <3>11. call'[p] = [Idle EXCEPT !.thing = t]
      BY <3>3, <3>9, <3>10 DEF Answered
    <3>12. call'[p].thing = t  BY <3>11 DEF Idle
    <3> QED  BY <3>0, <3>10, <3>12
  <2> QED  BY <2>1 DEF ReadsTruthStep
<1>2. IInv /\ [Next]_vars => [ReadsTruthStep]_vars  BY <1>1
<1> QED  BY <1>2, Invariance, PTL DEF Spec, ReadsTruth

=============================================================================
