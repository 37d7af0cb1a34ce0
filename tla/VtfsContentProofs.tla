--------------------------- MODULE VtfsContentProofs ---------------------------
(***************************************************************************)
(* Proofs about VtfsContent, for any threads, bytes and bounds.            *)
(***************************************************************************)
EXTENDS VtfsContent, SequenceTheorems, WellFoundedInduction, TLAPS

Cells == Bytes \cup {Zero, Garbage}

Fields == [data: 0 .. MaxBuffers, size: 0 .. MaxFileSize, capacity: Nat]

Call == [op: Ops \cup {"none"}, step: Steps, entry: Nat, name: Nat, child: Nat,
         pos: 0 .. MaxFileSize, text: Seq(Bytes)]

Copying == {"data", "size", "capacity"}

\* What krealloc has returned and was asked for.
Allocated(c) ==
  /\ c.data <= buffers
  /\ c.capacity = 0 \/ c.capacity >= MinCapacity

Types ==
  /\ made \in 1 .. MaxNames /\ names \subseteq 1 .. made
  /\ buffers \in 0 .. MaxBuffers /\ live \subseteq 1 .. buffers
  /\ entry \in [1 .. MaxNames -> Fields]
  /\ heap \in [1 .. MaxBuffers -> Seq(Cells)]
  /\ call \in [Procs -> Call]
  /\ file \in Seq(Bytes \cup {Gap}) /\ beheaded \in BOOLEAN
  /\ overtaken \in BOOLEAN /\ torn \subseteq 1 .. made

\* A thread holds entries the file has had; the one link has made is younger than
\* the one it copies from, and only a link that copies has made one.
Sound(c) ==
  /\ c.entry <= made /\ c.name <= made /\ c.child <= made
  /\ c.child # NULL => c.child >= 2 /\ c.entry < c.child
  /\ c.step \in Copying => c.child # NULL
  /\ c.step \in Steps \ (Copying \cup {"undefined"}) => c.child = NULL
  /\ c.step = "write" => Len(c.text) >= 1

\* The first inductive invariant: what the types need.
TInv ==
  /\ Types
  /\ \A e \in 1 .. MaxNames : Allocated(entry[e]) /\ (e > made => entry[e] = NoData)
  /\ \A p \in Procs : Sound(call[p])

-----------------------------------------------------------------------------
LEMMA MaxOfTwo ==
  ASSUME NEW a \in Nat, NEW b \in Nat
  PROVE  Max({a, b}) = IF a >= b THEN a ELSE b
BY DEF Max

LEMMA MaxOfThree ==
  ASSUME NEW a \in Nat, NEW b \in Nat, NEW c \in Nat
  PROVE  Max({a, b, c}) \in {a, b, c} /\ Max({a, b, c}) >= a /\ Max({a, b, c}) >= b
         /\ Max({a, b, c}) >= c
<1>1. PICK m \in {a, b, c} : \A x \in {a, b, c} : m >= x
  <2>1. CASE a >= b /\ a >= c  BY <2>1
  <2>2. CASE b >= a /\ b >= c  BY <2>2
  <2>3. CASE c >= a /\ c >= b  BY <2>3
  <2> QED  BY <2>1, <2>2, <2>3
<1> DEFINE S == {a, b, c}
<1>2. \E x \in S : \A y \in S : x >= y  BY <1>1
<1>3. Max(S) \in S /\ \A y \in S : Max(S) >= y
  <2> HIDE DEF S
  <2> QED  BY <1>2 DEF Max
<1> QED  BY <1>3

\* A nonempty set of numbers has a least one.
LEMMA Least ==
  ASSUME NEW S \in SUBSET Nat, S # {}
  PROVE  \E k \in S : \A j \in S : k <= j
<1> DEFINE Less == OpToRel(<, Nat)
<1>1. IsWellFoundedOn(Less, Nat)
  BY NatLessThanWellFounded
<1>2. PICK k \in S : \A j \in S : ~(<<j, k>> \in Less)
  <2> HIDE DEF Less
  <2> QED  BY <1>1, WFMin
<1>3. ASSUME NEW j \in S PROVE k <= j
  <2>1. j \in Nat /\ k \in Nat  OBVIOUS
  <2>2. ~(j < k)  BY <1>2, <2>1 DEF OpToRel
  <2> QED  BY <2>1, <2>2
<1> QED  BY <1>3

\* As long as the file has a name, it has a newest one.
LEMMA NewestIsName ==
  ASSUME made \in Nat, names \subseteq 1 .. made, names # {}
  PROVE  newest \in names /\ \A e \in names : newest >= e
<1> DEFINE D == {made - e : e \in names}
<1>0. \A e \in names : e \in Nat /\ made - e \in Nat  OBVIOUS
<1>1. D \subseteq Nat /\ D # {}  BY <1>0
<1>2. PICK k \in D : \A j \in D : k <= j
  <2> HIDE DEF D
  <2> QED  BY <1>1, Least
<1>3. PICK x \in names : k = made - x  OBVIOUS
<1>4. \A y \in names : x >= y
  <2> TAKE y \in names
  <2>1. made - x <= made - y  BY <1>2, <1>3
  <2> QED  BY <1>0, <2>1
<1> QED  BY <1>3, <1>4 DEF newest, Max

\* What Put and Grown leave is a sequence of cells.
PutCell(s, pos, t, fill, i) ==
  IF i \in pos + 1 .. pos + Len(t) THEN t[i - pos]
  ELSE IF i <= Len(s) THEN s[i] ELSE fill

LEMMA PutFacts ==
  ASSUME NEW S, NEW s \in Seq(S), NEW pos \in Nat, NEW t \in Seq(S), NEW fill \in S, NEW m \in Nat,
         m = IF Len(s) >= pos + Len(t) THEN Len(s) ELSE pos + Len(t)
  PROVE  /\ Put(s, pos, t, fill) \in Seq(S) /\ Len(Put(s, pos, t, fill)) = m
         /\ \A i \in 1 .. m : Put(s, pos, t, fill)[i] = PutCell(s, pos, t, fill, i)
<1> DEFINE cell(i) == IF i \in pos + 1 .. pos + Len(t) THEN t[i - pos]
                      ELSE IF i <= Len(s) THEN s[i] ELSE fill
           w == [i \in 1 .. m |-> cell(i)]
<1>1. Max({Len(s), pos + Len(t)}) = m
  <2>1. Len(s) \in Nat /\ pos + Len(t) \in Nat  OBVIOUS
  <2> QED  BY <2>1, MaxOfTwo
<1>2. Put(s, pos, t, fill) = w  BY <1>1 DEF Put
<1>3. ASSUME NEW i \in 1 .. m PROVE cell(i) \in S
  <2>1. CASE i \in pos + 1 .. pos + Len(t)
    <3>1. i - pos \in 1 .. Len(t)  BY <2>1
    <3> QED  BY <2>1, <3>1
  <2>2. CASE i \notin pos + 1 .. pos + Len(t)  BY <2>2
  <2> QED  BY <2>1, <2>2
<1> HIDE DEF cell
<1>4. w \in [1 .. m -> S]  BY <1>3
<1>5. w \in Seq(S) /\ Len(w) = m  BY <1>4
<1>6. \A i \in 1 .. m : w[i] = cell(i)  OBVIOUS
<1> QED  BY <1>2, <1>5, <1>6 DEF cell, PutCell

LEMMA GrownFacts ==
  ASSUME Types, NEW c \in Fields, NEW capacity \in Nat, NEW pos \in Nat
  PROVE  /\ Grown(c, capacity, pos) \in Seq(Cells) /\ Len(Grown(c, capacity, pos)) = capacity
         /\ c.data # NULL => \A i \in 1 .. capacity : i <= c.size /\ i <= Len(heap[c.data]) =>
              Grown(c, capacity, pos)[i] = heap[c.data][i]
<1> DEFINE old == IF c.data = NULL THEN <<>> ELSE heap[c.data]
<1>1. old \in Seq(Cells)
  <2>1. CASE c.data = NULL  BY <2>1
  <2>2. CASE c.data # NULL
    <3>1. c.data \in 1 .. MaxBuffers  BY <2>2, ContentAssumption DEF Fields, NULL
    <3> QED  BY <2>2, <3>1 DEF Types
  <2> QED  BY <2>1, <2>2
<1> DEFINE cell(i) == IF i \in c.size + 1 .. pos THEN Zero
                      ELSE IF i <= Len(old) THEN old[i] ELSE Garbage
           w == [i \in 1 .. capacity |-> cell(i)]
<1>2. Grown(c, capacity, pos) = w  BY DEF Grown
<1>3. ASSUME NEW i \in 1 .. capacity PROVE cell(i) \in Cells
  <2>1. Zero \in Cells /\ Garbage \in Cells  BY DEF Cells
  <2>2. i <= Len(old) => old[i] \in Cells
    <3> HIDE DEF old
    <3> QED  BY <1>1
  <2> QED  BY <2>1, <2>2
<1>4. ASSUME c.data # NULL, NEW i \in 1 .. capacity, i <= c.size, i <= Len(heap[c.data])
      PROVE  cell(i) = heap[c.data][i]
  <2>1. i \notin c.size + 1 .. pos  BY <1>4 DEF Fields
  <2> QED  BY <1>4, <2>1
<1> HIDE DEF cell
<1>5. w \in [1 .. capacity -> Cells]  BY <1>3
<1>6. w \in Seq(Cells) /\ Len(w) = capacity  BY <1>5
<1> QED  BY <1>2, <1>4, <1>6

-----------------------------------------------------------------------------
(***************************************************************************)
(* The types.                                                              *)
(***************************************************************************)
Rest == <<names, made, entry, heap_vars, history>>

LEMMA Constants ==
  /\ MaxFileSize \in Nat /\ MaxFileSize >= 1 /\ MinCapacity \in Nat /\ MinCapacity >= 1
  /\ MaxLen \in Nat /\ MaxNames \in Nat /\ MaxNames >= 1 /\ MaxBuffers \in Nat
BY ContentAssumption

LEMMA IdleOK == Idle \in Call /\ (TInv => Sound(Idle))
BY Constants DEF Idle, Call, Steps, Ops, NULL, Sound, TInv, Types, Copying

\* A step that changes nothing but what one thread is doing.
LEMMA CallTypes ==
  ASSUME TInv, NEW p \in Procs, NEW d \in Call, Sound(d), call' = [call EXCEPT ![p] = d],
         UNCHANGED Rest
  PROVE  TInv'
<1>1. /\ names' = names /\ made' = made /\ entry' = entry /\ heap' = heap /\ live' = live
      /\ buffers' = buffers /\ file' = file /\ beheaded' = beheaded
      /\ overtaken' = overtaken /\ torn' = torn
  BY DEF Rest, heap_vars, history
<1>2. Types'
  <2>1. call' \in [Procs -> Call]  BY DEF TInv, Types
  <2> QED  BY <1>1, <2>1 DEF TInv, Types
<1>3. \A q \in Procs : Sound(call'[q])
  BY DEF TInv, Types
<1>4. \A q \in Procs : Sound(call[q])'
  BY <1>1, <1>3 DEF Sound
<1>5. \A e \in 1 .. MaxNames : (Allocated(entry[e]) /\ (e > made => entry[e] = NoData))'
  BY <1>1 DEF TInv, Allocated
<1> QED  BY <1>2, <1>4, <1>5 DEF TInv

\* What each kind of call begins with.
Doing(op, step, e, n, pos, text) ==
  [op |-> op, step |-> step, entry |-> e, name |-> n, child |-> NULL, pos |-> pos,
   text |-> text]

LEMMA IdleIs == Idle = Doing("none", "idle", NULL, NULL, 0, <<>>) BY DEF Idle, Doing

\* A call is set up field by field.
Holding(f, op, step, e, n) ==
  [f EXCEPT !.op = op, !.step = step, !.entry = e, !.name = n]
Reading(f, op, step, e, pos) == [f EXCEPT !.op = op, !.step = step, !.entry = e, !.pos = pos]
Writing(f, op, step, e, pos, text) ==
  [f EXCEPT !.op = op, !.step = step, !.entry = e, !.pos = pos, !.text = text]

LEMMA SetUp ==
  ASSUME NEW op, NEW step, NEW e, NEW n, NEW pos, NEW text
  PROVE  /\ Holding(Idle, op, step, e, n) = Doing(op, step, e, n, 0, <<>>)
         /\ Reading(Idle, op, step, e, pos) = Doing(op, step, e, NULL, pos, <<>>)
         /\ Writing(Idle, op, step, e, pos, text) = Doing(op, step, e, NULL, pos, text)
<1>0. PICK f : f = Idle  OBVIOUS
<1>1. PICK a : a = [f EXCEPT !.op = op]  OBVIOUS
<1>2. PICK b : b = [a EXCEPT !.step = step]  OBVIOUS
<1>3. PICK c : c = [b EXCEPT !.entry = e]  OBVIOUS
<1>4. PICK d : d = [c EXCEPT !.pos = pos]  OBVIOUS
<1>5. PICK g : g = [d EXCEPT !.text = text]  OBVIOUS
<1>6. PICK h : h = [c EXCEPT !.name = n]  OBVIOUS
<1>7. f = Doing("none", "idle", NULL, NULL, 0, <<>>)  BY <1>0, IdleIs
<1>8. a = Doing(op, "idle", NULL, NULL, 0, <<>>)  BY <1>1, <1>7 DEF Doing
<1>9. b = Doing(op, step, NULL, NULL, 0, <<>>)  BY <1>2, <1>8 DEF Doing
<1>10. c = Doing(op, step, e, NULL, 0, <<>>)  BY <1>3, <1>9 DEF Doing
<1>11. d = Doing(op, step, e, NULL, pos, <<>>)  BY <1>4, <1>10 DEF Doing
<1>12. g = Doing(op, step, e, NULL, pos, text)  BY <1>5, <1>11 DEF Doing
<1>13. h = Doing(op, step, e, n, 0, <<>>)  BY <1>6, <1>10 DEF Doing
<1>14. h = [f EXCEPT !.op = op, !.step = step, !.entry = e, !.name = n]
  BY <1>1, <1>2, <1>3, <1>6
<1>15. d = [f EXCEPT !.op = op, !.step = step, !.entry = e, !.pos = pos]  BY <1>1, <1>2, <1>3, <1>4
<1>16. g = [f EXCEPT !.op = op, !.step = step, !.entry = e, !.pos = pos, !.text = text]
  BY <1>1, <1>2, <1>3, <1>4, <1>5
<1> QED  BY <1>0, <1>11, <1>12, <1>13, <1>14, <1>15, <1>16 DEF Holding, Reading, Writing

LEMMA BeginReadFacts ==
  ASSUME TInv, NEW p \in Procs, BeginRead(p)
  PROVE  \E pos \in 0 .. MaxFileSize :
           /\ names # {} /\ newest \in names /\ pos < entry[newest].size
           /\ Enter(p, Doing("read", "read", newest, NULL, pos, <<>>))
<1>1. PICK pos \in 0 .. MaxFileSize :
        /\ names # {} /\ pos < entry[newest].size
        /\ Enter(p, Reading(Idle, "read", "read", newest, pos))
  BY DEF BeginRead, Reading
<1>2. Reading(Idle, "read", "read", newest, pos)
        = Doing("read", "read", newest, NULL, pos, <<>>)
  BY SetUp
<1>3. newest \in names  BY <1>1, NewestIsName DEF TInv, Types
<1> QED  BY <1>1, <1>2, <1>3

LEMMA BeginWriteFacts ==
  ASSUME TInv, NEW p \in Procs, BeginWrite(p)
  PROVE  \E pos \in 0 .. MaxFileSize, text \in Seq(Bytes), op \in {"write", "append"} :
           /\ names # {} /\ newest \in names /\ Len(text) >= 1
           /\ Enter(p, Doing(op, "write", newest, NULL, pos, text))
<1>1. PICK pos \in 0 .. MaxFileSize, n \in 1 .. MaxLen, b \in Bytes, op \in {"write", "append"} :
        /\ names # {} /\ pos + n <= MaxFileSize
        /\ Enter(p, Writing(Idle, op, "write", newest,
                            IF op = "append" THEN entry[newest].size ELSE pos,
                            [i \in 1 .. n |-> b]))
  BY DEF BeginWrite, Writing
<1>2. newest \in names  BY <1>1, NewestIsName DEF TInv, Types
<1>3. entry[newest].size \in 0 .. MaxFileSize
  <2>1. newest \in 1 .. MaxNames  BY <1>2, Constants DEF TInv, Types
  <2>2. entry[newest] \in Fields  BY <2>1 DEF TInv, Types
  <2> QED  BY <2>2 DEF Fields
<1>4. PICK at \in 0 .. MaxFileSize : at = IF op = "append" THEN entry[newest].size ELSE pos
  BY <1>3
<1>5. PICK text : text = [i \in 1 .. n |-> b]  OBVIOUS
<1>6. text \in Seq(Bytes) /\ Len(text) >= 1
  <2>1. n \in Nat /\ n >= 1  BY Constants
  <2>2. text \in [1 .. n -> Bytes]  BY <1>5
  <2> QED  BY <2>1, <2>2
<1>7. Writing(Idle, op, "write", newest, IF op = "append" THEN entry[newest].size ELSE pos,
            [i \in 1 .. n |-> b])
        = Doing(op, "write", newest, NULL, at, text)
  BY <1>4, <1>5, SetUp
<1> QED  BY <1>1, <1>2, <1>6, <1>7

LEMMA BeginLinkFacts ==
  ASSUME TInv, NEW p \in Procs, BeginLink(p)
  PROVE  \E n \in names :
           /\ names # {} /\ newest \in names
           /\ Enter(p, Doing("link", "insert", newest, n, 0, <<>>))
<1>1. PICK n \in Unlocked : Enter(p, Holding(Idle, "link", "insert", newest, n))
  BY DEF BeginLink, Holding
<1>2. Holding(Idle, "link", "insert", newest, n)
        = Doing("link", "insert", newest, n, 0, <<>>)
  BY SetUp
<1>3. n \in names  BY DEF Unlocked
<1>4. newest \in names  BY <1>3, NewestIsName DEF TInv, Types
<1> QED  BY <1>1, <1>2, <1>3, <1>4

LEMMA BeginUnlinkFacts ==
  ASSUME TInv, NEW p \in Procs, BeginUnlink(p)
  PROVE  \E n \in names \ Filling : Enter(p, Doing("unlink", "delete", n, n, 0, <<>>))
<1>1. PICK n \in Unlocked : Enter(p, Holding(Idle, "unlink", "delete", n, n))
  BY DEF BeginUnlink, Holding
<1>2. Holding(Idle, "unlink", "delete", n, n)
        = Doing("unlink", "delete", n, n, 0, <<>>)
  BY SetUp
<1> QED  BY <1>1, <1>2 DEF Unlocked

LEMMA EnterTypes ==
  ASSUME TInv, NEW p \in Procs, NEW op \in Ops, NEW e \in names, NEW n \in names \cup {NULL},
         NEW step \in {"read", "write", "insert", "delete"},
         NEW pos \in 0 .. MaxFileSize, NEW text \in Seq(Bytes),
         step = "write" => Len(text) >= 1, Enter(p, Doing(op, step, e, n, pos, text))
  PROVE  TInv'
<1>1. e \in 0 .. made /\ e \in Nat /\ n \in 0 .. made /\ n \in Nat
  BY DEF TInv, Types, NULL
<1>2. PICK d : d = Doing(op, step, e, n, pos, text)  OBVIOUS
<1>3. d \in Call
  BY <1>1, <1>2 DEF Doing, Call, NULL, Steps
<1>4. Sound(d)
  BY <1>1, <1>2 DEF Doing, NULL, Sound, TInv, Types, Steps, Copying
<1>5. call' = [call EXCEPT ![p] = d] /\ UNCHANGED Rest  BY <1>2 DEF Enter, Rest
<1> QED  BY <1>3, <1>4, <1>5, CallTypes

LEMMA BeginTypes ==
  ASSUME TInv, NEW p \in Procs,
         BeginRead(p) \/ BeginWrite(p) \/ BeginLink(p) \/ BeginUnlink(p)
  PROVE  TInv'
<1>0. /\ {"read", "write", "append", "link", "unlink"} \subseteq Ops
      /\ <<>> \in Seq(Bytes) /\ 0 \in 0 .. MaxFileSize
  BY Constants DEF Ops
<1>1. CASE BeginRead(p)
  <2>1. PICK pos \in 0 .. MaxFileSize :
          newest \in names /\ Enter(p, Doing("read", "read", newest, NULL, pos, <<>>))
    BY <1>1, BeginReadFacts
  <2> QED  BY <1>0, <2>1, EnterTypes
<1>2. CASE BeginWrite(p)
  <2>1. PICK pos \in 0 .. MaxFileSize, text \in Seq(Bytes), op \in {"write", "append"} :
          newest \in names /\ Len(text) >= 1 /\ Enter(p, Doing(op, "write", newest, NULL, pos, text))
    BY <1>2, BeginWriteFacts
  <2> QED  BY <1>0, <2>1, EnterTypes
<1>3. CASE BeginLink(p)
  <2>1. PICK n \in names :
          newest \in names /\ Enter(p, Doing("link", "insert", newest, n, 0, <<>>))
    BY <1>3, BeginLinkFacts
  <2> QED  BY <1>0, <2>1, EnterTypes
<1>4. CASE BeginUnlink(p)
  <2>1. PICK n \in names : Enter(p, Doing("unlink", "delete", n, n, 0, <<>>))
    BY <1>4, BeginUnlinkFacts
  <2> QED  BY <1>0, <2>1, EnterTypes
<1> QED  BY <1>1, <1>2, <1>3, <1>4

\* A read, a write that fails, and a use of freed memory.
LEMMA LeaveTypes ==
  ASSUME TInv, NEW p \in Procs, Read(p) \/ WriteFails(p) \/ Undefined(p)
  PROVE  TInv'
<1>1. Idle \in Call /\ Sound(Idle)  BY IdleOK
<1>2. CASE Read(p) \/ WriteFails(p)
  <2>1. call' = [call EXCEPT ![p] = Idle] /\ UNCHANGED Rest
    BY <1>2 DEF Read, WriteFails, Return, Rest
  <2> QED  BY <1>1, <2>1, CallTypes
<1>3. CASE Undefined(p)
  <2>1. PICK c \in Call : c = call[p] /\ Sound(c)  BY DEF TInv, Types
  <2>2. PICK d : d = [c EXCEPT !.step = "undefined"]  OBVIOUS
  <2>3. d \in Call /\ Sound(d)
    BY <2>1, <2>2 DEF Call, Steps, Sound, Copying
  <2>4. call' = [call EXCEPT ![p] = d] /\ UNCHANGED Rest
    BY <1>3, <2>1, <2>2 DEF Undefined, Rest
  <2> QED  BY <2>3, <2>4, CallTypes
<1> QED  BY <1>2, <1>3

\* What a write does, in a buffer that is large enough or in one that krealloc
\* has extended or moved.
InPlace(e, pos, text, end, size) ==
  /\ end <= entry[e].capacity /\ entry[e].data # NULL /\ end <= Len(heap[entry[e].data])
  /\ heap' = [heap EXCEPT ![entry[e].data] = Put(@, pos, text, Zero)]
  /\ entry' = [entry EXCEPT ![e].size = size]
  /\ live' = live /\ buffers' = buffers

Reallocated(e, pos, text, end, size, capacity, b) ==
  /\ capacity >= end /\ capacity >= MinCapacity /\ capacity >= entry[e].capacity
  /\ b = entry[e].data \/ b = buffers + 1
  /\ heap' = [Without(entry[e].data) EXCEPT
                ![b] = Put(Grown(entry[e], capacity, pos), pos, text, Zero)]
  /\ entry' = [entry EXCEPT ![e] = [data |-> b, size |-> size, capacity |-> capacity]]
  /\ buffers' = IF buffers >= b THEN buffers ELSE b
  /\ live' = (live \ {entry[e].data}) \cup {b}

Written(p, e, pos, text, end, size) ==
  /\ InPlace(e, pos, text, end, size)
     \/ \E capacity \in Nat, b \in 1 .. MaxBuffers :
          Reallocated(e, pos, text, end, size, capacity, b)
  /\ file' = Put(file, pos, text, Gap)
  /\ call' = [call EXCEPT ![p] = Idle]
  /\ names' = names /\ made' = made /\ beheaded' = beheaded
  /\ overtaken' = (overtaken \/ e # newest \/ e \in Filling)
  /\ torn' = torn \cup ({e} \cap Filling)

LEMMA WriteFacts ==
  ASSUME TInv, NEW p \in Procs, Write(p)
  PROVE  \E e \in names, pos \in 0 .. MaxFileSize, text \in Seq(Bytes), end \in 1 .. MaxFileSize,
            size \in 1 .. MaxFileSize :
           /\ e = call[p].entry /\ end = pos + Len(text) /\ Len(text) >= 1
           /\ size = (IF entry[e].size >= end THEN entry[e].size ELSE end)
           /\ entry[e] \in Fields /\ Allocated(entry[e]) /\ e \in 1 .. MaxNames
           /\ entry[e].data \in live \cup {NULL}
           /\ call[p].step = "write"
           /\ Written(p, e, pos, text, end, size)
<1>0. call[p] \in Call /\ Sound(call[p]) /\ call[p].step = "write" /\ Safe(p)
  BY DEF TInv, Types, Write, At
<1>1. PICK e : e = call[p].entry  OBVIOUS
<1>2. PICK pos : pos = call[p].pos  OBVIOUS
<1>3. PICK text : text = call[p].text  OBVIOUS
<1>4. e \in names  BY <1>0, <1>1 DEF Safe
<1>5. e \in 1 .. MaxNames  BY <1>4, Constants DEF TInv, Types
<1>6. pos \in 0 .. MaxFileSize /\ text \in Seq(Bytes) /\ Len(text) >= 1
  BY <1>0, <1>2, <1>3 DEF Call, Sound
<1>7. PICK end \in Nat : end = pos + Len(text)  BY <1>6, Constants
<1>8. entry[e] \in Fields /\ Allocated(entry[e])  BY <1>5 DEF TInv, Types
<1>9. end >= 1  BY <1>6, <1>7
<1>10. end <= MaxFileSize
  BY <1>2, <1>3, <1>7, Constants DEF Write, Refused
<1>11. PICK old \in 0 .. MaxFileSize : old = entry[e].size  BY <1>8 DEF Fields
<1>12. PICK size \in 1 .. MaxFileSize : size = IF old >= end THEN old ELSE end
  BY <1>9, <1>10, Constants
<1>13. SizeAfter(entry[e].size, end) = size
  <2>1. old \in Nat  BY Constants
  <2> QED  BY <1>11, <1>12, <2>1, MaxOfTwo DEF SizeAfter
<1>14. /\ file' = Put(file, pos, text, Gap) /\ call' = [call EXCEPT ![p] = Idle]
       /\ names' = names /\ made' = made /\ beheaded' = beheaded
       /\ overtaken' = (overtaken \/ e # newest \/ e \in Filling)
       /\ torn' = torn \cup ({e} \cap Filling)
  BY <1>1, <1>2, <1>3 DEF Write, Return
<1>17. /\ entry[e].data \in live \cup {NULL}
       /\ end <= entry[e].capacity =>
            entry[e].data # NULL /\ end <= Len(heap[entry[e].data])
  BY <1>0, <1>1, <1>2, <1>3, <1>7, <1>10 DEF Safe, BufferLive, At
<1>15. CASE end <= entry[e].capacity
  <2>1. InPlace(e, pos, text, end, size)
    BY <1>1, <1>2, <1>3, <1>7, <1>13, <1>15, <1>17 DEF Write, InPlace
  <2>2. Written(p, e, pos, text, end, size)  BY <1>14, <2>1 DEF Written
  <2>3. end \in 1 .. MaxFileSize  BY <1>9, <1>10, Constants
  <2> QED  BY <1>0, <1>1, <1>4, <1>5, <1>6, <1>7, <1>8, <1>11, <1>12, <1>17, <2>2, <2>3
<1>16. CASE ~(end <= entry[e].capacity)
  <2>1. PICK capacity : capacity = Capacity(entry[e].capacity, end)  OBVIOUS
  <2>2. capacity \in Nat /\ capacity >= end /\ capacity >= MinCapacity
    <3>1. PICK cap \in Nat : cap = entry[e].capacity  BY <1>8 DEF Fields
    <3>2. cap * 2 \in Nat  OBVIOUS
    <3>3. PICK twice \in Nat : twice = cap * 2  BY <3>2
    <3>4. capacity = Max({end, twice, MinCapacity})  BY <2>1, <3>1, <3>3 DEF Capacity
    <3>5. MinCapacity \in Nat  BY Constants
    <3> QED  BY <3>4, <3>5, MaxOfThree
  <2>3. PICK b \in {entry[e].data, buffers + 1} \cap 1 .. MaxBuffers :
          /\ heap' = [Without(entry[e].data) EXCEPT
               ![b] = Put(Grown(entry[e], capacity, pos), pos, text, Zero)]
          /\ entry' = [entry EXCEPT ![e] = [data |-> b, size |-> size, capacity |-> capacity]]
          /\ buffers' = Max({buffers, b})
          /\ live' = (live \ {entry[e].data}) \cup {b}
    BY <1>1, <1>2, <1>3, <1>7, <1>13, <1>16, <2>1 DEF Write
  <2>4. capacity >= entry[e].capacity
    <3>1. PICK cap \in Nat : cap = entry[e].capacity  BY <1>8 DEF Fields
    <3>2. ~(end <= cap)  BY <1>16, <3>1
    <3> QED  BY <2>2, <3>1, <3>2
  <2>5. Max({buffers, b}) = IF buffers >= b THEN buffers ELSE b
    <3>1. buffers \in Nat /\ b \in Nat  BY Constants DEF TInv, Types
    <3> QED  BY <3>1, MaxOfTwo
  <2>6. Reallocated(e, pos, text, end, size, capacity, b)
    BY <2>2, <2>3, <2>4, <2>5 DEF Reallocated
  <2>7. Written(p, e, pos, text, end, size)  BY <1>14, <2>2, <2>6 DEF Written
  <2>8. end \in 1 .. MaxFileSize  BY <1>9, <1>10, Constants
  <2> QED  BY <1>0, <1>1, <1>4, <1>5, <1>6, <1>7, <1>8, <1>11, <1>12, <1>17, <2>7, <2>8
<1> QED  BY <1>15, <1>16

LEMMA FileWritten ==
  ASSUME file \in Seq(Bytes \cup {Gap}), NEW pos \in 0 .. MaxFileSize, NEW text \in Seq(Bytes)
  PROVE  Put(file, pos, text, Gap) \in Seq(Bytes \cup {Gap})
<1>1. text \in Seq(Bytes \cup {Gap}) /\ Gap \in Bytes \cup {Gap} /\ pos \in Nat
  BY Constants
<1>2. PICK S : S = Bytes \cup {Gap}  OBVIOUS
<1>3. PICK m \in Nat : m = IF Len(file) >= pos + Len(text) THEN Len(file) ELSE pos + Len(text)
  BY <1>1
<1>4. text \in Seq(S) /\ Gap \in S /\ file \in Seq(S)  BY <1>1, <1>2
<1>5. Put(file, pos, text, Gap) \in Seq(S)  BY <1>1, <1>3, <1>4, PutFacts
<1> QED  BY <1>2, <1>5

LEMMA CellsWritten ==
  ASSUME NEW s \in Seq(Cells), NEW pos \in 0 .. MaxFileSize, NEW text \in Seq(Bytes)
  PROVE  Put(s, pos, text, Zero) \in Seq(Cells)
<1>1. text \in Seq(Cells) /\ Zero \in Cells /\ pos \in Nat
  BY Constants DEF Cells
<1>2. PICK m \in Nat : m = IF Len(s) >= pos + Len(text) THEN Len(s) ELSE pos + Len(text)
  BY <1>1
<1> QED  BY <1>1, <1>2, PutFacts

LEMMA WithoutType ==
  ASSUME Types, NEW b
  PROVE  Without(b) \in [1 .. MaxBuffers -> Seq(Cells)]
<1>1. <<>> \in Seq(Cells)  OBVIOUS
<1> QED  BY <1>1 DEF Without, Types

LEMMA WriteTypes == ASSUME TInv, NEW p \in Procs, Write(p) PROVE TInv'
<1>1. PICK e \in names, pos \in 0 .. MaxFileSize, text \in Seq(Bytes), end \in 1 .. MaxFileSize,
           size \in 1 .. MaxFileSize :
        /\ end = pos + Len(text)
        /\ size = (IF entry[e].size >= end THEN entry[e].size ELSE end)
        /\ entry[e] \in Fields /\ Allocated(entry[e]) /\ e \in 1 .. MaxNames
        /\ Written(p, e, pos, text, end, size)
  BY WriteFacts
<1>2. /\ file' = Put(file, pos, text, Gap) /\ call' = [call EXCEPT ![p] = Idle]
      /\ names' = names /\ made' = made /\ beheaded' = beheaded
      /\ overtaken' = (overtaken \/ e # newest \/ e \in Filling)
      /\ torn' = torn \cup ({e} \cap Filling)
  BY <1>1 DEF Written
<1>8. overtaken' \in BOOLEAN /\ torn' \subseteq 1 .. made
  BY <1>1, <1>2 DEF TInv, Types
<1>3. file' \in Seq(Bytes \cup {Gap})  BY <1>2, FileWritten DEF TInv, Types
<1>4. call' \in [Procs -> Call] /\ \A q \in Procs : Sound(call[q])'
  <2>1. \A q \in Procs : call'[q] = IF q = p THEN Idle ELSE call[q]  BY <1>2 DEF TInv, Types
  <2>2. \A q \in Procs : Sound(call'[q])  BY <2>1, IdleOK DEF TInv
  <2>3. \A q \in Procs : Sound(call[q])'  BY <1>2, <2>2 DEF Sound
  <2> QED  BY <1>2, <2>3, IdleOK DEF TInv, Types
<1>5. PICK f \in Fields : entry' = [entry EXCEPT ![e] = f] /\ f.data <= buffers'
        /\ (f.capacity = 0 \/ f.capacity >= MinCapacity)
        /\ buffers' >= buffers /\ buffers' \in 0 .. MaxBuffers /\ live' \subseteq 1 .. buffers'
        /\ heap' \in [1 .. MaxBuffers -> Seq(Cells)]
  <2>1. CASE InPlace(e, pos, text, end, size)
    <3>1. PICK f : f = [entry[e] EXCEPT !.size = size]  OBVIOUS
    <3>2. f \in Fields /\ f.data = entry[e].data /\ f.size = size /\ f.capacity = entry[e].capacity
      <4>1. size \in 0 .. MaxFileSize  BY Constants
      <4> QED  BY <1>1, <3>1, <4>1 DEF Fields
    <3>3. entry' = [entry EXCEPT ![e] = f]  BY <2>1, <3>1 DEF InPlace
    <3>4. buffers' = buffers /\ live' = live  BY <2>1 DEF InPlace
    <3>6. heap' \in [1 .. MaxBuffers -> Seq(Cells)]
      <4>1. \A b \in 1 .. MaxBuffers : Put(heap[b], pos, text, Zero) \in Seq(Cells)
        BY CellsWritten DEF TInv, Types
      <4> QED  BY <2>1, <4>1 DEF InPlace, TInv, Types
    <3>7. buffers \in 0 .. MaxBuffers /\ buffers >= buffers /\ live \subseteq 1 .. buffers
      BY Constants DEF TInv, Types
    <3> QED  BY <1>1, <3>2, <3>3, <3>4, <3>6, <3>7 DEF Allocated
  <2>2. ASSUME NEW capacity \in Nat, NEW b \in 1 .. MaxBuffers,
               Reallocated(e, pos, text, end, size, capacity, b)
        PROVE  \E f \in Fields : entry' = [entry EXCEPT ![e] = f] /\ f.data <= buffers'
                 /\ (f.capacity = 0 \/ f.capacity >= MinCapacity)
                 /\ buffers' >= buffers /\ buffers' \in 0 .. MaxBuffers /\ live' \subseteq 1 .. buffers'
                 /\ heap' \in [1 .. MaxBuffers -> Seq(Cells)]
    <3>1. PICK f : f = [data |-> b, size |-> size, capacity |-> capacity]  OBVIOUS
    <3>2. f \in Fields /\ f.data = b /\ f.size = size /\ f.capacity = capacity
      BY <3>1, Constants DEF Fields
    <3>3. entry' = [entry EXCEPT ![e] = f]  BY <2>2, <3>1 DEF Reallocated
    <3>4. buffers \in Nat /\ buffers <= MaxBuffers /\ b \in Nat /\ b >= 1 /\ b <= MaxBuffers
      BY Constants DEF TInv, Types
    <3>5. buffers' = IF buffers >= b THEN buffers ELSE b  BY <2>2 DEF Reallocated
    <3>6. buffers' >= buffers /\ buffers' >= b /\ buffers' \in 0 .. MaxBuffers
      BY <3>4, <3>5, Constants
    <3>7. live' \subseteq 1 .. buffers'
      <4>1. live' \subseteq live \cup {b}  BY <2>2 DEF Reallocated
      <4>2. live \subseteq 1 .. buffers  BY DEF TInv, Types
      <4> QED  BY <3>4, <3>6, <4>1, <4>2
    <3>8. Put(Grown(entry[e], capacity, pos), pos, text, Zero) \in Seq(Cells)
      <4>1. Grown(entry[e], capacity, pos) \in Seq(Cells)
        <5>1. pos \in Nat  BY Constants
        <5> QED  BY <1>1, <5>1, GrownFacts DEF TInv
      <4> QED  BY <4>1, CellsWritten
    <3>9. heap' \in [1 .. MaxBuffers -> Seq(Cells)]
      <4>1. Without(entry[e].data) \in [1 .. MaxBuffers -> Seq(Cells)]  BY WithoutType DEF TInv
      <4> QED  BY <2>2, <3>8, <4>1 DEF Reallocated
    <3>10. f.capacity >= MinCapacity  BY <2>2, <3>2 DEF Reallocated
    <3> QED  BY <3>2, <3>3, <3>6, <3>7, <3>9, <3>10
  <2> QED  BY <1>1, <2>1, <2>2 DEF Written
<1>6. Types'
  <2>1. entry' \in [1 .. MaxNames -> Fields]  BY <1>5 DEF TInv, Types
  <2> QED  BY <1>2, <1>3, <1>4, <1>5, <1>8, <2>1 DEF TInv, Types
<1>7. ASSUME NEW d \in 1 .. MaxNames
      PROVE  (Allocated(entry[d]) /\ (d > made => entry[d] = NoData))'
  <2>1. entry'[d] = IF d = e THEN f ELSE entry[d]  BY <1>5 DEF TInv, Types
  <2>2. CASE d = e
    <3>1. ~(d > made)  BY <1>1, <2>2 DEF TInv, Types
    <3> QED  BY <1>2, <1>5, <2>1, <2>2, <3>1 DEF Allocated
  <2>3. CASE d # e
    <3>1. Allocated(entry[d]) /\ (d > made => entry[d] = NoData) /\ entry[d] \in Fields
      BY DEF TInv, Types
    <3>2. entry[d].data <= buffers'
      <4>1. entry[d].data \in Int /\ buffers \in Int /\ buffers' \in Int
        BY <1>5, <3>1, Constants DEF Fields, TInv, Types
      <4> QED  BY <1>5, <3>1, <4>1 DEF Allocated
    <3> QED  BY <1>2, <2>1, <2>3, <3>1, <3>2 DEF Allocated
  <2> QED  BY <2>2, <2>3
<1> QED  BY <1>4, <1>6, <1>7 DEF TInv

LEMMA LinkInsertTypes == ASSUME TInv, NEW p \in Procs, LinkInsert(p) PROVE TInv'
<1>1. /\ made < MaxNames /\ made' = made + 1 /\ names' = names \cup {made + 1}
      /\ call' = [call EXCEPT ![p].step = "data", ![p].child = made + 1]
      /\ entry' = entry /\ heap' = heap /\ live' = live /\ buffers' = buffers
      /\ file' = file /\ beheaded' = beheaded /\ call[p].step = "insert" /\ torn' = torn
      /\ overtaken' = (overtaken \/ call[p].entry # newest \/ call[p].entry \in Filling)
  BY DEF LinkInsert, heap_vars, At
<1>2. made \in Nat /\ made >= 1 /\ names \subseteq 1 .. made /\ MaxNames \in Nat
  BY Constants DEF TInv, Types
<1>3. PICK new \in Nat : new = made + 1  BY <1>2
<1>4. PICK c \in Call : c = call[p]  BY DEF TInv, Types
<1>5. PICK d : d = [c EXCEPT !.step = "data", !.child = new]  OBVIOUS
<1>6. d \in Call /\ d.entry = c.entry /\ d.child = new /\ d.step = "data"
      /\ d.name = c.name
  BY <1>5 DEF Call, Steps
<1>7. call' = [call EXCEPT ![p] = d]
  BY <1>1, <1>3, <1>4, <1>5
<1>8. made' \in 1 .. MaxNames /\ names' \subseteq 1 .. made'
  BY <1>1, <1>2
<1>9. Types'
  <2>1. call' \in [Procs -> Call]  BY <1>6, <1>7 DEF TInv, Types
  <2>2. overtaken' \in BOOLEAN /\ torn' \subseteq 1 .. made'
    BY <1>1, <1>2 DEF TInv, Types
  <2> QED  BY <1>1, <1>8, <2>1, <2>2 DEF TInv, Types
<1>10. ASSUME NEW q \in Procs PROVE Sound(call[q])'
  <2>1. call'[q] = IF q = p THEN d ELSE call[q]  BY <1>7 DEF TInv, Types
  <2>2. Sound(c) /\ c.entry \in Nat /\ c.name \in Nat  BY <1>4 DEF TInv, Call
  <2>3. CASE q = p
    <3>1. d.entry <= made /\ d.name <= made /\ d.child = made' /\ made' = made + 1
      BY <1>1, <1>3, <1>6, <2>2 DEF Sound
    <3>2. /\ d.entry <= made' /\ d.name <= made' /\ d.child <= made'
          /\ d.child >= 2 /\ d.entry < d.child /\ d.child # NULL
      BY <1>2, <1>6, <2>2, <3>1 DEF NULL
    <3> QED  BY <1>6, <2>1, <2>3, <3>2 DEF Sound, Copying
  <2>4. CASE q # p
    <3>1. Sound(call[q]) /\ call[q].entry \in Nat /\ call[q].child \in Nat /\ call[q].name \in Nat
      BY DEF TInv, Types, Call
    <3>2. call[q].entry <= made' /\ call[q].child <= made' /\ call[q].name <= made'
      BY <1>1, <1>2, <3>1 DEF Sound
    <3> QED  BY <2>1, <2>4, <3>1, <3>2 DEF Sound
  <2> QED  BY <2>3, <2>4
<1>11. ASSUME NEW e \in 1 .. MaxNames
       PROVE  (Allocated(entry[e]) /\ (e > made => entry[e] = NoData))'
  <2>1. e > made' => e > made  BY <1>1, <1>2
  <2> QED  BY <1>1, <2>1 DEF TInv, Allocated
<1> QED  BY <1>9, <1>10, <1>11 DEF TInv

\* A step that changes one entry.
LEMMA EntryTypes ==
  ASSUME TInv, NEW p \in Procs, NEW c \in Call, Sound(c), call' = [call EXCEPT ![p] = c],
         made' = made, overtaken' = overtaken, torn' = torn, buffers' = buffers, file' = file,
         names' \subseteq names, live' \subseteq live, beheaded' \in BOOLEAN,
         heap' \in [1 .. MaxBuffers -> Seq(Cells)], NEW e, NEW f \in Fields, Allocated(f),
         entry' = [entry EXCEPT ![e] = f],
         e \in 1 .. MaxNames /\ e > made => f = NoData
  PROVE  TInv'
<1>1. call' \in [Procs -> Call] /\ \A q \in Procs : Sound(call[q])'
  <2>1. \A q \in Procs : call'[q] = IF q = p THEN c ELSE call[q]  BY DEF TInv, Types
  <2>2. \A q \in Procs : Sound(call'[q])  BY <2>1 DEF TInv
  <2>3. \A q \in Procs : Sound(call[q])'  BY <2>2 DEF Sound
  <2> QED  BY <2>3 DEF TInv, Types
<1>2. Types'
  <2>1. entry' \in [1 .. MaxNames -> Fields]  BY DEF TInv, Types
  <2> QED  BY <1>1, <2>1 DEF TInv, Types
<1>3. ASSUME NEW d \in 1 .. MaxNames
      PROVE  (Allocated(entry[d]) /\ (d > made => entry[d] = NoData))'
  <2>1. entry'[d] = IF d = e THEN f ELSE entry[d]  BY DEF TInv, Types
  <2>2. Allocated(entry[d]) /\ (d > made => entry[d] = NoData)  BY DEF TInv
  <2> QED  BY <2>1, <2>2 DEF Allocated
<1> QED  BY <1>1, <1>2, <1>3 DEF TInv

LEMMA NoDataOK == NoData \in Fields /\ (TInv => Allocated(NoData))
<1>1. 0 \in 0 .. MaxBuffers /\ 0 \in 0 .. MaxFileSize  BY Constants
<1>2. NoData \in Fields  BY <1>1 DEF NoData, NULL, Fields
<1>3. TInv => Allocated(NoData)  BY Constants DEF NoData, NULL, Allocated, TInv, Types
<1> QED  BY <1>2, <1>3

\* Link copies one field of its target to the entry it has made.
Copied(p, f, c) ==
  /\ entry' = [entry EXCEPT ![call[p].child] = f] /\ call' = [call EXCEPT ![p] = c]
  /\ names' = names /\ made' = made /\ heap' = heap /\ live' = live /\ buffers' = buffers
  /\ file' = file /\ beheaded' = beheaded /\ overtaken' = overtaken /\ torn' = torn

Copies(p, t, v, f, c) ==
  \/ /\ call[p].step = "data" /\ c.step = "size" /\ c.entry = t /\ c.child = v
     /\ f = [entry[v] EXCEPT !.data = entry[t].data]
  \/ /\ call[p].step = "size" /\ c.step = "capacity" /\ c.entry = t /\ c.child = v
     /\ f = [entry[v] EXCEPT !.size = entry[t].size]
  \/ /\ call[p].step = "capacity" /\ c = Idle
     /\ f = [entry[v] EXCEPT !.capacity = entry[t].capacity]

LEMMA CopyFacts ==
  ASSUME TInv, NEW p \in Procs, CopyData(p) \/ CopySize(p) \/ CopyCapacity(p)
  PROVE  \E t \in names, v \in 2 .. MaxNames, f \in Fields, c \in Call :
           /\ t = call[p].entry /\ v = call[p].child /\ t < v /\ v <= made
           /\ t \in 1 .. MaxNames /\ entry[t] \in Fields /\ entry[v] \in Fields
           /\ Allocated(f) /\ Sound(c) /\ Copied(p, f, c) /\ Copies(p, t, v, f, c)
<1>1. PICK a \in Call : a = call[p] /\ Sound(a)  BY DEF TInv, Types
<1>2. a.step \in Copying /\ Safe(p)
  BY <1>1 DEF CopyData, CopySize, CopyCapacity, At, Copying
<1>3. PICK t : t = a.entry  OBVIOUS
<1>4. PICK v : v = a.child  OBVIOUS
<1>5. t \in names  BY <1>1, <1>2, <1>3 DEF Safe
<1>6. t \in 1 .. MaxNames  BY <1>5, Constants DEF TInv, Types
<1>7. v \in 2 .. MaxNames /\ t < v /\ v <= made
  BY <1>1, <1>2, <1>3, <1>4, Constants DEF Sound, Call, TInv, Types
<1>8. PICK g \in Fields : g = entry[t] /\ Allocated(g)  BY <1>6 DEF TInv, Types
<1>9. PICK h \in Fields : h = entry[v] /\ Allocated(h)
  <2>1. v \in 1 .. MaxNames  BY <1>7
  <2> QED  BY <2>1 DEF TInv, Types
<1>10. PICK e : e = entry  OBVIOUS
<1>11. v \in DOMAIN e
  <2>1. v \in 1 .. MaxNames  BY <1>7
  <2> QED  BY <1>10, <2>1 DEF TInv, Types
<1>12. ASSUME NEW st \in {"size", "capacity"}
       PROVE  \E c \in Call : c = [a EXCEPT !.step = st] /\ Sound(c) /\ c.entry = t
                /\ c.child = v /\ c.step = st
  <2>1. PICK c : c = [a EXCEPT !.step = st]  OBVIOUS
  <2>2. c \in Call /\ c.entry = t /\ c.child = v /\ c.step = st /\ c.name = a.name
    BY <1>3, <1>4, <2>1 DEF Call, Steps
  <2>3. Sound(c)  BY <1>1, <1>2, <1>3, <1>4, <2>2 DEF Sound, Copying
  <2> QED  BY <2>1, <2>2, <2>3
<1>13. /\ names' = names /\ made' = made /\ heap' = heap /\ live' = live
       /\ buffers' = buffers /\ file' = file /\ beheaded' = beheaded
       /\ overtaken' = overtaken /\ torn' = torn
  BY DEF CopyData, CopySize, CopyCapacity, heap_vars, history
<1>14. CASE CopyData(p)
  <2>1. PICK c \in Call : c = [a EXCEPT !.step = "size"] /\ Sound(c) /\ c.entry = t
          /\ c.child = v /\ c.step = "size"
    BY <1>12
  <2>2. PICK f : f = [h EXCEPT !.data = g.data]  OBVIOUS
  <2>3. f \in Fields /\ Allocated(f)  BY <1>8, <1>9, <2>2 DEF Fields, Allocated
  <2>4. call' = [call EXCEPT ![p] = c]  BY <1>1, <1>14, <2>1 DEF CopyData
  <2>5. entry' = [entry EXCEPT ![v] = f]
    <3>1. entry' = [e EXCEPT ![v].data = g.data]
      BY <1>1, <1>3, <1>4, <1>8, <1>10, <1>14 DEF CopyData
    <3> QED  BY <1>9, <1>10, <1>11, <2>2, <3>1
  <2>6. Copied(p, f, c)  BY <1>1, <1>4, <1>13, <2>4, <2>5 DEF Copied
  <2>7. Copies(p, t, v, f, c)  BY <1>8, <1>9, <1>14, <2>1, <2>2 DEF Copies, CopyData, At
  <2> QED  BY <1>1, <1>3, <1>4, <1>5, <1>6, <1>7, <1>8, <1>9, <2>1, <2>3, <2>6, <2>7
<1>15. CASE CopySize(p)
  <2>1. PICK c \in Call : c = [a EXCEPT !.step = "capacity"] /\ Sound(c) /\ c.entry = t
          /\ c.child = v /\ c.step = "capacity"
    BY <1>12
  <2>2. PICK f : f = [h EXCEPT !.size = g.size]  OBVIOUS
  <2>3. f \in Fields /\ Allocated(f)  BY <1>8, <1>9, <2>2 DEF Fields, Allocated
  <2>4. call' = [call EXCEPT ![p] = c]  BY <1>1, <1>15, <2>1 DEF CopySize
  <2>5. entry' = [entry EXCEPT ![v] = f]
    <3>1. entry' = [e EXCEPT ![v].size = g.size]
      BY <1>1, <1>3, <1>4, <1>8, <1>10, <1>15 DEF CopySize
    <3> QED  BY <1>9, <1>10, <1>11, <2>2, <3>1
  <2>6. Copied(p, f, c)  BY <1>1, <1>4, <1>13, <2>4, <2>5 DEF Copied
  <2>7. Copies(p, t, v, f, c)  BY <1>8, <1>9, <1>15, <2>1, <2>2 DEF Copies, CopySize, At
  <2> QED  BY <1>1, <1>3, <1>4, <1>5, <1>6, <1>7, <1>8, <1>9, <2>1, <2>3, <2>6, <2>7
<1>16. CASE CopyCapacity(p)
  <2>1. PICK c \in Call : c = Idle /\ Sound(c)  BY IdleOK
  <2>2. PICK f : f = [h EXCEPT !.capacity = g.capacity]  OBVIOUS
  <2>3. f \in Fields /\ Allocated(f)  BY <1>8, <1>9, <2>2 DEF Fields, Allocated
  <2>4. call' = [call EXCEPT ![p] = c]  BY <1>16, <2>1 DEF CopyCapacity, Return
  <2>5. entry' = [entry EXCEPT ![v] = f]
    <3>1. entry' = [e EXCEPT ![v].capacity = g.capacity]
      BY <1>1, <1>3, <1>4, <1>8, <1>10, <1>16 DEF CopyCapacity
    <3> QED  BY <1>9, <1>10, <1>11, <2>2, <3>1
  <2>6. Copied(p, f, c)  BY <1>1, <1>4, <1>13, <2>4, <2>5 DEF Copied
  <2>7. Copies(p, t, v, f, c)  BY <1>8, <1>9, <1>16, <2>1, <2>2 DEF Copies, CopyCapacity, At
  <2> QED  BY <1>1, <1>3, <1>4, <1>5, <1>6, <1>7, <1>8, <1>9, <2>1, <2>3, <2>6, <2>7
<1> QED  BY <1>14, <1>15, <1>16

LEMMA CopyTypes ==
  ASSUME TInv, NEW p \in Procs, CopyData(p) \/ CopySize(p) \/ CopyCapacity(p)
  PROVE  TInv'
<1>1. PICK t \in names, v \in 2 .. MaxNames, f \in Fields, c \in Call :
        v = call[p].child /\ v <= made /\ Allocated(f) /\ Sound(c) /\ Copied(p, f, c)
  BY CopyFacts
<1>2. /\ entry' = [entry EXCEPT ![v] = f] /\ call' = [call EXCEPT ![p] = c]
      /\ names' = names /\ made' = made /\ heap' = heap /\ live' = live /\ buffers' = buffers
      /\ file' = file /\ beheaded' = beheaded /\ overtaken' = overtaken /\ torn' = torn
  BY <1>1 DEF Copied
<1>3. heap' \in [1 .. MaxBuffers -> Seq(Cells)] /\ beheaded' \in BOOLEAN /\ ~(v > made)
  BY <1>1, <1>2 DEF TInv, Types
<1> QED  BY <1>1, <1>2, <1>3, EntryTypes

LEMMA DeleteTypes == ASSUME TInv, NEW p \in Procs, Delete(p) PROVE TInv'
<1>1. PICK e : e = call[p].entry  OBVIOUS
<1>2. PICK F : F = FreedWith(e)  OBVIOUS
<1>3. /\ entry' = [entry EXCEPT ![e] = NoData] /\ names' = names \ {e} /\ made' = made
      /\ heap' = [b \in DOMAIN heap |-> IF b \in F THEN <<>> ELSE heap[b]]
      /\ live' = live \ F /\ buffers' = buffers /\ file' = file
      /\ beheaded' = (beheaded \/ (e = newest /\ names # {e})) /\ overtaken' = overtaken
      /\ torn' = torn /\ call' = [call EXCEPT ![p] = Idle]
  BY <1>1, <1>2 DEF Delete, Return
<1>4. heap' \in [1 .. MaxBuffers -> Seq(Cells)]
  <2>1. <<>> \in Seq(Cells)  OBVIOUS
  <2>2. DOMAIN heap = 1 .. MaxBuffers  BY DEF TInv, Types
  <2> QED  BY <1>3, <2>1, <2>2 DEF TInv, Types
<1>5. beheaded' \in BOOLEAN  BY <1>3 DEF TInv, Types
<1> QED  BY <1>3, <1>4, <1>5, NoDataOK, IdleOK, EntryTypes

LEMMA InitTypes == Init => TInv
<1> SUFFICES ASSUME Init PROVE TInv
  OBVIOUS
<1>1. names = {1} /\ made = 1 /\ live = {} /\ buffers = 0 /\ file = <<>> /\ beheaded = FALSE
      /\ entry = [e \in 1 .. MaxNames |-> NoData] /\ heap = [b \in 1 .. MaxBuffers |-> <<>>]
      /\ call = [p \in Procs |-> Idle] /\ overtaken = FALSE /\ torn = {}
  BY DEF Init
<1>2. Types
  <2>1. made \in 1 .. MaxNames /\ names \subseteq 1 .. made /\ buffers \in 0 .. MaxBuffers
    BY <1>1, Constants
  <2>2. entry \in [1 .. MaxNames -> Fields]  BY <1>1, NoDataOK
  <2>3. heap \in [1 .. MaxBuffers -> Seq(Cells)]
    <3>1. <<>> \in Seq(Cells)  OBVIOUS
    <3> QED  BY <1>1, <3>1
  <2>4. call \in [Procs -> Call]  BY <1>1, IdleOK
  <2>5. file \in Seq(Bytes \cup {Gap}) /\ beheaded \in BOOLEAN
    <3>1. PICK S : S = Bytes \cup {Gap}  OBVIOUS
    <3>2. <<>> \in Seq(S)  OBVIOUS
    <3> QED  BY <1>1, <3>1, <3>2
  <2> QED  BY <1>1, <2>1, <2>2, <2>3, <2>4, <2>5 DEF Types
<1>3. \A e \in 1 .. MaxNames : Allocated(entry[e]) /\ entry[e] = NoData
  BY <1>1 DEF NoData, NULL, Allocated
<1>4. \A p \in Procs : Sound(call[p])
  BY <1>1, Constants DEF Idle, NULL, Sound, Copying
<1> QED  BY <1>2, <1>3, <1>4 DEF TInv

LEMMA StepTypes == TInv /\ [Next]_vars => TInv'
<1> SUFFICES ASSUME TInv, [Next]_vars PROVE TInv'
  OBVIOUS
<1>1. CASE UNCHANGED vars
  <2>1. /\ names' = names /\ made' = made /\ entry' = entry /\ heap' = heap /\ live' = live
        /\ buffers' = buffers /\ call' = call /\ file' = file /\ beheaded' = beheaded
        /\ overtaken' = overtaken /\ torn' = torn
    BY <1>1 DEF vars
  <2> QED  BY <2>1 DEF TInv, Types, Allocated, Sound
<1>2. ASSUME NEW p \in Procs,
             BeginRead(p) \/ BeginWrite(p) \/ BeginLink(p) \/ BeginUnlink(p)
      PROVE  TInv'
  BY <1>2, BeginTypes
<1>3. ASSUME NEW p \in Procs, Read(p) \/ WriteFails(p) \/ Undefined(p) PROVE TInv'
  BY <1>3, LeaveTypes
<1>4. ASSUME NEW p \in Procs, Write(p) PROVE TInv'  BY <1>4, WriteTypes
<1>5. ASSUME NEW p \in Procs, LinkInsert(p) PROVE TInv'  BY <1>5, LinkInsertTypes
<1>6. ASSUME NEW p \in Procs, CopyData(p) \/ CopySize(p) \/ CopyCapacity(p) PROVE TInv'
  BY <1>6, CopyTypes
<1>7. ASSUME NEW p \in Procs, Delete(p) PROVE TInv'  BY <1>7, DeleteTypes
<1> QED  BY <1>1, <1>2, <1>3, <1>4, <1>5, <1>6, <1>7 DEF Next

LEMMA TypesInvariant == Spec => []TInv
BY InitTypes, StepTypes, PTL DEF Spec

\* Sizes, capacities and buffers stay in their ranges and an offset within the
\* limit, also that of an append, which is not checked; with or without a lock.
THEOREM TypesHold == Spec => []TypeOK
<1>1. TInv => TypeOK
  <2> SUFFICES ASSUME TInv PROVE TypeOK
    OBVIOUS
  <2>1. entry \in [1 .. MaxNames -> [data: 0 .. buffers, size: Nat,
                                     capacity: {0} \cup {n \in Nat : n >= MinCapacity}]]
    <3>1. ASSUME NEW e \in 1 .. MaxNames
          PROVE  entry[e] \in [data: 0 .. buffers, size: Nat,
                               capacity: {0} \cup {n \in Nat : n >= MinCapacity}]
      <4>1. entry[e] \in Fields /\ Allocated(entry[e])  BY DEF TInv, Types
      <4>2. entry[e].data \in 0 .. buffers /\ entry[e].size \in Nat
        BY <4>1, Constants DEF Fields, Allocated, TInv, Types
      <4>3. entry[e].capacity \in {0} \cup {n \in Nat : n >= MinCapacity}
        BY <4>1 DEF Fields, Allocated
      <4> QED  BY <4>1, <4>2, <4>3 DEF Fields
    <3> QED  BY <3>1 DEF TInv, Types
  <2>2. \A b \in 1 .. MaxBuffers : Range(heap[b]) \subseteq Bytes \cup {Zero, Garbage}
    <3>1. ASSUME NEW b \in 1 .. MaxBuffers PROVE Range(heap[b]) \subseteq Cells
      <4>1. heap[b] \in Seq(Cells)  BY DEF TInv, Types
      <4> QED  BY <4>1 DEF Range
    <3> QED  BY <3>1 DEF Cells
  <2>3. ASSUME NEW p \in Procs
        PROVE  /\ call[p].op \in Ops \cup {"none"} /\ call[p].step \in Steps
               /\ {call[p].entry, call[p].name, call[p].child} \subseteq 0 .. made
               /\ call[p].pos \in 0 .. MaxFileSize /\ Range(call[p].text) \subseteq Bytes
    <3>1. call[p] \in Call /\ Sound(call[p]) /\ made \in Nat  BY DEF TInv, Types
    <3>2. call[p].text \in Seq(Bytes)  BY <3>1 DEF Call
    <3>3. Range(call[p].text) \subseteq Bytes  BY <3>2 DEF Range
    <3> QED  BY <3>1, <3>3 DEF Call, Sound
  <2>4. Range(file) \subseteq Bytes \cup {Gap}
    <3>1. file \in Seq(Bytes \cup {Gap})  BY DEF TInv, Types
    <3> QED  BY <3>1 DEF Range
  <2> QED  BY <2>1, <2>2, <2>3, <2>4 DEF TypeOK, TInv, Types
<1> QED  BY <1>1, TypesInvariant, PTL

-----------------------------------------------------------------------------
(***************************************************************************)
(* The contents.  A link that fills an entry has made the youngest one, as *)
(* long as no write and no other link has used a name that was not the     *)
(* newest or was being filled: then what it has copied is still equal to   *)
(* what it copied from, and that shows the file.  When no link is at work  *)
(* the youngest name does, unless it was removed.                          *)
(***************************************************************************)
Whole(e) ==
  LET c == entry[e] IN
  /\ c.size = Len(file) /\ c.data \in live \cup {NULL}
  /\ c.data = NULL => c.capacity = 0
  /\ c.size <= c.capacity
  /\ c.data # NULL => c.capacity <= Len(heap[c.data])
  /\ c.data # NULL => \A i \in 1 .. c.size : file[i] \in {Gap, heap[c.data][i]}

\* A read is before the end, a name that is removed is complete, and an entry
\* that is being filled has a size only if somebody has written to it.
Held(c) ==
  /\ c.step = "read" /\ c.entry \in names \ torn => c.pos < entry[c.entry].size
  /\ c.step = "delete" => c.entry \notin Filling
  /\ c.child # NULL => c.child \in names
  /\ c.step \in {"data", "size"} /\ c.child \notin torn => entry[c.child].size = 0

\* What link has copied so far.
Partial(c) ==
  /\ c.step = "data" => entry[c.child] = NoData
  /\ c.step = "size" /\ c.entry \in names =>
       entry[c.child].data = entry[c.entry].data
  /\ c.step = "capacity" /\ c.entry \in names =>
       /\ entry[c.child].data = entry[c.entry].data
       /\ entry[c.child].size = entry[c.entry].size

\* What a link is at work on.
Filled(c) ==
  c.child # NULL =>
    /\ c.child = made /\ Partial(c)
    /\ ~beheaded /\ c.entry \in names => Whole(c.entry)

Single == \A p, q \in Procs : call[p].child = call[q].child /\ call[p].child # NULL => p = q

Front == ~beheaded /\ names # {} => made \in names

Complete == \A e \in names : e \notin Filling => entry[e].size <= entry[e].capacity

Shown == ~beheaded /\ names # {} /\ made \notin Filling => Whole(made)

Owned == made = 1 => live = {entry[e].data : e \in names} \ {NULL}

\* The second inductive invariant.
CInv ==
  /\ TInv /\ Single /\ Front /\ Owned
  /\ \A p \in Procs : Held(call[p])
  /\ ~overtaken => Complete /\ Shown /\ \A p \in Procs : Filled(call[p])

-----------------------------------------------------------------------------
LEMMA InitContent == Init => CInv
<1> SUFFICES ASSUME Init PROVE CInv
  OBVIOUS
<1>0. TInv  BY InitTypes
<1>1. names = {1} /\ made = 1 /\ live = {} /\ file = <<>> /\ beheaded = FALSE
      /\ entry = [e \in 1 .. MaxNames |-> NoData] /\ call = [p \in Procs |-> Idle]
  BY DEF Init
<1>2. entry[1] = NoData  BY <1>1, Constants
<1>3. Whole(1)  BY <1>1, <1>2 DEF Whole, NoData, NULL
<1>4. Front /\ Shown /\ Complete
  BY <1>1, <1>2, <1>3 DEF Front, Shown, Complete, NoData
<1>5. Owned  BY <1>1, <1>2 DEF Owned, NoData
<1>6. \A p \in Procs : call[p].step = "idle" /\ call[p].child = NULL  BY <1>1 DEF Idle
<1>7. Single  BY <1>6 DEF Single
<1>8. \A p \in Procs : Held(call[p]) /\ Filled(call[p])  BY <1>6 DEF Held, Filled
<1> QED  BY <1>0, <1>4, <1>5, <1>7, <1>8 DEF CInv

LEMMA NewestIsMade ==
  ASSUME TInv, made \in names
  PROVE  newest = made
<1>1. newest \in names /\ newest >= made  BY NewestIsName DEF TInv, Types
<1> QED  BY <1>1 DEF TInv, Types

\* A name that is the newest and complete is the youngest entry, unless that was
\* removed, and no link is at work on any.
LEMMA NothingFilled ==
  ASSUME CInv, ~overtaken, NEW e, e = newest, e \notin Filling
  PROVE  /\ \A q \in Procs : call[q].child = NULL
         /\ ~beheaded /\ names # {} => e = made /\ made \notin Filling
<1>1. ASSUME NEW q \in Procs, call[q].child # NULL PROVE FALSE
  <2>1. call[q].child = made /\ made \in names  BY <1>1 DEF CInv, Filled, Held
  <2>2. made \in Filling  BY <1>1, <2>1 DEF Filling
  <2> QED  BY <2>1, <2>2, NewestIsMade DEF CInv
<1>2. ~beheaded /\ names # {} => e = made
  BY NewestIsMade DEF CInv, Front
<1> QED  BY <1>1, <1>2

\* A step that changes nothing but what one thread is doing.
LEMMA CallContent ==
  ASSUME CInv, TInv', NEW p \in Procs, NEW d, call' = [call EXCEPT ![p] = d],
         UNCHANGED Rest, d.child = call[p].child,
         d.child # NULL => d.step = "undefined" /\ d.entry = call[p].entry,
         d.step \in {"data", "size"} => FALSE, Held(d)
  PROVE  CInv'
<1>1. /\ names' = names /\ made' = made /\ entry' = entry /\ heap' = heap /\ live' = live
      /\ buffers' = buffers /\ file' = file /\ beheaded' = beheaded
      /\ overtaken' = overtaken /\ torn' = torn
  BY DEF Rest, heap_vars, history
<1>2. \A q \in Procs : call'[q] = IF q = p THEN d ELSE call[q]
  BY DEF CInv, TInv, Types
<1>3. \A q \in Procs : call'[q].child = call[q].child  BY <1>2
<1>4. Filling' = Filling  BY <1>3 DEF Filling
<1>5. Single'  BY <1>3 DEF CInv, Single
<1>6. Front' /\ Owned'  BY <1>1 DEF CInv, Front, Owned
<1>7. ASSUME NEW q \in Procs PROVE Held(call[q])'
  <2>1. PICK c : c = call'[q]  OBVIOUS
  <2>2. Held(c)  BY <1>2, <2>1 DEF CInv
  <2>3. Held(c)'  BY <1>1, <1>4, <2>2 DEF Held
  <2> QED  BY <2>1, <2>3 DEF Held
<1>8. ASSUME ~overtaken PROVE Complete' /\ Shown' /\ \A q \in Procs : Filled(call[q])'
  <2>1. Complete'  BY <1>1, <1>4, <1>8 DEF CInv, Complete
  <2>2. Shown'  BY <1>1, <1>4, <1>8 DEF CInv, Shown, Whole
  <2>3. ASSUME NEW q \in Procs PROVE Filled(call[q])'
    <3>1. PICK c : c = call'[q]  OBVIOUS
    <3>2. Filled(c)
      <4>1. Filled(call[q])  BY <1>8 DEF CInv
      <4>2. CASE q = p
        <5>1. c = d  BY <1>2, <3>1, <4>2
        <5> QED  BY <4>1, <4>2, <5>1 DEF Filled, Partial
      <4>3. CASE q # p  BY <1>2, <3>1, <4>1, <4>3
      <4> QED  BY <4>2, <4>3
    <3>3. Whole(c.entry)' <=> Whole(c.entry)  BY <1>1 DEF Whole
    <3>4. Partial(c)' <=> Partial(c)  BY <1>1 DEF Partial
    <3>5. Filled(c)'  BY <1>1, <3>2, <3>3, <3>4 DEF Filled
    <3> QED  BY <3>1, <3>5 DEF Filled, Partial, Whole
  <2> QED  BY <2>1, <2>2, <2>3
<1> QED  BY <1>1, <1>5, <1>6, <1>7, <1>8 DEF CInv

LEMMA EnterContent ==
  ASSUME CInv, TInv', NEW p \in Procs, NEW d, Enter(p, d), d.child = NULL,
         d.step \notin Copying, Held(d)
  PROVE  CInv'
<1>1. call[p].step = "idle" /\ call' = [call EXCEPT ![p] = d] /\ UNCHANGED Rest
  BY DEF Enter, At, Rest
<1>2. call[p].child = NULL  BY <1>1 DEF CInv, TInv, Sound, Steps, Copying
<1> QED  BY <1>1, <1>2, CallContent DEF Copying

LEMMA BeginContent ==
  ASSUME CInv, TInv', NEW p \in Procs,
         BeginRead(p) \/ BeginWrite(p) \/ BeginLink(p) \/ BeginUnlink(p)
  PROVE  CInv'
<1>0. TInv  BY DEF CInv
<1>1. CASE BeginRead(p)
  <2>1. PICK pos \in 0 .. MaxFileSize :
          /\ pos < entry[newest].size
          /\ Enter(p, Doing("read", "read", newest, NULL, pos, <<>>))
    BY <1>0, <1>1, BeginReadFacts
  <2>2. PICK d : d = Doing("read", "read", newest, NULL, pos, <<>>)  OBVIOUS
  <2>3. d.step = "read" /\ d.entry = newest /\ d.pos = pos /\ d.child = NULL
    BY <2>2 DEF Doing
  <2>4. Held(d)  BY <2>1, <2>3 DEF Held
  <2> QED  BY <2>1, <2>2, <2>3, <2>4, EnterContent DEF Copying
<1>2. CASE BeginWrite(p)
  <2>1. PICK pos \in 0 .. MaxFileSize, text \in Seq(Bytes), op \in {"write", "append"} :
          Enter(p, Doing(op, "write", newest, NULL, pos, text))
    BY <1>0, <1>2, BeginWriteFacts
  <2>2. PICK d : d = Doing(op, "write", newest, NULL, pos, text)  OBVIOUS
  <2>3. d.step = "write" /\ d.child = NULL  BY <2>2 DEF Doing
  <2>4. Held(d)  BY <2>3 DEF Held
  <2> QED  BY <2>1, <2>2, <2>3, <2>4, EnterContent DEF Copying
<1>3. CASE BeginLink(p)
  <2>1. PICK n \in names : Enter(p, Doing("link", "insert", newest, n, 0, <<>>))
    BY <1>0, <1>3, BeginLinkFacts
  <2>2. PICK d : d = Doing("link", "insert", newest, n, 0, <<>>)  OBVIOUS
  <2>3. d.step = "insert" /\ d.child = NULL  BY <2>2 DEF Doing
  <2>4. Held(d)  BY <2>3 DEF Held
  <2> QED  BY <2>1, <2>2, <2>3, <2>4, EnterContent DEF Copying
<1>4. CASE BeginUnlink(p)
  <2>1. PICK n \in names \ Filling : Enter(p, Doing("unlink", "delete", n, n, 0, <<>>))
    BY <1>0, <1>4, BeginUnlinkFacts
  <2>2. PICK d : d = Doing("unlink", "delete", n, n, 0, <<>>)  OBVIOUS
  <2>3. d.step = "delete" /\ d.entry = n /\ d.child = NULL  BY <2>2 DEF Doing
  <2>4. Held(d)  BY <2>3 DEF Held
  <2> QED  BY <2>1, <2>2, <2>3, <2>4, EnterContent DEF Copying
<1> QED  BY <1>1, <1>2, <1>3, <1>4

\* A read, a write that fails, and a use of freed memory.
LEMMA LeaveContent ==
  ASSUME CInv, TInv', NEW p \in Procs, Read(p) \/ WriteFails(p) \/ Undefined(p)
  PROVE  CInv'
<1>1. CASE Read(p) \/ WriteFails(p)
  <2>1. call' = [call EXCEPT ![p] = Idle] /\ UNCHANGED Rest /\ call[p].step \in {"read", "write"}
    BY <1>1 DEF Read, WriteFails, Return, Rest, At
  <2>2. call[p].child = NULL  BY <2>1 DEF CInv, TInv, Sound, Steps, Copying
  <2>3. Idle.step = "idle" /\ Idle.child = NULL  BY DEF Idle
  <2>4. Held(Idle)  BY <2>3 DEF Held
  <2> QED  BY <2>1, <2>2, <2>3, <2>4, CallContent
<1>2. CASE Undefined(p)
  <2>1. PICK c \in Call : c = call[p]  BY DEF CInv, TInv, Types
  <2>2. PICK d : d = [c EXCEPT !.step = "undefined"]  OBVIOUS
  <2>3. d.step = "undefined" /\ d.child = c.child /\ d.entry = c.entry  BY <2>2 DEF Call
  <2>4. call' = [call EXCEPT ![p] = d] /\ UNCHANGED Rest
    BY <1>2, <2>1, <2>2 DEF Undefined, Rest
  <2>5. Held(c)  BY <2>1 DEF CInv
  <2>6. Held(d)  BY <2>3, <2>5 DEF Held
  <2> QED  BY <2>1, <2>3, <2>4, <2>6, CallContent
<1> QED  BY <1>1, <1>2

LEMMA LinkInsertContent == ASSUME CInv, TInv', NEW p \in Procs, LinkInsert(p) PROVE CInv'
<1>0. TInv  BY DEF CInv
<1>1. /\ made < MaxNames /\ made' = made + 1 /\ names' = names \cup {made + 1}
      /\ call' = [call EXCEPT ![p].step = "data", ![p].child = made + 1]
      /\ entry' = entry /\ heap' = heap /\ live' = live /\ file' = file
      /\ beheaded' = beheaded /\ torn' = torn /\ call[p].step = "insert"
      /\ overtaken' = (overtaken \/ call[p].entry # newest \/ call[p].entry \in Filling)
  BY DEF LinkInsert, heap_vars, At
<1>2. made \in Nat /\ made >= 1 /\ names \subseteq 1 .. made /\ torn \subseteq 1 .. made
  BY <1>0, Constants DEF TInv, Types
<1>3. PICK new \in 1 .. MaxNames : new = made + 1 /\ new > made
  BY <1>1, <1>2, Constants
<1>4. PICK c \in Call : c = call[p]  BY <1>0 DEF TInv, Types
<1>5. PICK d : d = [c EXCEPT !.step = "data", !.child = new]  OBVIOUS
<1>6. d.entry = c.entry /\ d.child = new /\ d.step = "data"
  BY <1>5 DEF Call
<1>7. \A q \in Procs : call'[q] = IF q = p THEN d ELSE call[q]
  BY <1>0, <1>1, <1>3, <1>4, <1>5 DEF TInv, Types
<1>8. \A q \in Procs : call[q] \in Call /\ call[q].child <= made /\ call[q].entry <= made
                        /\ call[q].child \in Nat /\ call[q].entry \in Nat
  BY <1>0 DEF TInv, Types, Sound, Call
<1>9. new \notin names /\ new \notin torn /\ \A q \in Procs : call[q].child # new /\ call[q].entry # new
  BY <1>2, <1>3, <1>8
<1>10. c.child = NULL /\ Safe(p)
  BY <1>0, <1>1, <1>4 DEF TInv, Sound, Steps, Copying, LinkInsert
<1>11. Filling' = Filling \cup {new}
  <2>1. new # NULL  BY <1>2, <1>3 DEF NULL
  <2> QED  BY <1>4, <1>6, <1>7, <1>10, <2>1 DEF Filling
<1>12. Single'
  <2>1. ASSUME NEW a \in Procs, NEW b \in Procs, call'[a].child = call'[b].child, call'[a].child # NULL
        PROVE  a = b
    <3>1. CASE a = p \/ b = p  BY <1>6, <1>7, <1>9, <2>1, <3>1
    <3>2. CASE a # p /\ b # p  BY <1>7, <2>1, <3>2 DEF CInv, Single
    <3> QED  BY <3>1, <3>2
  <2> QED  BY <2>1 DEF Single
<1>13. entry[new] = NoData  BY <1>0, <1>3, <1>2 DEF TInv
<1>14. Front' /\ Owned'
  <2>1. made' \in names' /\ made' # 1  BY <1>1, <1>2
  <2> QED  BY <2>1 DEF Front, Owned
<1>15. ASSUME NEW q \in Procs PROVE Held(call[q])'
  <2>1. CASE q = p
    <3>1. Held(d)'
      BY <1>1, <1>3, <1>6, <1>13 DEF Held, NoData
    <3> QED  BY <1>7, <2>1, <3>1 DEF Held
  <2>2. CASE q # p
    <3>1. PICK a : a = call[q]  OBVIOUS
    <3>2. Held(a) /\ a.entry # new  BY <1>9, <3>1 DEF CInv
    <3>3. Held(a)'  BY <1>1, <1>3, <1>11, <3>2 DEF Held
    <3> QED  BY <1>7, <2>2, <3>1, <3>3 DEF Held
  <2> QED  BY <2>1, <2>2
<1>16. ASSUME ~overtaken' PROVE Complete' /\ Shown' /\ \A q \in Procs : Filled(call[q])'
  <2>1. ~overtaken /\ c.entry = newest /\ c.entry \notin Filling  BY <1>1, <1>4, <1>16
  <2>2. \A q \in Procs : call[q].child = NULL  BY <2>1, NothingFilled
  <2>3. Complete'
    <3>1. Complete  BY <2>1 DEF CInv
    <3> QED  BY <1>1, <1>3, <1>11, <3>1 DEF Complete
  <2>4. Shown'  BY <1>1, <1>3, <1>11 DEF Shown
  <2>5. c.entry \in names  BY <1>4, <1>10 DEF Safe
  <2>6. ASSUME ~beheaded PROVE Whole(c.entry)'
    <3>1. c.entry = made /\ made \notin Filling  BY <2>1, <2>5, <2>6, NothingFilled
    <3>2. Whole(c.entry)  BY <2>1, <2>5, <2>6, <3>1 DEF CInv, Shown
    <3> QED  BY <1>1, <3>2 DEF Whole
  <2>7. Partial(d)'  BY <1>1, <1>6, <1>13 DEF Partial
  <2>8. Filled(d)'  BY <1>1, <1>3, <1>6, <2>6, <2>7 DEF Filled
  <2>9. ASSUME NEW q \in Procs PROVE Filled(call[q])'
    <3>1. CASE q = p  BY <1>7, <2>8, <3>1 DEF Filled, Partial, Whole
    <3>2. CASE q # p  BY <1>7, <2>2, <3>2 DEF Filled
    <3> QED  BY <3>1, <3>2
  <2> QED  BY <2>3, <2>4, <2>9
<1> QED  BY <1>12, <1>14, <1>15, <1>16 DEF CInv

LEMMA CopyContent ==
  ASSUME CInv, TInv', NEW p \in Procs, CopyData(p) \/ CopySize(p) \/ CopyCapacity(p)
  PROVE  CInv'
<1>0. TInv  BY DEF CInv
<1>1. PICK t \in names, v \in 2 .. MaxNames, f \in Fields, c \in Call :
        /\ t = call[p].entry /\ v = call[p].child /\ t < v /\ v <= made
        /\ t \in 1 .. MaxNames /\ entry[t] \in Fields /\ entry[v] \in Fields
        /\ Copied(p, f, c) /\ Copies(p, t, v, f, c)
  BY <1>0, CopyFacts
<1>2. /\ names' = names /\ made' = made /\ heap' = heap /\ live' = live
      /\ file' = file /\ beheaded' = beheaded /\ overtaken' = overtaken /\ torn' = torn
  BY <1>1 DEF Copied
<1>3. \A e \in 1 .. MaxNames : entry'[e] = IF e = v THEN f ELSE entry[e]
  BY <1>0, <1>1 DEF Copied, TInv, Types
<1>4. \A q \in Procs : call'[q] = IF q = p THEN c ELSE call[q]
  BY <1>0, <1>1 DEF Copied, TInv, Types
<1>5. /\ t # v /\ v # NULL /\ v \in 1 .. MaxNames /\ made >= 2 /\ made \in 1 .. MaxNames
      /\ names \subseteq 1 .. MaxNames
  BY <1>0, <1>1, Constants DEF NULL, TInv, Types
<1>6. \A q \in Procs : q # p => call[q].child # v
  <2>1. Single  BY DEF CInv
  <2> QED  BY <1>1, <1>5, <2>1 DEF Single
<1>7. c.child = v \/ (c = Idle /\ c.child = NULL)
  BY <1>1 DEF Copies, Idle
<1>8. Filling' = IF c = Idle THEN Filling \ {v} ELSE Filling
  <2>1. CASE c = Idle
    <3>1. c.child = NULL  BY <2>1 DEF Idle
    <3> QED  BY <1>1, <1>4, <1>6, <2>1, <3>1 DEF Filling
  <2>2. CASE c # Idle
    <3>1. \A q \in Procs : call'[q].child = call[q].child  BY <1>1, <1>4, <1>7, <2>2
    <3> QED  BY <2>2, <3>1 DEF Filling
  <2> QED  BY <2>1, <2>2
<1>9. v \in Filling /\ Filling' \subseteq Filling /\ (c # Idle => v \in Filling')
  BY <1>1, <1>5, <1>8 DEF Filling
<1>10. Single'
  <2>1. \A q \in Procs : call'[q].child = NULL \/ call'[q].child = call[q].child
    BY <1>1, <1>4, <1>7
  <2> QED  BY <2>1 DEF CInv, Single
<1>11. Front'  BY <1>2 DEF CInv, Front
<1>12. Owned'  BY <1>2, <1>5 DEF Owned
<1>13. ASSUME NEW q \in Procs PROVE Held(call[q])'
  <2>1. PICK a : a = call[q]  OBVIOUS
  <2>2. Held(a)  BY <2>1 DEF CInv
  <2>3. CASE q = p
    <3>1. Held(c)'
      <4>1. CASE c = Idle  BY <4>1 DEF Held, Idle
      <4>2. CASE call[p].step = "data" /\ c.step = "size"
        <5>1. c.child = v /\ f.size = entry[v].size  BY <1>1, <4>2 DEF Copies, Fields
        <5>2. v \in names /\ (v \notin torn => entry[v].size = 0)
          BY <1>1, <1>5, <2>1, <2>2, <2>3, <4>2 DEF Held
        <5> QED  BY <1>2, <1>3, <1>5, <4>2, <5>1, <5>2 DEF Held
      <4>3. CASE c.step = "capacity"
        <5>1. c.child = v  BY <1>7, <4>3 DEF Idle
        <5>2. v \in names  BY <1>1, <1>5, <2>1, <2>2, <2>3 DEF Held
        <5> QED  BY <1>2, <4>3, <5>1, <5>2 DEF Held
      <4> QED  BY <1>1, <4>1, <4>2, <4>3 DEF Copies
    <3> QED  BY <1>4, <2>3, <3>1 DEF Held
  <2>4. CASE q # p
    <3>1. a.child # v  BY <1>6, <2>1, <2>4
    <3>2. ASSUME a.step = "read", a.entry \in names, a.entry \notin torn
          PROVE  a.pos < entry'[a.entry].size
      <4>1. a.pos < entry[a.entry].size  BY <2>2, <3>2 DEF Held
      <4>2. CASE a.entry # v  BY <1>3, <1>5, <3>2, <4>1, <4>2
      <4>3. CASE a.entry = v
        <5>1. call[p].step \in {"data", "size"} => entry[v].size = 0
          BY <1>1, <3>2, <4>3 DEF CInv, Held
        <5>2. a.pos \in Nat  BY <1>0, <2>1, Constants DEF TInv, Types, Call
        <5>3. entry[v].size # 0  BY <4>1, <4>3, <5>2
        <5>4. f.size = entry[v].size  BY <1>1, <5>1, <5>3 DEF Copies, Fields
        <5> QED  BY <1>3, <1>5, <4>1, <4>3, <5>4
      <4> QED  BY <4>2, <4>3
    <3>3. ASSUME a.step \in {"data", "size"}, a.child \notin torn
          PROVE  entry'[a.child].size = 0
      <4>1. a.child \in 1 .. MaxNames  BY <1>0, <1>5, <2>1, <2>2, <3>3 DEF Held, TInv, Sound, Copying
      <4> QED  BY <1>3, <2>2, <3>1, <3>3, <4>1 DEF Held
    <3>4. Held(a)'  BY <1>2, <1>9, <2>2, <3>2, <3>3 DEF Held
    <3> QED  BY <1>4, <2>1, <2>4, <3>4 DEF Held
  <2> QED  BY <2>3, <2>4
<1>14. ASSUME ~overtaken PROVE Complete' /\ Shown' /\ \A q \in Procs : Filled(call[q])'
  <2>1. PICK a : a = call[p]  OBVIOUS
  <2>2. a.child = v /\ a.entry = t /\ Filled(a)  BY <1>1, <1>14, <2>1 DEF CInv
  <2>3. v = made /\ Partial(a) /\ (~beheaded => Whole(t))  BY <1>5, <2>2 DEF Filled
  <2>4. \A q \in Procs : q # p => call[q].child = NULL
    BY <1>6, <1>14, <2>3 DEF CInv, Filled
  <2>5. t \notin Filling  BY <1>1, <1>5, <2>4 DEF Filling
  <2>6. entry'[t] = entry[t] /\ entry'[v] = f  BY <1>1, <1>3, <1>5
  <2>7. c = Idle => f.data = entry[t].data /\ f.size = entry[t].size /\ f.capacity = entry[t].capacity
    <3>1. ASSUME c = Idle PROVE a.step = "capacity" /\ f = [entry[v] EXCEPT !.capacity = entry[t].capacity]
      BY <1>1, <2>1, <3>1 DEF Copies, Idle
    <3>2. ASSUME c = Idle
          PROVE  f.data = entry[v].data /\ f.size = entry[v].size /\ f.capacity = entry[t].capacity
      BY <1>1, <3>1, <3>2 DEF Fields
    <3>3. a.step = "capacity" => entry[v].data = entry[t].data /\ entry[v].size = entry[t].size
      BY <2>2, <2>3 DEF Partial
    <3> QED  BY <3>1, <3>2, <3>3
  <2>8. Complete'
    <3>1. Complete  BY <1>14 DEF CInv
    <3>2. entry[t].size <= entry[t].capacity  BY <1>1, <2>5, <3>1 DEF Complete
    <3>3. ASSUME NEW e \in names, e \notin Filling' PROVE entry'[e].size <= entry'[e].capacity
      <4>1. CASE e = v
        <5>1. c = Idle  BY <1>9, <3>3, <4>1
        <5> QED  BY <2>6, <2>7, <3>2, <4>1, <5>1
      <4>2. CASE e # v
        <5>1. e \notin Filling  BY <1>8, <3>3, <4>2
        <5>2. entry'[e] = entry[e]  BY <1>3, <1>5, <4>2
        <5> QED  BY <3>1, <5>1, <5>2 DEF Complete
      <4> QED  BY <4>1, <4>2
    <3> QED  BY <1>2, <3>3 DEF Complete
  <2>9. Whole(t) => Whole(t)'
    BY <1>2, <2>6 DEF Whole
  <2>10. Shown'
    <3>1. ASSUME ~beheaded, made \notin Filling' PROVE Whole(v)'
      <4>1. c = Idle  BY <1>9, <2>3, <3>1
      <4> QED  BY <1>2, <2>3, <2>6, <2>7, <3>1, <4>1 DEF Whole
    <3> QED  BY <1>2, <2>3, <3>1 DEF Shown, Whole
  <2>11. Filled(c)'
    <3>1. CASE c = Idle  BY <3>1 DEF Filled, Idle
    <3>2. CASE c # Idle
      <4>1. c.child = v /\ c.entry = t  BY <1>1, <3>2 DEF Copies
      <4>2. Partial(c)'
        <5>1. CASE a.step = "data" /\ c.step = "size"
          <6>1. f.data = entry[t].data  BY <1>1, <2>1, <5>1 DEF Copies, Fields
          <6> QED  BY <2>6, <4>1, <5>1, <6>1 DEF Partial
        <5>2. CASE a.step = "size" /\ c.step = "capacity"
          <6>1. f = [entry[v] EXCEPT !.size = entry[t].size]  BY <1>1, <2>1, <5>2 DEF Copies
          <6>2. f.size = entry[t].size /\ f.data = entry[v].data  BY <1>1, <6>1 DEF Fields
          <6>3. entry[v].data = entry[t].data  BY <2>2, <2>3, <5>2 DEF Partial
          <6> QED  BY <2>6, <4>1, <5>2, <6>2, <6>3 DEF Partial
        <5> QED  BY <1>1, <2>1, <3>2, <5>1, <5>2 DEF Copies
      <4>3. ~beheaded => Whole(t)'  BY <2>3, <2>9
      <4> QED  BY <1>2, <2>3, <4>1, <4>2, <4>3 DEF Filled
    <3> QED  BY <3>1, <3>2
  <2>12. ASSUME NEW q \in Procs PROVE Filled(call[q])'
    <3>1. CASE q = p  BY <1>4, <2>11, <3>1 DEF Filled, Partial, Whole
    <3>2. CASE q # p  BY <1>4, <2>4, <3>2 DEF Filled
    <3> QED  BY <3>1, <3>2
  <2> QED  BY <2>8, <2>10, <2>12
<1> QED  BY <1>2, <1>10, <1>11, <1>12, <1>13, <1>14 DEF CInv

LEMMA DeleteContent == ASSUME CInv, TInv', NEW p \in Procs, Delete(p) PROVE CInv'
<1>0. TInv  BY DEF CInv
<1>1. PICK e : e = call[p].entry  OBVIOUS
<1>2. PICK F : F = FreedWith(e)  OBVIOUS
<1>3. /\ entry' = [entry EXCEPT ![e] = NoData] /\ names' = names \ {e} /\ made' = made
      /\ heap' = [b \in DOMAIN heap |-> IF b \in F THEN <<>> ELSE heap[b]]
      /\ live' = live \ F /\ buffers' = buffers /\ file' = file
      /\ beheaded' = (beheaded \/ (e = newest /\ names # {e}))
      /\ overtaken' = overtaken /\ torn' = torn
      /\ call' = [call EXCEPT ![p] = Idle] /\ call[p].step = "delete" /\ Safe(p)
  BY <1>1, <1>2 DEF Delete, Return, At
<1>4. \A q \in Procs : call'[q] = IF q = p THEN Idle ELSE call[q]
  BY <1>0, <1>3 DEF TInv, Types
<1>5. call[p].child = NULL /\ Idle.child = NULL /\ Idle.step = "idle"
  BY <1>0, <1>3 DEF TInv, Sound, Steps, Copying, Idle
<1>6. e \in names /\ e \notin Filling /\ names \subseteq 1 .. MaxNames
  BY <1>0, <1>1, <1>3, Constants DEF CInv, Held, Safe, TInv, Types
<1>7. \A q \in Procs : call'[q].child = call[q].child  BY <1>4, <1>5
<1>8. Filling' = Filling /\ Single'
  BY <1>7 DEF Filling, CInv, Single
<1>9. \A x \in 1 .. MaxNames : x # e => entry'[x] = entry[x]
  BY <1>0, <1>3 DEF TInv, Types
<1>10. \A q \in Procs : call[q].child # NULL => call[q].child \in names' /\ call[q].child \in names
                                                 /\ call[q].child # e
  BY <1>3, <1>6 DEF CInv, Held, Filling
<1>11. Owned'
  <2>1. ASSUME made = 1 PROVE names' = {} /\ live' = {}
    <3>1. names \subseteq 1 .. made  BY <1>0 DEF TInv, Types
    <3>2. e = 1 /\ names = {1}
      <4>1. \A x \in names : x = 1  BY <2>1, <3>1
      <4> QED  BY <1>6, <4>1
    <3>3. F = {entry[1].data} \ {NULL}  BY <1>2, <3>2 DEF FreedWith
    <3>4. live = {entry[1].data} \ {NULL}  BY <2>1, <3>2 DEF CInv, Owned
    <3> QED  BY <1>3, <3>2, <3>3, <3>4
  <2> QED  BY <1>3, <2>1 DEF Owned
<1>12. ASSUME ~beheaded', names' # {}
       PROVE  ~beheaded /\ made \in names /\ made \in names' /\ made # e
  <2>1. ~beheaded /\ ~(e = newest /\ names # {e}) /\ names # {e}  BY <1>3, <1>12
  <2>2. made \in names  BY <1>6, <2>1 DEF CInv, Front
  <2>3. newest = made  BY <1>0, <2>2, NewestIsMade
  <2> QED  BY <1>3, <2>1, <2>2, <2>3
<1>13. Front'  BY <1>3, <1>12 DEF Front
<1>14. names # {e} => heap' = heap /\ live' = live
  <2>1. names # {e} => F = {}  BY <1>2 DEF FreedWith
  <2> QED  BY <1>0, <1>3, <2>1 DEF TInv, Types
<1>15. ASSUME NEW x \in names, x # e, Whole(x) PROVE Whole(x)'
  <2>1. heap' = heap /\ live' = live /\ entry'[x] = entry[x]  BY <1>6, <1>9, <1>14, <1>15
  <2> QED  BY <1>3, <1>15, <2>1 DEF Whole
<1>16. ASSUME NEW q \in Procs PROVE Held(call[q])'
  <2>1. CASE q = p
    <3>1. Held(Idle)'  BY <1>5 DEF Held
    <3> QED  BY <1>4, <2>1, <3>1 DEF Held
  <2>2. CASE q # p
    <3>1. PICK a : a = call[q]  OBVIOUS
    <3>2. Held(a) /\ (a.child # NULL => a.child \in names' /\ a.child \in names /\ a.child # e)
      BY <1>10, <3>1 DEF CInv
    <3>3. a.step \in {"data", "size"} => a.child # NULL
      BY <1>0, <3>1 DEF TInv, Sound, Copying
    <3>4. Held(a)'  BY <1>3, <1>6, <1>8, <1>9, <3>2, <3>3 DEF Held
    <3> QED  BY <1>4, <2>2, <3>1, <3>4 DEF Held
  <2> QED  BY <2>1, <2>2
<1>17. ASSUME ~overtaken PROVE Complete' /\ Shown' /\ \A q \in Procs : Filled(call[q])'
  <2>1. Complete'
    <3>1. Complete  BY <1>17 DEF CInv
    <3> QED  BY <1>3, <1>6, <1>8, <1>9, <3>1 DEF Complete
  <2>2. Shown'
    <3>1. ASSUME ~beheaded', names' # {}, made \notin Filling PROVE Whole(made)'
      <4>1. Whole(made)  BY <1>12, <1>17, <3>1 DEF CInv, Shown
      <4>2. PICK x \in names : x = made /\ x # e /\ Whole(x)  BY <1>12, <3>1, <4>1
      <4>3. Whole(x)'  BY <1>15, <4>2
      <4> QED  BY <1>3, <4>2, <4>3 DEF Whole
    <3> QED  BY <1>3, <1>8, <3>1 DEF Shown
  <2>3. ASSUME NEW q \in Procs PROVE Filled(call[q])'
    <3>1. CASE q = p
      <4>1. Filled(Idle)'  BY <1>5 DEF Filled
      <4> QED  BY <1>4, <3>1, <4>1 DEF Filled, Partial, Whole
    <3>2. CASE q # p
      <4>1. PICK a : a = call[q] /\ Filled(a)  BY <1>17 DEF CInv
      <4>2. ASSUME a.child # NULL PROVE Filled(a)'
        <5>1. a.child \in names /\ a.child # e  BY <1>10, <4>1, <4>2
        <5>2. a.child = made /\ Partial(a) /\ (~beheaded /\ a.entry \in names => Whole(a.entry))
          BY <4>1, <4>2 DEF Filled
        <5>3. Partial(a)'  BY <1>3, <1>6, <1>9, <5>1, <5>2 DEF Partial
        <5>4. ~beheaded' /\ a.entry \in names' => Whole(a.entry)'
          <6>1. ASSUME ~beheaded', a.entry \in names' PROVE Whole(a.entry)'
            <7>1. PICK x \in names : x = a.entry /\ x # e /\ Whole(x)  BY <1>3, <5>2, <6>1
            <7>2. Whole(x)'  BY <1>15, <7>1
            <7> QED  BY <7>1, <7>2
          <6> QED  BY <6>1
        <5> QED  BY <1>3, <5>2, <5>3, <5>4 DEF Filled
      <4>3. Filled(a)'  BY <4>2 DEF Filled
      <4> QED  BY <1>4, <3>2, <4>1, <4>3 DEF Filled, Partial, Whole
    <3> QED  BY <3>1, <3>2
  <2> QED  BY <2>1, <2>2, <2>3
<1> QED  BY <1>3, <1>8, <1>11, <1>13, <1>16, <1>17 DEF CInv

\* A buffer that shows the file shows it after the same bytes went to both.
Faithful(f, s, n) == \A i \in 1 .. n : f[i] \in {Gap, s[i]}

LEMMA PutShows ==
  ASSUME NEW f \in Seq(Bytes \cup {Gap}), NEW s \in Seq(Cells), NEW pos \in 0 .. MaxFileSize,
         NEW text \in Seq(Bytes), NEW end \in Nat, end = pos + Len(text), end <= Len(s),
         NEW size \in Nat, size = (IF Len(f) >= end THEN Len(f) ELSE end), size <= Len(s),
         Faithful(f, s, Len(f))
  PROVE  /\ Len(Put(s, pos, text, Zero)) = Len(s) /\ Len(Put(f, pos, text, Gap)) = size
         /\ Faithful(Put(f, pos, text, Gap), Put(s, pos, text, Zero), size)
<1>1. pos \in Nat /\ text \in Seq(Cells) /\ Zero \in Cells  BY Constants DEF Cells
<1>2. PICK S : S = Bytes \cup {Gap}  OBVIOUS
<1>3. text \in Seq(S) /\ Gap \in S /\ f \in Seq(S)  BY <1>2
<1>4. PICK m \in Nat : m = Len(s)  OBVIOUS
<1>5. m = IF Len(s) >= pos + Len(text) THEN Len(s) ELSE pos + Len(text)  BY <1>4
<1>6. /\ Len(Put(s, pos, text, Zero)) = m
      /\ \A i \in 1 .. m : Put(s, pos, text, Zero)[i] = PutCell(s, pos, text, Zero, i)
  BY <1>1, <1>4, <1>5, PutFacts
<1>7. size = IF Len(f) >= pos + Len(text) THEN Len(f) ELSE pos + Len(text)  OBVIOUS
<1>8. /\ Len(Put(f, pos, text, Gap)) = size
      /\ \A i \in 1 .. size : Put(f, pos, text, Gap)[i] = PutCell(f, pos, text, Gap, i)
  BY <1>1, <1>3, <1>7, PutFacts
<1>9. ASSUME NEW i \in 1 .. size
      PROVE  Put(f, pos, text, Gap)[i] \in {Gap, Put(s, pos, text, Zero)[i]}
  <2>1. i \in 1 .. m /\ i <= Len(s)  BY <1>4
  <2>2. /\ Put(s, pos, text, Zero)[i] = PutCell(s, pos, text, Zero, i)
        /\ Put(f, pos, text, Gap)[i] = PutCell(f, pos, text, Gap, i)
    BY <1>6, <1>8, <2>1
  <2>3. CASE i \in pos + 1 .. pos + Len(text)  BY <2>2, <2>3 DEF PutCell
  <2>4. CASE i \notin pos + 1 .. pos + Len(text) /\ i <= Len(f)
    <3>1. Put(f, pos, text, Gap)[i] = f[i]  BY <2>2, <2>4 DEF PutCell
    <3>2. Put(s, pos, text, Zero)[i] = s[i]  BY <2>1, <2>2, <2>4 DEF PutCell
    <3>3. f[i] \in {Gap, s[i]}  BY <2>4 DEF Faithful
    <3> QED  BY <3>1, <3>2, <3>3
  <2>5. CASE i \notin pos + 1 .. pos + Len(text) /\ ~(i <= Len(f))
    BY <2>2, <2>5 DEF PutCell
  <2> QED  BY <2>3, <2>4, <2>5
<1> QED  BY <1>4, <1>6, <1>8, <1>9 DEF Faithful

LEMMA WholeAgain ==
  ASSUME NEW e, NEW d, entry'[e] = d, d.size = Len(file'), d.data \in live', d.data # NULL,
         d.size <= d.capacity, d.capacity <= Len(heap'[d.data]),
         Faithful(file', heap'[d.data], d.size)
  PROVE  Whole(e)'
BY DEF Whole, Faithful

LEMMA WriteShows ==
  ASSUME TInv, NEW p, NEW e \in names, NEW pos \in 0 .. MaxFileSize, NEW text \in Seq(Bytes),
         NEW end \in 1 .. MaxFileSize, NEW size \in 1 .. MaxFileSize,
         end = pos + Len(text), size = (IF entry[e].size >= end THEN entry[e].size ELSE end),
         entry[e] \in Fields, Allocated(entry[e]), e \in 1 .. MaxNames,
         Written(p, e, pos, text, end, size), Whole(e)
  PROVE  Whole(e)'
<1>1. PICK c \in Fields : c = entry[e]  OBVIOUS
<1>2. /\ c.size = Len(file) /\ c.data \in live \cup {NULL} /\ (c.data = NULL => c.capacity = 0)
      /\ c.data # NULL => c.capacity <= Len(heap[c.data])
      /\ c.data # NULL => \A i \in 1 .. c.size : file[i] \in {Gap, heap[c.data][i]}
  BY <1>1 DEF Whole
<1>9. c.size <= c.capacity  BY <1>1 DEF Whole
<1>3. c.size \in Nat /\ c.capacity \in Nat /\ c.size <= c.capacity /\ file \in Seq(Bytes \cup {Gap})
      /\ end \in Nat /\ size \in Nat /\ end >= 1
  BY <1>1, <1>9, Constants DEF Fields, TInv, Types
<1>4. PICK f \in Seq(Bytes \cup {Gap}) : f = file /\ c.size = Len(f)
      /\ size = (IF Len(f) >= end THEN Len(f) ELSE end)
  BY <1>1, <1>2, <1>3
<1>5. PICK g : g = Put(f, pos, text, Gap) /\ file' = g  BY <1>4 DEF Written
<1>6. end \in Nat /\ size \in Nat  BY <1>3
<1>7. CASE InPlace(e, pos, text, end, size)
  <2>1. end <= c.capacity /\ c.data # NULL
    BY <1>1, <1>2, <1>3, <1>7 DEF InPlace
  <2>2. PICK b \in 1 .. MaxBuffers : b = c.data
    BY <2>1, Constants DEF Fields, NULL
  <2>3. PICK s \in Seq(Cells) : s = heap[b]  BY DEF TInv, Types
  <2>4. end <= Len(s) /\ size <= c.capacity /\ c.capacity <= Len(s)
    <3>1. Len(s) \in Nat /\ c.capacity <= Len(s)  BY <1>2, <2>1, <2>2, <2>3
    <3> QED  BY <1>1, <1>3, <2>1, <3>1
  <2>5. size <= Len(s)
    <3>1. PICK n \in Nat : n = Len(s)  OBVIOUS
    <3>2. PICK k \in Nat : k = c.capacity  BY <1>3
    <3>3. size <= k /\ k <= n  BY <2>4, <3>1, <3>2
    <3>4. size <= n  BY <1>6, <3>3
    <3> QED  BY <3>1, <3>4
  <2>6. Faithful(f, s, Len(f))
    BY <1>2, <1>4, <2>1, <2>2, <2>3 DEF Faithful
  <2>7. PICK w : w = Put(s, pos, text, Zero)  OBVIOUS
  <2>8. Len(w) = Len(s) /\ Len(g) = size /\ Faithful(g, w, size)
    <3>1. end <= Len(s)  BY <2>4
    <3>2. /\ Len(Put(s, pos, text, Zero)) = Len(s) /\ Len(Put(f, pos, text, Gap)) = size
          /\ Faithful(Put(f, pos, text, Gap), Put(s, pos, text, Zero), size)
      BY <1>4, <1>6, <2>3, <2>5, <2>6, <3>1, PutShows
    <3> QED  BY <1>5, <2>7, <3>2
  <2>9. heap'[b] = w
    BY <1>1, <1>7, <2>2, <2>3, <2>7 DEF InPlace, TInv, Types
  <2>10. PICK d : d = [c EXCEPT !.size = size]  OBVIOUS
  <2>11. d.size = size /\ d.data = b /\ d.capacity = c.capacity  BY <2>2, <2>10 DEF Fields
  <2>12. entry'[e] = d
    <3>1. entry' = [entry EXCEPT ![e].size = size]  BY <1>7 DEF InPlace
    <3> QED  BY <1>1, <2>10, <3>1 DEF TInv, Types
  <2>13. live' = live /\ b \in live /\ b # NULL  BY <1>2, <1>7, <2>1, <2>2 DEF InPlace
  <2>14. d.capacity <= Len(heap'[d.data]) /\ d.size <= d.capacity
    BY <2>4, <2>8, <2>9, <2>11
  <2> QED  BY <1>5, <2>8, <2>9, <2>11, <2>12, <2>13, <2>14, WholeAgain
<1>8. ASSUME NEW capacity \in Nat, NEW b \in 1 .. MaxBuffers,
             Reallocated(e, pos, text, end, size, capacity, b)
      PROVE  Whole(e)'
  <2>1. PICK s : s = Grown(c, capacity, pos)  OBVIOUS
  <2>2. s \in Seq(Cells) /\ Len(s) = capacity
    <3>1. pos \in Nat  BY Constants
    <3> QED  BY <2>1, <3>1, GrownFacts DEF TInv
  <2>3. s \in Seq(Cells)  BY <2>2
  <2>4. ASSUME NEW i \in 1 .. Len(f) PROVE f[i] \in {Gap, s[i]}
    <3>1. i \in Nat /\ i >= 1 /\ i <= c.size  BY <1>3, <1>4
    <3>2. c.data # NULL  BY <1>2, <1>3, <3>1
    <3>3. PICK h \in Nat : h = Len(heap[c.data])
      <4>1. c.data \in 1 .. MaxBuffers  BY <3>2, Constants DEF Fields, NULL
      <4>2. heap[c.data] \in Seq(Cells)  BY <4>1 DEF TInv, Types
      <4> QED  BY <4>2
    <3>4. i <= h  BY <1>2, <1>3, <3>1, <3>2, <3>3
    <3>5. i \in 1 .. capacity
      <4>1. capacity >= c.capacity  BY <1>1, <1>8 DEF Reallocated
      <4> QED  BY <1>3, <3>1, <4>1
    <3>6. s[i] = heap[c.data][i]
      <4>1. pos \in Nat  BY Constants
      <4>2. \A j \in 1 .. capacity : j <= c.size /\ j <= Len(heap[c.data]) =>
              Grown(c, capacity, pos)[j] = heap[c.data][j]
        BY <3>2, <4>1, GrownFacts DEF TInv
      <4> QED  BY <2>1, <3>1, <3>3, <3>4, <3>5, <4>2
    <3>7. f[i] \in {Gap, heap[c.data][i]}  BY <1>2, <1>3, <1>4, <3>1, <3>2
    <3> QED  BY <3>6, <3>7
  <2>5. end <= Len(s) /\ size <= Len(s) /\ size <= capacity
    <3>1. capacity >= end /\ capacity >= c.capacity  BY <1>1, <1>8 DEF Reallocated
    <3> QED  BY <1>1, <1>3, <2>2, <3>1
  <2>6. PICK w : w = Put(s, pos, text, Zero)  OBVIOUS
  <2>7. Faithful(f, s, Len(f))  BY <2>4 DEF Faithful
  <2>8. Len(w) = Len(s) /\ Len(g) = size /\ Faithful(g, w, size)
    <3>1. end <= Len(s) /\ size <= Len(s)  BY <2>5
    <3>2. /\ Len(Put(s, pos, text, Zero)) = Len(s) /\ Len(Put(f, pos, text, Gap)) = size
          /\ Faithful(Put(f, pos, text, Gap), Put(s, pos, text, Zero), size)
      BY <1>4, <1>6, <2>3, <2>7, <3>1, PutShows
    <3> QED  BY <1>5, <2>6, <3>2
  <2>9. heap'[b] = w
    <3>1. heap' = [Without(c.data) EXCEPT ![b] = Put(s, pos, text, Zero)]
      BY <1>1, <1>8, <2>1 DEF Reallocated
    <3>2. Without(c.data) \in [1 .. MaxBuffers -> Seq(Cells)]  BY WithoutType DEF TInv
    <3> QED  BY <2>6, <3>1, <3>2
  <2>10. PICK d : d = [data |-> b, size |-> size, capacity |-> capacity]  OBVIOUS
  <2>11. d.size = size /\ d.data = b /\ d.capacity = capacity  BY <2>10
  <2>12. entry'[e] = d  BY <1>8, <2>10 DEF Reallocated, TInv, Types
  <2>13. b \in live' /\ b # NULL  BY <1>8 DEF Reallocated, NULL
  <2>14. d.capacity <= Len(heap'[d.data]) /\ d.size <= d.capacity
    BY <2>2, <2>5, <2>8, <2>9, <2>11
  <2> QED  BY <1>5, <2>8, <2>9, <2>11, <2>12, <2>13, <2>14, WholeAgain
<1> QED  BY <1>7, <1>8 DEF Written

LEMMA WriteContent == ASSUME CInv, TInv', NEW p \in Procs, Write(p) PROVE CInv'
<1>0. TInv  BY DEF CInv
<1>1. PICK e \in names, pos \in 0 .. MaxFileSize, text \in Seq(Bytes), end \in 1 .. MaxFileSize,
           size \in 1 .. MaxFileSize :
        /\ e = call[p].entry /\ end = pos + Len(text)
        /\ size = (IF entry[e].size >= end THEN entry[e].size ELSE end)
        /\ entry[e] \in Fields /\ Allocated(entry[e]) /\ e \in 1 .. MaxNames
        /\ call[p].step = "write" /\ entry[e].data \in live \cup {NULL}
        /\ Written(p, e, pos, text, end, size)
  BY <1>0, WriteFacts
<1>2. /\ call' = [call EXCEPT ![p] = Idle] /\ names' = names /\ made' = made /\ beheaded' = beheaded
      /\ overtaken' = (overtaken \/ e # newest \/ e \in Filling)
      /\ torn' = torn \cup ({e} \cap Filling)
  BY <1>1 DEF Written
<1>3. \A q \in Procs : call'[q] = IF q = p THEN Idle ELSE call[q]
  BY <1>0, <1>2 DEF TInv, Types
<1>4. call[p].child = NULL /\ Idle.child = NULL /\ Idle.step = "idle"
  BY <1>0, <1>1 DEF TInv, Sound, Steps, Copying, Idle
<1>5. \A q \in Procs : call'[q].child = call[q].child  BY <1>3, <1>4
<1>6. Filling' = Filling /\ Single'
  BY <1>5 DEF Filling, CInv, Single
<1>7. PICK old \in Nat : old = entry[e].size  BY <1>1, Constants DEF Fields
<1>8. size >= old /\ size \in Nat
  <2>1. end \in Nat /\ size \in Nat  BY Constants
  <2> QED  BY <1>1, <1>7, <2>1
<1>9. PICK f : /\ entry' = [entry EXCEPT ![e] = f] /\ f.size = size
               /\ old <= entry[e].capacity => size <= f.capacity
  <2>1. CASE InPlace(e, pos, text, end, size)
    <3>1. PICK f : f = [entry[e] EXCEPT !.size = size]  OBVIOUS
    <3>2. entry' = [entry EXCEPT ![e] = f]  BY <2>1, <3>1 DEF InPlace
    <3>3. f.size = size /\ f.capacity = entry[e].capacity  BY <1>1, <3>1 DEF Fields
    <3>4. end <= entry[e].capacity  BY <2>1 DEF InPlace
    <3> QED  BY <1>1, <1>7, <3>2, <3>3, <3>4
  <2>2. ASSUME NEW capacity \in Nat, NEW b \in 1 .. MaxBuffers,
               Reallocated(e, pos, text, end, size, capacity, b)
        PROVE  \E f : /\ entry' = [entry EXCEPT ![e] = f] /\ f.size = size
                      /\ old <= entry[e].capacity => size <= f.capacity
    <3>1. PICK f : f = [data |-> b, size |-> size, capacity |-> capacity]  OBVIOUS
    <3>2. f.size = size /\ f.capacity = capacity  BY <3>1
    <3>3. entry' = [entry EXCEPT ![e] = f]  BY <2>2, <3>1 DEF Reallocated
    <3>4. capacity >= end /\ capacity >= entry[e].capacity  BY <2>2 DEF Reallocated
    <3>5. old <= entry[e].capacity => size <= capacity
      <4>1. entry[e].capacity \in Nat /\ end \in Nat  BY <1>1, Constants DEF Fields
      <4> QED  BY <1>1, <1>7, <3>4, <4>1
    <3> QED  BY <3>2, <3>3, <3>5
  <2> QED  BY <1>1, <2>1, <2>2 DEF Written
<1>10. ASSUME NEW d \in 1 .. MaxNames
       PROVE  entry'[d] = (IF d = e THEN f ELSE entry[d]) /\ entry'[d].size >= entry[d].size
  <2>2. entry'[d] = IF d = e THEN f ELSE entry[d]  BY <1>0, <1>9 DEF TInv, Types
  <2>3. CASE d = e  BY <1>7, <1>8, <1>9, <2>2, <2>3
  <2>4. CASE d # e
    <3>1. entry[d].size \in Nat  BY <1>0, Constants DEF TInv, Types, Fields
    <3> QED  BY <2>2, <2>4, <3>1
  <2> QED  BY <2>2, <2>3, <2>4
<1>15. names \subseteq 1 .. MaxNames
  BY <1>0, Constants DEF TInv, Types
<1>11. ASSUME NEW q \in Procs PROVE Held(call[q])'
  <2>1. CASE q = p
    <3>1. Held(Idle)'  BY <1>4 DEF Held
    <3> QED  BY <1>3, <2>1, <3>1 DEF Held
  <2>2. CASE q # p
    <3>0. call[q] \in Call /\ Held(call[q]) /\ Sound(call[q])
      <4>1. call[q] \in Call  BY <1>0 DEF TInv, Types
      <4>2. Sound(call[q])  BY <1>0 DEF TInv
      <4>3. Held(call[q])  BY DEF CInv
      <4> QED  BY <4>1, <4>2, <4>3
    <3>1. PICK c \in Call : c = call[q] /\ Held(c) /\ Sound(c)  BY <3>0
    <3>2. ASSUME c.step = "read", c.entry \in names, c.entry \notin torn
          PROVE  c.pos < entry'[c.entry].size
      <4>1. c.pos < entry[c.entry].size  BY <3>1, <3>2 DEF Held
      <4>2. c.entry \in 1 .. MaxNames  BY <1>15, <3>2
      <4>3. PICK y \in Nat : y = c.pos  BY Constants DEF Call
      <4>4. PICK was \in Nat : was = entry[c.entry].size
        <5>1. entry[c.entry] \in Fields  BY <1>0, <4>2 DEF TInv, Types
        <5> QED  BY <5>1, Constants DEF Fields
      <4>5. PICK is \in Nat : is = entry'[c.entry].size
        <5>1. entry' \in [1 .. MaxNames -> Fields]  BY DEF TInv, Types
        <5> QED  BY <4>2, <5>1, Constants DEF Fields
      <4>6. is >= was  BY <1>10, <4>2, <4>4, <4>5
      <4> QED  BY <4>1, <4>3, <4>4, <4>5, <4>6
    <3>3. ASSUME c.step \in {"data", "size"}, c.child \notin torn'
          PROVE  entry'[c.child].size = 0
      <4>1. c.child # NULL  BY <3>1, <3>3 DEF Sound, Copying
      <4>2. c.child \in names /\ c.child \in Filling  BY <3>1, <4>1 DEF Held, Filling
      <4>3. c.child # e /\ c.child \notin torn  BY <1>2, <3>3, <4>2
      <4>4. c.child \in 1 .. MaxNames  BY <1>15, <4>2
      <4>5. entry'[c.child] = entry[c.child]  BY <1>10, <4>3, <4>4
      <4> QED  BY <3>1, <3>3, <4>3, <4>5 DEF Held
    <3>4. Held(c)'  BY <1>2, <1>6, <3>1, <3>2, <3>3 DEF Held
    <3> QED  BY <1>3, <2>2, <3>1, <3>4 DEF Held
  <2> QED  BY <2>1, <2>2
<1>12. ASSUME ~overtaken' PROVE Complete' /\ Shown' /\ \A q \in Procs : Filled(call[q])'
  <2>1. ~overtaken /\ e = newest /\ e \notin Filling  BY <1>2, <1>12
  <2>2. \A q \in Procs : call[q].child = NULL  BY <2>1, NothingFilled
  <2>3. Complete'
    <3>1. Complete  BY <2>1 DEF CInv
    <3>2. f.size <= f.capacity  BY <1>1, <1>7, <1>9, <2>1, <3>1 DEF Complete
    <3>3. ASSUME NEW d \in names, d \notin Filling PROVE entry'[d].size <= entry'[d].capacity
      <4>1. d \in 1 .. MaxNames  BY <1>0, Constants DEF TInv, Types
      <4>2. entry'[d] = IF d = e THEN f ELSE entry[d]  BY <1>10, <4>1
      <4> QED  BY <3>1, <3>2, <3>3, <4>2 DEF Complete
    <3> QED  BY <1>2, <1>6, <3>3 DEF Complete
  <2>4. Shown'
    <3>1. ASSUME ~beheaded PROVE Whole(made)'
      <4>1. e = made /\ made \notin Filling  BY <1>1, <2>1, <3>1, NothingFilled
      <4>2. Whole(e)  BY <1>1, <2>1, <3>1, <4>1 DEF CInv, Shown
      <4>3. Whole(e)'  BY <1>0, <1>1, <4>2, WriteShows
      <4> QED  BY <1>2, <4>1, <4>3 DEF Whole
    <3> QED  BY <1>2, <3>1 DEF Shown
  <2>5. \A q \in Procs : Filled(call[q])'  BY <1>5, <2>2 DEF Filled
  <2> QED  BY <2>3, <2>4, <2>5
<1>14. Front'  BY <1>2 DEF CInv, Front
<1>13. Owned'
  <2>1. ASSUME made = 1 PROVE live' = {entry'[x].data : x \in names} \ {NULL}
    <3>1. \A x \in names : x = 1  BY <1>0, <2>1 DEF TInv, Types
    <3>2. names = {1} /\ e = 1  BY <1>1, <3>1
    <3>3. live = {entry[1].data} \ {NULL}  BY <2>1, <3>2 DEF CInv, Owned
    <3>4. live' = {entry'[1].data} \ {NULL}
      <4>1. CASE InPlace(e, pos, text, end, size)
        <5>1. entry' = [entry EXCEPT ![1].size = size] /\ live' = live
          BY <3>2, <4>1 DEF InPlace
        <5>2. 1 \in DOMAIN entry /\ entry[1] \in Fields  BY <1>0, <1>1, <3>2 DEF TInv, Types
        <5>3. entry'[1] = [entry[1] EXCEPT !.size = size]  BY <5>1, <5>2
        <5>4. entry'[1].data = entry[1].data  BY <5>2, <5>3 DEF Fields
        <5> QED  BY <3>3, <5>1, <5>4
      <4>2. ASSUME NEW capacity \in Nat, NEW b \in 1 .. MaxBuffers,
                   Reallocated(e, pos, text, end, size, capacity, b)
            PROVE  live' = {entry'[1].data} \ {NULL}
        <5>1. PICK g : g = [data |-> b, size |-> size, capacity |-> capacity]  OBVIOUS
        <5>2. entry' = [entry EXCEPT ![1] = g] /\ live' = (live \ {entry[1].data}) \cup {b}
          BY <3>2, <4>2, <5>1 DEF Reallocated
        <5>3. 1 \in DOMAIN entry  BY <1>0, <1>1, <3>2 DEF TInv, Types
        <5>4. entry'[1].data = b  BY <5>1, <5>2, <5>3
        <5>5. live' = {b}  BY <3>3, <5>2
        <5>6. b # NULL  BY DEF NULL
        <5> QED  BY <5>4, <5>5, <5>6
      <4> QED  BY <1>1, <4>1, <4>2 DEF Written
    <3> QED  BY <3>2, <3>4
  <2> QED  BY <1>2, <2>1 DEF Owned
<1> QED  BY <1>6, <1>11, <1>12, <1>13, <1>14 DEF CInv

LEMMA StepContent == CInv /\ [Next]_vars => CInv'
<1> SUFFICES ASSUME CInv, [Next]_vars PROVE CInv'
  OBVIOUS
<1>0. TInv'  BY StepTypes DEF CInv
<1>1. CASE UNCHANGED vars
  <2>1. /\ names' = names /\ made' = made /\ entry' = entry /\ heap' = heap /\ live' = live
        /\ call' = call /\ file' = file /\ beheaded' = beheaded
        /\ overtaken' = overtaken /\ torn' = torn
    BY <1>1 DEF vars
  <2>2. Filling' = Filling  BY <2>1 DEF Filling
  <2>3. Single' /\ Front' /\ Owned'  BY <2>1 DEF CInv, Single, Front, Owned
  <2>4. \A p \in Procs : Held(call[p])'  BY <2>1, <2>2 DEF CInv, Held
  <2>5. ~overtaken => Complete' /\ Shown'
    BY <2>1, <2>2 DEF CInv, Complete, Shown, Whole
  <2>6. ~overtaken => \A p \in Procs : Filled(call[p])'
    BY <2>1 DEF CInv, Filled, Partial, Whole
  <2> QED  BY <1>0, <2>1, <2>3, <2>4, <2>5, <2>6 DEF CInv
<1>2. ASSUME NEW p \in Procs,
             BeginRead(p) \/ BeginWrite(p) \/ BeginLink(p) \/ BeginUnlink(p)
      PROVE  CInv'
  BY <1>0, <1>2, BeginContent
<1>3. ASSUME NEW p \in Procs, Read(p) \/ WriteFails(p) \/ Undefined(p) PROVE CInv'
  BY <1>0, <1>3, LeaveContent
<1>4. ASSUME NEW p \in Procs, Write(p) PROVE CInv'  BY <1>0, <1>4, WriteContent
<1>5. ASSUME NEW p \in Procs, LinkInsert(p) PROVE CInv'  BY <1>0, <1>5, LinkInsertContent
<1>6. ASSUME NEW p \in Procs, CopyData(p) \/ CopySize(p) \/ CopyCapacity(p) PROVE CInv'
  BY <1>0, <1>6, CopyContent
<1>7. ASSUME NEW p \in Procs, Delete(p) PROVE CInv'  BY <1>0, <1>7, DeleteContent
<1> QED  BY <1>1, <1>2, <1>3, <1>4, <1>5, <1>6, <1>7 DEF Next

LEMMA ContentInvariant == Spec => []CInv
BY InitContent, StepContent, PTL DEF Spec

-----------------------------------------------------------------------------
\* Next to any reads, links and unlinks, the newest name of the file has every
\* byte that was written, in the order of the writes, however often krealloc
\* moved the buffer, and that buffer has not been freed; unless a newest name was
\* removed before older ones, or a write or a link used a name that was not the
\* newest or not yet complete.
THEOREM NewestAlwaysShows == Spec => []NewestShowsFile
<1>1. CInv => NewestShowsFile
  <2> SUFFICES ASSUME CInv, names # {}, ~beheaded, ~overtaken, newest \notin Filling
               PROVE  Shows(newest)
    BY DEF NewestShowsFile
  <2>1. newest = made /\ made \in names  BY NewestIsMade DEF CInv, Front
  <2>2. PICK e \in 1 .. MaxNames : e = made  BY DEF CInv, TInv, Types
  <2>3. Whole(e)  BY <2>1, <2>2 DEF CInv, Shown
  <2>4. PICK c \in Fields : c = entry[e]  BY <2>2 DEF CInv, TInv, Types
  <2>5. c.size <= c.capacity  BY <2>3, <2>4 DEF Whole
  <2>6. c.size = Len(file) /\ c.data \in live \cup {NULL} /\ (c.data = NULL => c.capacity = 0)
        /\ (c.data # NULL => \A i \in 1 .. c.size : file[i] \in {Gap, heap[c.data][i]})
    BY <2>3, <2>4 DEF Whole
  <2>7. c.size > 0 => c.data # NULL
    BY <2>4, <2>5, <2>6, Constants DEF Fields
  <2>8. c.size > 0 => c.data \in live  BY <2>6, <2>7
  <2>9. \A i \in 1 .. c.size : file[i] \in {Gap, heap[c.data][i]}
    <3> TAKE i \in 1 .. c.size
    <3>1. c.size \in Nat  BY <2>4, Constants DEF Fields
    <3>2. c.size > 0  BY <3>1
    <3> QED  BY <2>6, <2>7, <3>2
  <2>10. Shows(e)  BY <2>4, <2>6, <2>8, <2>9 DEF Shows
  <2> QED  BY <2>1, <2>2, <2>10
<1> QED  BY <1>1, ContentInvariant, PTL

\* No file grows past VTFS_MAX_FILE_SIZE, whose check in vtfs_write an append
\* passes with an offset that is not its own.  With the exceptions above, the size
\* that read and write trust is within the capacity under every complete name,
\* and the capacity within the memory krealloc gave under the newest.
THEOREM SizesAlwaysFit == Spec => []SizeFits
<1>1. CInv => SizeFits
  <2> SUFFICES ASSUME CInv PROVE SizeFits
    OBVIOUS
  <2>1. ASSUME NEW e \in names PROVE entry[e].size <= MaxFileSize
    <3>1. e \in 1 .. MaxNames  BY Constants DEF CInv, TInv, Types
    <3> QED  BY <3>1, Constants DEF CInv, TInv, Types, Fields
  <2>2. ASSUME ~overtaken, NEW e \in names, e \notin Filling
        PROVE  /\ entry[e].size <= entry[e].capacity
               /\ e = newest /\ entry[e].data # NULL /\ ~beheaded =>
                    entry[e].capacity <= Len(heap[entry[e].data])
    <3>1. entry[e].size <= entry[e].capacity  BY <2>2 DEF CInv, Complete
    <3>2. ASSUME e = newest, ~beheaded PROVE Whole(e)
      <4>1. e = made  BY <3>2, NewestIsMade DEF CInv, Front
      <4> QED  BY <2>2, <3>2, <4>1 DEF CInv, Shown
    <3> QED  BY <3>1, <3>2 DEF Whole
  <2> QED  BY <2>1, <2>2 DEF SizeFits
<1> QED  BY <1>1, ContentInvariant, PTL

\* A read that vtfs_read found to be before the end of the file is still before
\* it when vtfs_storage_read takes the lock, whatever writes, links and unlinks
\* of other names came between: no read returns a false end, but of a name that
\* was written to before link stored its size in it.
THEOREM ReadsFindBytes == Spec => []ReadHasBytes
<1>1. CInv => ReadHasBytes  BY DEF CInv, Held, ReadHasBytes, At
<1> QED  BY <1>1, ContentInvariant, PTL

\* A file that has had one name owns the one buffer that name points to, and
\* none after it is unlinked: whatever the writes did, nothing is leaked.
THEOREM NothingIsLeaked == Spec => []NothingLeaks
<1>1. CInv => NothingLeaks  BY DEF CInv, Owned, NothingLeaks
<1> QED  BY <1>1, ContentInvariant, PTL

=============================================================================
