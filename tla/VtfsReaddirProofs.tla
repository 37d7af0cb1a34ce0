-------------------------- MODULE VtfsReaddirProofs --------------------------
(***************************************************************************)
(* Proofs about VtfsReaddir, for any readers, names and bounds.            *)
(***************************************************************************)
EXTENDS VtfsReaddir, SequenceTheorems, FiniteSetTheorems, TLAPS

Fields == {"step", "pos", "at", "room", "got", "seen", "repeated", "kept",
           "added", "removed"}

\* A position is a number, and a walk stands on an entry of the list.
StateOK(c, list) ==
  /\ DOMAIN c = Fields
  /\ c.pos \in Nat
  /\ c.step = "emit" => c.at \in Range(list)

\* The first inductive invariant.  That the walk stands on a live entry depends on
\* where a call starts to walk, and so on the position: it must not be below 2
\* once the dots are out.
IInv ==
  /\ children \in Seq(Names)
  /\ DOMAIN reader = Readers
  /\ \A r \in Readers : StateOK(reader[r], children)

-----------------------------------------------------------------------------
LEMMA MinOfTwo ==
  ASSUME NEW a \in Nat, NEW b \in Nat
  PROVE  Min({a, b}) \in {a, b} /\ Min({a, b}) <= a /\ Min({a, b}) <= b
BY DEF Min

\* How many of the dots are left to emit at a position.
LEMMA DotsLeft ==
  ASSUME NEW pos \in Nat
  PROVE  /\ Len(SubSeq(Dots, pos + 1, 2)) \in Nat
         /\ pos + Len(SubSeq(Dots, pos + 1, 2)) >= 2
BY DEF Dots

\* A call that returns is not in the middle of the list.
LEMMA ReturnedOK ==
  ASSUME NEW c, NEW list, DOMAIN c = Fields, c.pos \in Nat
  PROVE  StateOK(Returned(c), list)
BY DEF Returned, StateOK, Fields

\* The walk stands on an entry of the list wherever it comes to stand.
LEMMA StandOK ==
  ASSUME NEW c, NEW i \in Nat \ {0}, DOMAIN c = Fields, c.pos \in Nat,
         children \in Seq(Names)
  PROVE  StateOK(Stand(c, i), children)
<1>1. CASE i <= Len(children)
  <2>1. i \in DOMAIN children
    BY <1>1
  <2>2. children[i] \in Range(children)
    BY <2>1 DEF Range
  <2> QED
    BY <1>1, <2>2 DEF Stand, StateOK, Fields
<1>2. CASE ~(i <= Len(children))
  BY <1>2, ReturnedOK DEF Stand
<1> QED
  BY <1>1, <1>2

\* What the program gets changes neither position nor place.
LEMMA GotSame ==
  ASSUME NEW c, NEW what, DOMAIN c = Fields
  PROVE  DOMAIN Got(c, what) = Fields /\ Got(c, what).pos = c.pos
BY DEF Got, Fields

-----------------------------------------------------------------------------
LEMMA InitOK == Init => IInv
BY DEF Init, IInv, StateOK, Closed, Fields

LEMMA InsertOK ==
  ASSUME IInv, NEW n \in Names, Insert(n)
  PROVE  IInv'
<1>1. children' \in Seq(Names)
  BY DEF Insert, IInv
<1>2. Range(children) \subseteq Range(children')
  <2>1. SUFFICES ASSUME NEW i \in DOMAIN children
                 PROVE  children[i] \in Range(children')
    BY DEF Range
  <2>2. i + 1 \in DOMAIN children' /\ children'[i + 1] = children[i]
    BY DEF Insert, IInv
  <2> QED
    BY <2>2 DEF Range
<1>3. \A r \in Readers : StateOK(reader'[r], children')
  BY <1>2 DEF Insert, IInv, StateOK, Fields
<1> QED
  BY <1>1, <1>3 DEF Insert, IInv

LEMMA RemoveOK ==
  ASSUME IInv, NEW n \in Names, Remove(n)
  PROVE  IInv'
<1>1. Index(n) \in DOMAIN children
  BY DEF Remove, Index, Range
<1>2. children' \in Seq(Names)
  <2>1. Index(n) \in 1 .. Len(children)
    BY <1>1 DEF IInv
  <2>2. SubSeq(children, 1, Index(n) - 1) \in Seq(Names)
    BY <2>1, SubSeqProperties DEF IInv
  <2>3. SubSeq(children, Index(n) + 1, Len(children)) \in Seq(Names)
    BY <2>1, SubSeqProperties DEF IInv
  <2> QED
    BY <2>2, <2>3, ConcatProperties DEF Remove
<1>3. \A r \in Readers : reader[r].step # "emit"
  BY DEF Remove, InCall, At
<1>4. \A r \in Readers : StateOK(reader'[r], children')
  BY <1>3 DEF Remove, IInv, StateOK, Fields
<1> QED
  BY <1>2, <1>4 DEF Remove, IInv

LEMMA OpenOK ==
  ASSUME IInv, NEW r \in Readers, Open(r)
  PROVE  IInv'
BY DEF IInv, Open, StateOK, Closed, Fields

\* The first entry of a call is found behind those that were counted before.
LEMMA EnterOK ==
  ASSUME IInv, NEW r \in Readers, Enter(r)
  PROVE  IInv'
<1> DEFINE c == reader[r]
           dots == SubSeq(Dots, c.pos + 1, 2)
           n(room) == Min({Len(dots), room})
           d(room) == Got([c EXCEPT !.pos = @ + n(room), !.room = room],
                          Range(SubSeq(dots, 1, n(room))))
<1>1. PICK room \in 1 .. MaxRoom :
        reader' = [reader EXCEPT ![r] =
          IF n(room) < Len(dots) THEN Returned(d(room))
                                 ELSE Stand(d(room), Skipped(d(room).pos) + 1)]
  BY DEF Enter
<1>2. DOMAIN c = Fields /\ c.pos \in Nat /\ children \in Seq(Names)
  BY DEF IInv, StateOK
<1>3. Len(dots) \in Nat /\ c.pos + Len(dots) >= 2
  BY <1>2, DotsLeft
<1>4. room \in Nat
  OBVIOUS
<1>5. n(room) \in {Len(dots), room} /\ n(room) <= Len(dots) /\ n(room) \in Nat
  BY <1>3, <1>4, MinOfTwo
<1>6. DOMAIN d(room) = Fields /\ d(room).pos = c.pos + n(room)
  <2>1. DOMAIN [c EXCEPT !.pos = @ + n(room), !.room = room] = Fields
    BY <1>2
  <2>2. [c EXCEPT !.pos = @ + n(room), !.room = room].pos = c.pos + n(room)
    BY <1>2 DEF Fields
  <2> HIDE DEF c, n
  <2> QED
    BY <2>1, <2>2, GotSame
<1> HIDE DEF d, n, dots, c
<1>7. CASE n(room) < Len(dots)
  <2>1. StateOK(Returned(d(room)), children)
    BY <1>2, <1>5, <1>6, ReturnedOK
  <2> QED
    BY <1>1, <1>7, <2>1 DEF IInv, Enter
<1>8. CASE ~(n(room) < Len(dots))
  <2>1. Skipped(d(room).pos) + 1 \in Nat \ {0}
    BY <1>2, <1>3, <1>5, <1>6, <1>8 DEF Skipped
  <2>2. StateOK(Stand(d(room), Skipped(d(room).pos) + 1), children)
    BY <1>2, <1>5, <1>6, <2>1, StandOK
  <2> QED
    BY <1>1, <1>8, <2>2 DEF IInv, Enter
<1> QED
  BY <1>7, <1>8

\* The walk goes from an entry of the list to the next one.
LEMMA EmitOK ==
  ASSUME IInv, NEW r \in Readers, Emit(r)
  PROVE  IInv'
<1> DEFINE c == reader[r]
           moved == [c EXCEPT !.pos = PosAfter(@)]
           e == Got(moved, {c.at})
<1>1. DOMAIN c = Fields /\ c.pos \in Nat /\ c.at \in Range(children)
      /\ children \in Seq(Names)
  BY DEF IInv, StateOK, Emit, At
<1>2. StateOK(Returned(c), children)
  BY <1>1, ReturnedOK
<1>3. Follows(c.at) \in Nat \ {0}
  <2>1. Index(c.at) \in DOMAIN children
    BY <1>1 DEF Index, Range
  <2> QED
    BY <1>1, <2>1 DEF Follows
<1>4. DOMAIN moved = Fields /\ moved.pos \in Nat
  BY <1>1 DEF PosAfter, Fields
<1>5. StateOK(Stand(e, Follows(c.at)), children)
  <2>1. DOMAIN e = Fields /\ e.pos \in Nat
    <3> HIDE DEF moved
    <3> QED
      BY <1>4, GotSame
  <2> HIDE DEF e
  <2> QED
    BY <1>1, <1>3, <2>1, StandOK
<1>6. reader' = [reader EXCEPT ![r] = IF c.room = 0 THEN Returned(c)
                                       ELSE Stand(e, Follows(c.at))]
  BY DEF Emit
<1> HIDE DEF e
<1> QED
  BY <1>2, <1>5, <1>6 DEF IInv, Emit

-----------------------------------------------------------------------------
LEMMA StepOK == IInv /\ [Next]_vars => IInv'
<1> SUFFICES ASSUME IInv, [Next]_vars PROVE IInv'
  OBVIOUS
<1>1. ASSUME NEW n \in Names, Insert(n) PROVE IInv'
  BY <1>1, InsertOK
<1>2. ASSUME NEW n \in Names, Remove(n) PROVE IInv'
  BY <1>2, RemoveOK
<1>3. ASSUME NEW r \in Readers, Open(r) PROVE IInv'
  BY <1>3, OpenOK
<1>4. ASSUME NEW r \in Readers, Read(r) PROVE IInv'
  BY <1>4, EnterOK, EmitOK DEF Read
<1>5. CASE UNCHANGED vars
  BY <1>5 DEF vars, IInv
<1> QED
  BY <1>1, <1>2, <1>3, <1>4, <1>5 DEF Next

\* The entry on which a listing stands while the store is unlocked is in the
\* directory, so it is not freed: list_for_each_entry goes on from live memory.
THEOREM WalkIsSafe == Spec => []WalkStandsOnLive
<1>1. IInv => WalkStandsOnLive
  BY DEF IInv, StateOK, WalkStandsOnLive, At
<1> QED
  BY InitOK, StepOK, <1>1, PTL DEF Spec

-----------------------------------------------------------------------------
(***************************************************************************)
(* What a listing misses and repeats.  p entries are behind the reader: it *)
(* misses what was kept among them without being seen, and will see again  *)
(* what it has seen beyond them.  While it stands on an entry with the     *)
(* store unlocked, insertions have pushed that one s places away from its  *)
(* position, and as many entries come again if the call ends there.        *)
(***************************************************************************)
Missed(c, list, p) == {n \in c.kept \ c.seen : \E i \in DOMAIN list : list[i] = n /\ i <= p}
Ahead(c, list, p) == {n \in c.seen : \E i \in DOMAIN list : list[i] = n /\ i > p}

Counts(c, list, p, s) ==
  /\ c.removed < MaxCount => Cardinality(Missed(c, list, p)) <= c.removed
  /\ c.added < MaxCount => c.repeated + Cardinality(Ahead(c, list, p)) + s <= c.added

\* The entries that are counted as passed at a position.
Before(pos) == IF pos < 2 THEN 0 ELSE pos - 2

State == [step: {"done", "user", "emit"}, pos: 0 .. Cardinality(Names) + 2, at: Names \cup {NULL},
          room: 0 .. MaxRoom, got: 0 .. MaxRoom, seen: SUBSET (Names \cup Range(Dots)),
          repeated: 0 .. MaxCount, kept: SUBSET Names, added: 0 .. MaxCount, removed: 0 .. MaxCount]

\* The dots behind the position have not been seen, what was kept is there.
Going(c, list) ==
  /\ c.pos < 1 => "." \notin c.seen
  /\ c.pos < 2 => ".." \notin c.seen
  /\ c.kept \subseteq Range(list)

Ended(c) ==
  /\ c.removed < MaxCount => Cardinality(c.kept \ c.seen) <= c.removed
  /\ c.added < MaxCount => c.repeated <= c.added

Waiting(c, list) == Going(c, list) /\ c.got = 0 /\ Counts(c, list, Before(c.pos), 0)

Emitting(c, list) ==
  /\ Going(c, list) /\ c.pos >= 2 /\ c.got + c.room \in 1 .. MaxRoom
  /\ \E k \in DOMAIN list : list[k] = c.at /\ c.pos <= k + 1 /\ Counts(c, list, k - 1, k + 1 - c.pos)

Listing(c, list) ==
  /\ c \in State
  /\ \/ c.step = "done" /\ Ended(c)
     \/ c.step = "user" /\ Waiting(c, list)
     \/ c.step = "emit" /\ Emitting(c, list)

Distinct(list) == \A i, j \in DOMAIN list : list[i] = list[j] => i = j

List(list) == list \in Seq(Names) /\ Distinct(list)

LInv ==
  /\ List(children) /\ reader = [r \in Readers |-> reader[r]]
  /\ \A r \in Readers : Listing(reader[r], children)

-----------------------------------------------------------------------------
LEMMA ListFits ==
  ASSUME NEW list, List(list)
  PROVE  Len(list) \in Nat /\ DOMAIN list = 1 .. Len(list) /\ Len(list) <= Cardinality(Names)
         /\ Cardinality(Names) \in Nat
<1>1. list \in [1 .. Len(list) -> Names] /\ Len(list) \in Nat
  BY DEF List
<1>2. IsFiniteSet(Names) /\ Cardinality(Names) \in Nat
  BY ReaddirAssumption, FS_CardinalityType
<1>3. list \in Injection(1 .. Len(list), Names)
  BY <1>1 DEF List, Distinct, Injection, IsInjective
<1>4. Cardinality(1 .. Len(list)) <= Cardinality(Names)
  BY <1>2, <1>3, FS_Injection
<1>5. Cardinality(1 .. Len(list)) = Len(list)
  <2>1. PICK n \in Nat : n = Len(list)  BY <1>1
  <2>2. Cardinality(1 .. n) = (IF 1 > n THEN 0 ELSE n - 1 + 1)
    <3>1. 1 \in Int /\ n \in Int  OBVIOUS
    <3> QED  BY <3>1, FS_Interval
  <2> QED  BY <2>1, <2>2
<1> QED  BY <1>1, <1>2, <1>4, <1>5

\* The sets that are counted are finite.
LEMMA CountedFinite ==
  ASSUME NEW c \in State, NEW list, NEW p
  PROVE  /\ IsFiniteSet(c.seen) /\ IsFiniteSet(c.kept)
         /\ IsFiniteSet(Missed(c, list, p)) /\ Cardinality(Missed(c, list, p)) \in Nat
         /\ IsFiniteSet(Ahead(c, list, p)) /\ Cardinality(Ahead(c, list, p)) \in Nat
<1>1. c.seen \subseteq Names \cup {".", ".."} /\ c.kept \subseteq Names
  BY DEF State, Dots, Range
<1>2. IsFiniteSet(Names)  BY ReaddirAssumption
<1>3. IsFiniteSet({".", ".."})
  <2>1. IsFiniteSet({"."})  BY FS_Singleton
  <2>2. IsFiniteSet({"."} \cup {".."})  BY <2>1, FS_AddElement
  <2>3. {"."} \cup {".."} = {".", ".."}  OBVIOUS
  <2> QED  BY <2>2, <2>3
<1>4. IsFiniteSet(Names \cup {".", ".."})  BY <1>2, <1>3, FS_Union
<1>5. IsFiniteSet(c.seen)  BY <1>1, <1>4, FS_Subset
<1>6. IsFiniteSet(c.kept)  BY <1>1, <1>2, FS_Subset
<1>7. IsFiniteSet(Missed(c, list, p))
  <2>1. Missed(c, list, p) \in SUBSET c.kept  BY DEF Missed
  <2> QED  BY <1>6, <2>1, FS_Subset
<1>8. IsFiniteSet(Ahead(c, list, p))
  <2>1. Ahead(c, list, p) \in SUBSET c.seen  BY DEF Ahead
  <2> QED  BY <1>5, <2>1, FS_Subset
<1> QED  BY <1>5, <1>6, <1>7, <1>8, FS_CardinalityType

LEMMA FewerOrOneMore ==
  ASSUME NEW S, NEW T, IsFiniteSet(S)
  PROVE  /\ T \subseteq S => Cardinality(T) <= Cardinality(S)
         /\ \A x : T \subseteq S \cup {x} => Cardinality(T) <= Cardinality(S) + 1
<1>1. T \subseteq S => Cardinality(T) <= Cardinality(S)
  BY FS_Subset
<1>2. ASSUME NEW x, T \subseteq S \cup {x} PROVE Cardinality(T) <= Cardinality(S) + 1
  <2>1. PICK U : U = S \cup {x}  OBVIOUS
  <2>2. IsFiniteSet(U) /\ Cardinality(U) = IF x \in S THEN Cardinality(S) ELSE Cardinality(S) + 1
    BY <2>1, FS_AddElement
  <2>3. T \in SUBSET U  BY <1>2, <2>1
  <2>4. IsFiniteSet(T) /\ Cardinality(T) <= Cardinality(U)  BY <2>2, <2>3, FS_Subset
  <2>5. Cardinality(T) \in Nat /\ Cardinality(U) \in Nat /\ Cardinality(S) \in Nat
    BY <2>2, <2>4, FS_CardinalityType
  <2> QED  BY <2>2, <2>4, <2>5
<1> QED  BY <1>1, <1>2

\* At most s entries lie on s places of a list.
LEMMA Between ==
  ASSUME NEW list, NEW p \in Nat, NEW s \in Nat, s <= p
  PROVE  LET S == {list[i] : i \in {j \in DOMAIN list : j \in p - s + 1 .. p}}
         IN  IsFiniteSet(S) /\ Cardinality(S) <= s
<1> DEFINE I == {j \in DOMAIN list : j \in p - s + 1 .. p}
           S == {list[i] : i \in I}
           f == [i \in I |-> list[i]]
<1>1. PICK a \in Int : a = p - s + 1  OBVIOUS
<1>2. IsFiniteSet(a .. p) /\ Cardinality(a .. p) = (IF a <= p THEN p - a + 1 ELSE 0)
  BY FS_Interval
<1>3. Cardinality(a .. p) = s  BY <1>1, <1>2
<1>4. I \in SUBSET (a .. p)  BY <1>1
<1> HIDE DEF I
<1>5. IsFiniteSet(I) /\ Cardinality(I) <= s  BY <1>2, <1>3, <1>4, FS_Subset
<1>6. f \in Surjection(I, S)  BY DEF Surjection
<1> HIDE DEF f, S
<1>7. IsFiniteSet(S) /\ Cardinality(S) <= Cardinality(I)  BY <1>5, <1>6, FS_Surjection
<1>8. Cardinality(S) \in Nat /\ Cardinality(I) \in Nat  BY <1>5, <1>7, FS_CardinalityType
<1> QED  BY <1>5, <1>7, <1>8 DEF S, I

\* A call that ends s places behind its position goes back as far.
LEMMA GoBack ==
  ASSUME NEW c \in State, NEW list, List(list), NEW p \in Nat, NEW s \in Nat, s <= p,
         Counts(c, list, p, s)
  PROVE  Counts(c, list, p - s, 0)
<1> DEFINE B == {list[i] : i \in {j \in DOMAIN list : j \in p - s + 1 .. p}}
<1>0. Len(list) \in Nat /\ DOMAIN list = 1 .. Len(list)
  BY ListFits
<1>1. Missed(c, list, p - s) \subseteq Missed(c, list, p)
  BY <1>0 DEF Missed
<1>2. Ahead(c, list, p - s) \subseteq Ahead(c, list, p) \cup B
  <2>1. ASSUME NEW n \in c.seen, NEW i \in DOMAIN list, list[i] = n, i > p - s
        PROVE  n \in Ahead(c, list, p) \cup B
    <3>1. CASE i > p  BY <2>1, <3>1 DEF Ahead
    <3>2. CASE ~(i > p)
      <4>1. i \in p - s + 1 .. p  BY <1>0, <2>1, <3>2
      <4> QED  BY <2>1, <4>1
    <3> QED  BY <3>1, <3>2
  <2> HIDE DEF B
  <2> QED  BY <2>1 DEF Ahead
<1>3. IsFiniteSet(B) /\ Cardinality(B) <= s  BY Between
<1> HIDE DEF B
<1>4. Cardinality(Missed(c, list, p - s)) <= Cardinality(Missed(c, list, p))
  BY <1>1, CountedFinite, FewerOrOneMore
<1>5. Cardinality(Ahead(c, list, p - s)) <= Cardinality(Ahead(c, list, p)) + s
  <2>1. PICK A : A = Ahead(c, list, p)  OBVIOUS
  <2>2. PICK D : D = Ahead(c, list, p - s)  OBVIOUS
  <2>3. IsFiniteSet(A) /\ Cardinality(A) \in Nat  BY <2>1, CountedFinite
  <2>4. IsFiniteSet(D) /\ Cardinality(D) \in Nat  BY <2>2, CountedFinite
  <2>5. Cardinality(B) \in Nat  BY <1>3, FS_CardinalityType
  <2>6. PICK U : U = A \cup B  OBVIOUS
  <2>7. IsFiniteSet(U) /\ Cardinality(U) = Cardinality(A) + Cardinality(B) - Cardinality(A \cap B)
    BY <1>3, <2>3, <2>6, FS_Union
  <2>8. Cardinality(A \cap B) \in Nat
    <3>1. IsFiniteSet(A \cap B)  BY <2>3, FS_Intersection
    <3> QED  BY <3>1, FS_CardinalityType
  <2>9. D \in SUBSET U  BY <1>2, <2>1, <2>2, <2>6
  <2>10. Cardinality(D) <= Cardinality(U) /\ Cardinality(U) \in Nat
    BY <2>7, <2>9, FS_Subset, FS_CardinalityType
  <2>11. Cardinality(D) <= Cardinality(A) + s
    BY <1>3, <2>3, <2>4, <2>5, <2>7, <2>8, <2>10
  <2> QED  BY <2>1, <2>2, <2>11
<1>6. /\ c.removed \in Nat /\ c.added \in Nat /\ c.repeated \in Nat
      /\ Cardinality(Missed(c, list, p)) \in Nat /\ Cardinality(Ahead(c, list, p)) \in Nat
      /\ Cardinality(Missed(c, list, p - s)) \in Nat /\ Cardinality(Ahead(c, list, p - s)) \in Nat
  BY CountedFinite DEF State
<1> QED  BY <1>4, <1>5, <1>6 DEF Counts

LEMMA PlusType ==
  ASSUME NEW n \in 0 .. MaxCount
  PROVE  /\ Plus(n, 0) = n /\ Plus(n, 1) \in 0 .. MaxCount
         /\ Plus(n, 1) < MaxCount => Plus(n, 1) = n + 1 /\ n < MaxCount
         /\ n < MaxCount => Plus(n, 1) = n + 1
BY ReaddirAssumption DEF Plus

\* The counts are of what was seen and kept, not of where the call stands.
LEMMA CountsSame ==
  ASSUME NEW c, NEW d, NEW list, NEW p, NEW s, Counts(c, list, p, s),
         d.seen = c.seen, d.kept = c.kept, d.repeated = c.repeated,
         d.added = c.added, d.removed = c.removed
  PROVE  Counts(d, list, p, s)
<1>1. Missed(d, list, p) = Missed(c, list, p)  BY DEF Missed
<1>2. Ahead(d, list, p) = Ahead(c, list, p)  BY DEF Ahead
<1> QED  BY <1>1, <1>2 DEF Counts

\* A call that returns, with or without an entry.
LEMMA ReturnedListing ==
  ASSUME NEW c \in State, NEW list, List(list), Going(c, list), NEW p \in Nat, NEW s \in Nat,
         Counts(c, list, p, s), s <= p, p - s = Before(c.pos), c.got = 0 => p >= Len(list)
  PROVE  Listing(Returned(c), list)
<1> DEFINE d == Returned(c)
<1>1. /\ d.seen = c.seen /\ d.kept = c.kept /\ d.repeated = c.repeated
      /\ d.added = c.added /\ d.removed = c.removed /\ d.pos = c.pos
      /\ d.got = 0 /\ d.step = IF c.got = 0 THEN "done" ELSE "user"
  BY DEF Returned, State
<1>2. d \in State
  <2>1. 0 \in 0 .. MaxRoom  BY ReaddirAssumption
  <2>2. NULL \in Names \cup {NULL}  OBVIOUS
  <2>3. (IF c.got = 0 THEN "done" ELSE "user") \in {"done", "user", "emit"}  OBVIOUS
  <2> QED  BY <2>1, <2>2, <2>3 DEF Returned, State
<1> HIDE DEF d
<1>3. CASE c.got # 0
  <2>1. Counts(c, list, p - s, 0)  BY GoBack
  <2>2. Counts(d, list, Before(d.pos), 0)  BY <1>1, <2>1, CountsSame
  <2>3. Going(d, list)  BY <1>1 DEF Going
  <2> QED  BY <1>1, <1>2, <1>3, <2>2, <2>3 DEF Listing, Waiting, d
<1>4. CASE c.got = 0
  <2>1. Len(list) \in Nat /\ DOMAIN list = 1 .. Len(list)  BY ListFits
  <2>2. Missed(c, list, p) = c.kept \ c.seen
    <3>1. ASSUME NEW n \in c.kept PROVE \E i \in DOMAIN list : list[i] = n /\ i <= p
      <4>1. n \in Range(list)  BY DEF Going
      <4>2. PICK i \in DOMAIN list : list[i] = n  BY <4>1 DEF Range
      <4>3. i <= p  BY <1>4, <2>1
      <4> QED  BY <4>2, <4>3
    <3> QED  BY <3>1 DEF Missed
  <2>3. Cardinality(Ahead(c, list, p)) \in Nat /\ c.repeated \in Nat /\ c.added \in Nat
    BY CountedFinite DEF State
  <2>4. Ended(c)  BY <2>2, <2>3 DEF Counts, Ended
  <2>5. Ended(d)  BY <1>1, <2>4 DEF Ended
  <2> QED  BY <1>1, <1>2, <1>4, <2>5 DEF Listing, d
<1> QED  BY <1>3, <1>4

\* The walk comes to stand on the i-th entry, or behind the last one.
LEMMA StandListing ==
  ASSUME List(children), NEW c \in State, Going(c, children), c.pos >= 2,
         c.got + c.room \in 1 .. MaxRoom, NEW i \in Nat \ {0}, c.pos <= i + 1,
         Counts(c, children, i - 1, i + 1 - c.pos)
  PROVE  Listing(Stand(c, i), children)
<1>0. Len(children) \in Nat /\ DOMAIN children = 1 .. Len(children)
  BY ListFits
<1>1. c.pos \in Nat /\ c.got \in Nat /\ c.room \in Nat
  BY ReaddirAssumption, ListFits DEF State
<1>2. CASE i <= Len(children)
  <2> DEFINE d == [c EXCEPT !.step = "emit", !.at = children[i]]
  <2>1. children[i] \in Names  BY <1>0, <1>2 DEF List
  <2>2. /\ d.seen = c.seen /\ d.kept = c.kept /\ d.repeated = c.repeated
        /\ d.added = c.added /\ d.removed = c.removed /\ d.pos = c.pos
        /\ d.got = c.got /\ d.room = c.room /\ d.step = "emit" /\ d.at = children[i]
    BY DEF State
  <2>3. d \in State  BY <2>1 DEF State
  <2>4. Stand(c, i) = d  BY <1>2 DEF Stand
  <2> HIDE DEF d
  <2>5. Going(d, children)  BY <2>2 DEF Going
  <2>6. Counts(d, children, i - 1, i + 1 - d.pos)  BY <2>2, CountsSame
  <2>7. Emitting(d, children)
    <3>1. i \in DOMAIN children /\ children[i] = d.at /\ d.pos <= i + 1 /\ d.pos >= 2
          /\ d.got + d.room \in 1 .. MaxRoom
      BY <1>0, <1>2, <2>2
    <3> QED  BY <2>5, <2>6, <3>1 DEF Emitting
  <2> QED  BY <2>2, <2>3, <2>4, <2>7 DEF Listing
<1>3. CASE ~(i <= Len(children))
  <2>1. PICK p \in Nat : p = i - 1  OBVIOUS
  <2>2. PICK s \in Nat : s = i + 1 - c.pos  BY <1>1
  <2>3. s <= p /\ p - s = Before(c.pos) /\ p >= Len(children)
    <3>1. PICK y \in Nat : y = c.pos  BY <1>1
    <3>2. y >= 2 /\ y <= i + 1 /\ s = i + 1 - y  BY <1>1, <2>2, <3>1
    <3>3. Before(c.pos) = y - 2  BY <3>1, <3>2 DEF Before
    <3>4. s <= p /\ p - s = y - 2  BY <2>1, <3>2
    <3>5. p >= Len(children)  BY <1>0, <1>3, <2>1
    <3> QED  BY <3>3, <3>4, <3>5
  <2>4. Counts(c, children, p, s)  BY <2>1, <2>2
  <2>5. Listing(Returned(c), children)  BY <2>3, <2>4, ReturnedListing
  <2> QED  BY <1>3, <2>5 DEF Stand
<1> QED  BY <1>2, <1>3

\* A listing that is not going on is not touched by the list.
LEMMA DoneListing ==
  ASSUME NEW c, NEW list, NEW other, Listing(c, list), c.step = "done"
  PROVE  Listing(c, other)
BY DEF Listing

-----------------------------------------------------------------------------
(***************************************************************************)
(* The list grows and shrinks under the listings.                          *)
(***************************************************************************)

LEMMA Prepended ==
  ASSUME NEW list, List(list), NEW n \in Names, n \notin Range(list)
  PROVE  /\ List(<<n>> \o list) /\ Range(list) \subseteq Range(<<n>> \o list)
         /\ (<<n>> \o list)[1] = n /\ DOMAIN (<<n>> \o list) = 1 .. Len(list) + 1
         /\ \A i \in DOMAIN list : (<<n>> \o list)[i + 1] = list[i]
         /\ \A i \in DOMAIN (<<n>> \o list) : i = 1 \/ (i - 1 \in DOMAIN list /\ (<<n>> \o list)[i] = list[i - 1])
<1> DEFINE new == <<n>> \o list
<1>0. Len(list) \in Nat /\ DOMAIN list = 1 .. Len(list) /\ list \in Seq(Names)
  BY ListFits DEF List
<1>1. new \in Seq(Names) /\ Len(new) = Len(list) + 1 /\ DOMAIN new = 1 .. Len(list) + 1
  BY <1>0
<1>2. new[1] = n  BY <1>0
<1>3. \A i \in DOMAIN list : new[i + 1] = list[i]  BY <1>0
<1>4. \A i \in DOMAIN new : i = 1 \/ (i - 1 \in DOMAIN list /\ new[i] = list[i - 1])
  BY <1>0, <1>1
<1> HIDE DEF new
<1>5. \A i \in DOMAIN list : list[i] # n  BY DEF Range
<1>6. Distinct(new)
  <2>1. ASSUME NEW i \in DOMAIN new, NEW j \in DOMAIN new, new[i] = new[j] PROVE i = j
    <3>1. CASE i = 1 /\ j = 1  BY <3>1
    <3>2. CASE i = 1 /\ j # 1  BY <1>2, <1>4, <1>5, <2>1, <3>2
    <3>3. CASE i # 1 /\ j = 1  BY <1>2, <1>4, <1>5, <2>1, <3>3
    <3>4. CASE i # 1 /\ j # 1
      <4>1. i - 1 = j - 1  BY <1>4, <2>1, <3>4 DEF List, Distinct
      <4> QED  BY <1>0, <1>1, <4>1
    <3> QED  BY <3>1, <3>2, <3>3, <3>4
  <2> QED  BY <2>1 DEF Distinct
<1>7. Range(list) \subseteq Range(new)
  <2>1. ASSUME NEW i \in DOMAIN list PROVE list[i] \in Range(new)
    <3>1. i + 1 \in DOMAIN new  BY <1>0, <1>1
    <3> QED  BY <1>3, <3>1 DEF Range
  <2> QED  BY <2>1 DEF Range
<1> QED  BY <1>1, <1>2, <1>3, <1>4, <1>6, <1>7 DEF List, new

\* One listing while an entry is put at the head.
LEMMA ListingGrows ==
  ASSUME NEW list, List(list), NEW n \in Names, n \notin Range(list), NEW c, Listing(c, list),
         c.step # "done"
  PROVE  Listing([c EXCEPT !.added = Plus(@, 1)], <<n>> \o list)
<1>0. PICK new : new = <<n>> \o list  OBVIOUS
<1>1. /\ List(new) /\ Range(list) \subseteq Range(new) /\ new[1] = n /\ DOMAIN new = 1 .. Len(list) + 1
      /\ \A i \in DOMAIN list : new[i + 1] = list[i]
      /\ \A i \in DOMAIN new : i = 1 \/ (i - 1 \in DOMAIN list /\ new[i] = list[i - 1])
  BY <1>0, Prepended
<1>2. Len(list) \in Nat /\ DOMAIN list = 1 .. Len(list)  BY ListFits
<1>3. c \in State  BY DEF Listing
<1>4. c.added \in 0 .. MaxCount /\ c.added \in Nat /\ c.removed \in Nat /\ c.repeated \in Nat
      /\ c.pos \in Nat
  BY <1>3, ListFits, ReaddirAssumption DEF State
<1>5. PICK d : d = [c EXCEPT !.added = Plus(@, 1)]  OBVIOUS
<1>6. /\ d.seen = c.seen /\ d.kept = c.kept /\ d.repeated = c.repeated /\ d.step = c.step
      /\ d.added = Plus(c.added, 1) /\ d.removed = c.removed /\ d.pos = c.pos
      /\ d.got = c.got /\ d.room = c.room /\ d.at = c.at
  BY <1>3, <1>5 DEF State
<1>7. d \in State
  <2>1. PICK m \in 0 .. MaxCount : m = Plus(c.added, 1)  BY <1>4, PlusType
  <2>2. d = [c EXCEPT !.added = m]  BY <1>5, <2>1
  <2> QED  BY <1>3, <2>2 DEF State
<1>8. Going(c, list)  BY DEF Listing, Waiting, Emitting
<1>9. Going(d, new)  BY <1>1, <1>6, <1>8 DEF Going
<1>10. d.added < MaxCount => d.added = c.added + 1 /\ c.added < MaxCount
  BY <1>4, <1>6, PlusType
<1>11. n \notin c.kept  BY <1>8 DEF Going
<1>12. ASSUME NEW p \in Nat, NEW q \in Nat, q = p \/ q = p + 1
       PROVE  Missed(d, new, q) \subseteq Missed(c, list, p)
  <2>1. ASSUME NEW m \in c.kept \ c.seen, NEW i \in DOMAIN new, new[i] = m, i <= q
        PROVE  m \in Missed(c, list, p)
    <3>1. i # 1  BY <1>1, <1>11, <2>1
    <3>2. i - 1 \in DOMAIN list /\ new[i] = list[i - 1]  BY <1>1, <3>1
    <3>3. i - 1 <= p  BY <1>1, <1>2, <1>12, <2>1
    <3> QED  BY <2>1, <3>2, <3>3 DEF Missed
  <2> QED  BY <1>6, <2>1 DEF Missed
<1>13. CASE c.step = "user"
  <2>1. Waiting(c, list)  BY <1>13 DEF Listing
  <2>2. PICK p \in Nat : p = Before(c.pos)  BY <1>4 DEF Before
  <2>3. Ahead(d, new, p) \subseteq Ahead(c, list, p) \cup {new[p + 1]}
    <3>1. ASSUME NEW m \in c.seen, NEW i \in DOMAIN new, new[i] = m, i > p, i # p + 1
          PROVE  m \in Ahead(c, list, p)
      <4>1. i \in Int  BY <1>1, <1>2
      <4>2. i # 1 /\ i - 1 > p  BY <3>1, <4>1
      <4>3. i - 1 \in DOMAIN list /\ new[i] = list[i - 1]  BY <1>1, <4>2
      <4> QED  BY <3>1, <4>2, <4>3 DEF Ahead
    <3> QED  BY <1>6, <3>1 DEF Ahead
  <2>4. Cardinality(Ahead(d, new, p)) <= Cardinality(Ahead(c, list, p)) + 1
    BY <1>3, <2>3, CountedFinite, FewerOrOneMore
  <2>5. Cardinality(Missed(d, new, p)) <= Cardinality(Missed(c, list, p))
    BY <1>3, <1>12, CountedFinite, FewerOrOneMore
  <2>6. /\ Cardinality(Missed(d, new, p)) \in Nat /\ Cardinality(Ahead(d, new, p)) \in Nat
        /\ Cardinality(Missed(c, list, p)) \in Nat /\ Cardinality(Ahead(c, list, p)) \in Nat
    BY <1>3, <1>7, CountedFinite
  <2>7. Counts(c, list, p, 0)  BY <2>1, <2>2 DEF Waiting
  <2>8. Counts(d, new, p, 0)
    BY <1>4, <1>6, <1>10, <2>4, <2>5, <2>6, <2>7 DEF Counts
  <2>9. Waiting(d, new)  BY <1>6, <1>9, <2>1, <2>2, <2>8 DEF Waiting
  <2> QED  BY <1>0, <1>5, <1>6, <1>7, <1>13, <2>9 DEF Listing
<1>14. CASE c.step = "emit"
  <2>1. Emitting(c, list)  BY <1>14 DEF Listing
  <2>2. PICK k \in DOMAIN list :
          list[k] = c.at /\ c.pos <= k + 1 /\ Counts(c, list, k - 1, k + 1 - c.pos)
    BY <2>1 DEF Emitting
  <2>3. k \in Nat /\ k >= 1  BY <1>2
  <2>4. PICK p \in Nat : p = k - 1  BY <2>3
  <2>5. PICK s \in Nat : s = k + 1 - c.pos  BY <1>4, <2>2, <2>3
  <2>6. Ahead(d, new, k) \subseteq Ahead(c, list, p)
    <3>1. ASSUME NEW m \in c.seen, NEW i \in DOMAIN new, new[i] = m, i > k
          PROVE  m \in Ahead(c, list, p)
      <4>1. i \in Int  BY <1>1, <1>2
      <4>2. i # 1 /\ i - 1 > p  BY <2>3, <2>4, <3>1, <4>1
      <4>3. i - 1 \in DOMAIN list /\ new[i] = list[i - 1]  BY <1>1, <4>2
      <4> QED  BY <3>1, <4>2, <4>3 DEF Ahead
    <3> QED  BY <1>6, <3>1 DEF Ahead
  <2>7. Cardinality(Ahead(d, new, k)) <= Cardinality(Ahead(c, list, p))
    BY <1>3, <2>6, CountedFinite, FewerOrOneMore
  <2>8. Cardinality(Missed(d, new, k)) <= Cardinality(Missed(c, list, p))
    <3>1. Missed(d, new, k) \subseteq Missed(c, list, p)  BY <1>12, <2>3, <2>4
    <3> QED  BY <1>3, <3>1, CountedFinite, FewerOrOneMore
  <2>9. /\ Cardinality(Missed(d, new, k)) \in Nat /\ Cardinality(Ahead(d, new, k)) \in Nat
        /\ Cardinality(Missed(c, list, p)) \in Nat /\ Cardinality(Ahead(c, list, p)) \in Nat
    BY <1>3, <1>7, CountedFinite
  <2>10. Counts(c, list, p, s)  BY <2>2, <2>4, <2>5
  <2>11. Counts(d, new, k, s + 1)
    BY <1>4, <1>6, <1>10, <2>7, <2>8, <2>9, <2>10 DEF Counts
  <2>12. Emitting(d, new)
    <3>1. k + 1 \in DOMAIN new /\ new[k + 1] = d.at  BY <1>1, <1>2, <1>6, <2>2
    <3>2. (k + 1) - 1 = k /\ (k + 1) + 1 - d.pos = s + 1 /\ d.pos <= (k + 1) + 1
      BY <1>4, <1>6, <2>2, <2>3, <2>5
    <3>3. d.pos >= 2 /\ d.got + d.room \in 1 .. MaxRoom  BY <1>6, <2>1 DEF Emitting
    <3>4. Counts(d, new, (k + 1) - 1, (k + 1) + 1 - d.pos)  BY <2>11, <3>2
    <3> QED  BY <1>9, <3>1, <3>2, <3>3, <3>4 DEF Emitting
  <2> QED  BY <1>0, <1>5, <1>6, <1>7, <1>14, <2>12 DEF Listing
<1> QED  BY <1>13, <1>14 DEF Listing


\* The list without its k-th entry.
Without(list, k) == SubSeq(list, 1, k - 1) \o SubSeq(list, k + 1, Len(list))

LEMMA Shortened ==
  ASSUME NEW list, List(list), NEW k \in DOMAIN list, NEW new, new = Without(list, k)
  PROVE  /\ List(new) /\ Len(list) \in Nat /\ Len(list) >= 1
         /\ DOMAIN new = 1 .. Len(list) - 1 /\ DOMAIN list = 1 .. Len(list)
         /\ \A i \in DOMAIN new : new[i] = IF i < k THEN list[i] ELSE list[i + 1]
         /\ Range(list) \ {list[k]} \subseteq Range(new)
<1>0. Len(list) \in Nat /\ DOMAIN list = 1 .. Len(list) /\ list \in Seq(Names) /\ k \in Nat /\ k >= 1
      /\ k <= Len(list)
  BY ListFits DEF List
<1>1. PICK a : a = SubSeq(list, 1, k - 1)  OBVIOUS
<1>2. PICK b : b = SubSeq(list, k + 1, Len(list))  OBVIOUS
<1>3. a \in Seq(Names) /\ Len(a) = k - 1 /\ \A i \in 1 .. k - 1 : a[i] = list[i]
  <2>1. PICK m \in Int : m = k - 1  BY <1>0
  <2>2. \A i \in 1 .. m : list[i] \in Names  BY <1>0, <2>1
  <2>3. /\ SubSeq(list, 1, m) \in Seq(Names)
        /\ Len(SubSeq(list, 1, m)) = (IF 1 <= m THEN m - 1 + 1 ELSE 0)
        /\ \A i \in 1 .. m - 1 + 1 : SubSeq(list, 1, m)[i] = list[1 + i - 1]
    <3>1. 1 \in Int  OBVIOUS
    <3> QED  BY <2>2, <3>1, SubSeqProperties
  <2>4. \A i \in 1 .. m : 1 + i - 1 = i /\ i \in 1 .. m - 1 + 1  BY <2>1
  <2>5. (IF 1 <= m THEN m - 1 + 1 ELSE 0) = m  BY <1>0, <2>1
  <2>6. \A i \in 1 .. m : a[i] = list[i]  BY <1>1, <2>1, <2>3, <2>4
  <2> QED  BY <1>1, <2>1, <2>3, <2>5, <2>6
<1>4. b \in Seq(Names) /\ Len(b) = Len(list) - k /\ \A i \in 1 .. Len(list) - k : b[i] = list[k + i]
  <2>1. PICK m \in Int : m = k + 1  BY <1>0
  <2>2. PICK h \in Int : h = Len(list)
    <3>1. Len(list) \in Int  BY <1>0
    <3> QED  BY <3>1, Zenon
  <2>3. \A i \in m .. h : list[i] \in Names  BY <1>0, <2>1, <2>2
  <2>4. /\ SubSeq(list, m, h) \in Seq(Names)
        /\ Len(SubSeq(list, m, h)) = (IF m <= h THEN h - m + 1 ELSE 0)
        /\ \A i \in 1 .. h - m + 1 : SubSeq(list, m, h)[i] = list[m + i - 1]
    BY <2>3, SubSeqProperties
  <2>5. (IF m <= h THEN h - m + 1 ELSE 0) = Len(list) - k  BY <1>0, <2>1, <2>2
  <2>6. \A i \in 1 .. Len(list) - k : m + i - 1 = k + i /\ i \in 1 .. h - m + 1  BY <1>0, <2>1, <2>2
  <2>7. b = SubSeq(list, m, h)  BY <1>2, <2>1, <2>2
  <2>8. \A i \in 1 .. Len(list) - k : b[i] = list[k + i]  BY <2>4, <2>6, <2>7
  <2> QED  BY <2>4, <2>5, <2>7, <2>8
<1>5. /\ new \in Seq(Names) /\ Len(new) = Len(list) - 1
      /\ \A i \in 1 .. Len(new) : new[i] = IF i <= Len(a) THEN a[i] ELSE b[i - Len(a)]
  <2>1. new = a \o b  BY <1>1, <1>2 DEF Without
  <2>2. Len(a) + Len(b) = Len(list) - 1  BY <1>0, <1>3, <1>4
  <2>3. /\ a \o b \in Seq(Names) /\ Len(a \o b) = Len(a) + Len(b)
        /\ \A i \in 1 .. Len(a) + Len(b) : (a \o b)[i] = IF i <= Len(a) THEN a[i] ELSE b[i - Len(a)]
    BY <1>3, <1>4, ConcatProperties
  <2> QED  BY <2>1, <2>2, <2>3
<1>6. DOMAIN new = 1 .. Len(list) - 1  BY <1>5
<1>7. ASSUME NEW i \in DOMAIN new PROVE new[i] = IF i < k THEN list[i] ELSE list[i + 1]
  <2>1. i \in Nat /\ i >= 1 /\ i <= Len(list) - 1  BY <1>0, <1>6
  <2>2. CASE i < k
    <3>1. i <= Len(a) /\ i \in 1 .. k - 1  BY <1>0, <1>3, <2>1, <2>2
    <3> QED  BY <1>3, <1>5, <1>6, <2>2, <3>1
  <2>3. CASE ~(i < k)
    <3>1. ~(i <= Len(a)) /\ i - Len(a) = i - k + 1 /\ i - k + 1 \in 1 .. Len(list) - k
          /\ k + (i - k + 1) = i + 1
      BY <1>0, <1>3, <2>1, <2>3
    <3>2. new[i] = b[i - k + 1]  BY <1>5, <1>6, <3>1
    <3>3. b[i - k + 1] = list[i + 1]
      <4>1. PICK j \in 1 .. Len(list) - k : j = i - k + 1  BY <3>1
      <4>2. b[j] = list[k + j]  BY <1>4
      <4>3. k + j = i + 1  BY <3>1, <4>1
      <4> QED  BY <4>1, <4>2, <4>3
    <3> QED  BY <2>3, <3>2, <3>3
  <2> QED  BY <2>2, <2>3
<1>8. Distinct(new)
  <2>1. ASSUME NEW i \in DOMAIN new, NEW j \in DOMAIN new, new[i] = new[j] PROVE i = j
    <3>1. PICK s \in DOMAIN list : s = IF i < k THEN i ELSE i + 1  BY <1>0, <1>6
    <3>2. PICK t \in DOMAIN list : t = IF j < k THEN j ELSE j + 1  BY <1>0, <1>6
    <3>3. list[s] = new[i]  BY <1>7, <3>1
    <3>4. list[t] = new[j]  BY <1>7, <3>2
    <3>5. s = t  BY <2>1, <3>3, <3>4 DEF List, Distinct
    <3>6. i \in Int /\ j \in Int  BY <1>0, <1>6
    <3> QED  BY <1>0, <3>1, <3>2, <3>5, <3>6
  <2> QED  BY <2>1 DEF Distinct
<1>9. Range(list) \ {list[k]} \subseteq Range(new)
  <2>1. ASSUME NEW i \in DOMAIN list, i # k PROVE list[i] \in Range(new)
    <3>1. i \in Nat /\ i >= 1 /\ i <= Len(list)  BY <1>0
    <3>2. CASE i < k
      <4>1. i \in DOMAIN new  BY <1>0, <1>6, <3>1, <3>2
      <4>2. new[i] = list[i]  BY <1>7, <3>2, <4>1
      <4> QED  BY <4>1, <4>2 DEF Range
    <3>3. CASE i > k
      <4>1. PICK j \in DOMAIN new : j = i - 1  BY <1>0, <1>6, <3>1, <3>3
      <4>2. ~(j < k) /\ j + 1 = i  BY <1>0, <3>1, <3>3, <4>1
      <4>3. new[j] = list[i]  BY <1>7, <4>2
      <4> QED  BY <4>3 DEF Range
    <3> QED  BY <1>0, <2>1, <3>1, <3>2, <3>3
  <2> QED  BY <2>1 DEF Range
<1>10. Len(list) >= 1  BY <1>0
<1> QED  BY <1>0, <1>5, <1>6, <1>7, <1>8, <1>9, <1>10 DEF List

\* One listing while an entry is taken from the list.
LEMMA ListingShrinks ==
  ASSUME NEW list, List(list), NEW k \in DOMAIN list, NEW new, new = Without(list, k),
         NEW c, Listing(c, list), c.step = "user"
  PROVE  Listing([c EXCEPT !.removed = Plus(@, 1), !.kept = @ \ {list[k]}], new)
<1>1. /\ List(new) /\ Len(list) \in Nat
      /\ DOMAIN new = 1 .. Len(list) - 1 /\ DOMAIN list = 1 .. Len(list)
      /\ \A i \in DOMAIN new : new[i] = IF i < k THEN list[i] ELSE list[i + 1]
      /\ Range(list) \ {list[k]} \subseteq Range(new)
  BY Shortened
<1>2. c \in State  BY DEF Listing
<1>3. c.removed \in 0 .. MaxCount /\ c.added \in Nat /\ c.removed \in Nat /\ c.repeated \in Nat
      /\ c.pos \in Nat
  BY <1>2, ListFits, ReaddirAssumption DEF State
<1>4. PICK d : d = [c EXCEPT !.removed = Plus(@, 1), !.kept = @ \ {list[k]}]  OBVIOUS
<1>5. /\ d.seen = c.seen /\ d.kept = c.kept \ {list[k]} /\ d.repeated = c.repeated /\ d.step = c.step
      /\ d.added = c.added /\ d.removed = Plus(c.removed, 1) /\ d.pos = c.pos
      /\ d.got = c.got
  BY <1>2, <1>4 DEF State
<1>6. d \in State
  <2>1. PICK m \in 0 .. MaxCount : m = Plus(c.removed, 1)  BY <1>3, PlusType
  <2>2. PICK K : K = c.kept \ {list[k]}  OBVIOUS
  <2>3. K \in SUBSET Names  BY <1>2, <2>2 DEF State
  <2>4. d = [c EXCEPT !.removed = m, !.kept = K]  BY <1>4, <2>1, <2>2
  <2> QED  BY <1>2, <2>3, <2>4 DEF State
<1>7. Waiting(c, list)  BY DEF Listing
<1>8. Going(d, new)  BY <1>1, <1>5, <1>7 DEF Going, Waiting
<1>9. d.removed < MaxCount => d.removed = c.removed + 1 /\ c.removed < MaxCount
  BY <1>3, <1>5, PlusType
<1>10. PICK p \in Nat : p = Before(c.pos)  BY <1>3 DEF Before
<1>11. ASSUME NEW i \in DOMAIN new
       PROVE  \E j \in DOMAIN list : new[i] = list[j] /\ (j = i \/ j = i + 1) /\ i \in Nat /\ j \in Nat
  <2>1. PICK j \in DOMAIN list : j = IF i < k THEN i ELSE i + 1  BY <1>1
  <2>2. new[i] = list[j]  BY <1>1, <2>1
  <2> QED  BY <1>1, <2>1, <2>2
<1>12. Missed(d, new, p) \subseteq Missed(c, list, p) \cup {list[p + 1]}
  <2>1. ASSUME NEW n \in c.kept \ c.seen, NEW i \in DOMAIN new, new[i] = n, i <= p, n # list[p + 1]
        PROVE  n \in Missed(c, list, p)
    <3>1. PICK j \in DOMAIN list : new[i] = list[j] /\ (j = i \/ j = i + 1) /\ i \in Nat /\ j \in Nat
      BY <1>11
    <3>2. j # p + 1  BY <2>1, <3>1
    <3>3. j <= p  BY <2>1, <3>1, <3>2
    <3> QED  BY <2>1, <3>1, <3>3 DEF Missed
  <2> QED  BY <1>5, <2>1 DEF Missed
<1>13. Ahead(d, new, p) \subseteq Ahead(c, list, p)
  <2>1. ASSUME NEW n \in c.seen, NEW i \in DOMAIN new, new[i] = n, i > p
        PROVE  n \in Ahead(c, list, p)
    <3>1. PICK j \in DOMAIN list : new[i] = list[j] /\ (j = i \/ j = i + 1) /\ i \in Nat /\ j \in Nat
      BY <1>11
    <3>2. j > p  BY <2>1, <3>1
    <3> QED  BY <2>1, <3>1, <3>2 DEF Ahead
  <2> QED  BY <1>5, <2>1 DEF Ahead
<1>14. Cardinality(Missed(d, new, p)) <= Cardinality(Missed(c, list, p)) + 1
  BY <1>2, <1>12, CountedFinite, FewerOrOneMore
<1>15. Cardinality(Ahead(d, new, p)) <= Cardinality(Ahead(c, list, p))
  BY <1>2, <1>13, CountedFinite, FewerOrOneMore
<1>16. /\ Cardinality(Missed(d, new, p)) \in Nat /\ Cardinality(Ahead(d, new, p)) \in Nat
       /\ Cardinality(Missed(c, list, p)) \in Nat /\ Cardinality(Ahead(c, list, p)) \in Nat
  BY <1>2, <1>6, CountedFinite
<1>17. Counts(c, list, p, 0)  BY <1>7, <1>10 DEF Waiting
<1>18. Counts(d, new, p, 0)
  BY <1>3, <1>5, <1>9, <1>14, <1>15, <1>16, <1>17 DEF Counts
<1>19. Waiting(d, new)  BY <1>5, <1>7, <1>8, <1>10, <1>18 DEF Waiting
<1> QED  BY <1>4, <1>5, <1>6, <1>19 DEF Listing

-----------------------------------------------------------------------------
(***************************************************************************)
(* The steps keep the invariant.                                           *)
(***************************************************************************)

LEMMA InitListing == Init => LInv
<1> SUFFICES ASSUME Init PROVE LInv
  OBVIOUS
<1>1. List(children)  BY DEF Init, List, Distinct
<1>2. Closed \in State /\ Closed.step = "done" /\ Ended(Closed)
  <2>1. /\ 0 \in 0 .. MaxRoom /\ 0 \in 0 .. MaxCount /\ 0 \in 0 .. Cardinality(Names) + 2
    <3>1. Cardinality(Names) \in Nat  BY <1>1, ListFits
    <3> QED  BY <3>1, ReaddirAssumption
  <2>2. Closed \in State  BY <2>1 DEF Closed, State, NULL
  <2>3. Closed.kept \ Closed.seen = {} /\ Closed.removed = 0 /\ Closed.repeated = 0 /\ Closed.added = 0
        /\ Closed.step = "done"
    BY DEF Closed
  <2> QED  BY <2>2, <2>3, FS_EmptySet DEF Ended
<1>3. \A r \in Readers : Listing(reader[r], children)
  BY <1>2 DEF Init, Listing
<1> QED  BY <1>1, <1>3 DEF Init, LInv

LEMMA InsertListing == ASSUME LInv, NEW n \in Names, Insert(n) PROVE LInv'
<1>1. PICK list : list = children  OBVIOUS
<1>2. PICK new : new = <<n>> \o list  OBVIOUS
<1>3. List(list) /\ n \notin Range(list) /\ children' = new  BY <1>1, <1>2 DEF LInv, Insert
<1>4. List(new)  BY <1>2, <1>3, Prepended
<1>5. ASSUME NEW r \in Readers PROVE Listing(reader'[r], new)
  <2>1. PICK c : c = reader[r]  OBVIOUS
  <2>2. Listing(c, list)  BY <1>1, <2>1 DEF LInv
  <2>3. CASE c.step = "done"
    <3>1. reader'[r] = c  BY <2>1, <2>3 DEF Insert, At
    <3> QED  BY <2>2, <2>3, <3>1, DoneListing
  <2>4. CASE c.step # "done"
    <3>1. reader'[r] = [c EXCEPT !.added = Plus(@, 1)]  BY <2>1, <2>4 DEF Insert, At
    <3>2. Listing([c EXCEPT !.added = Plus(@, 1)], new)
      BY <1>2, <1>3, <2>2, <2>4, ListingGrows
    <3> QED  BY <3>1, <3>2
  <2> QED  BY <2>3, <2>4
<1>6. reader' = [r \in Readers |-> reader'[r]]  BY DEF Insert
<1> QED  BY <1>3, <1>4, <1>5, <1>6 DEF LInv

LEMMA RemoveListing == ASSUME LInv, NEW n \in Names, Remove(n) PROVE LInv'
<1>1. PICK list : list = children  OBVIOUS
<1>2. PICK k \in DOMAIN list : k = Index(n) /\ list[k] = n
  BY <1>1 DEF Remove, Index, Range
<1>3. PICK new : new = Without(list, k)  OBVIOUS
<1>4. List(list) /\ children' = new  BY <1>1, <1>2, <1>3 DEF LInv, Remove, Without
<1>5. List(new)  BY <1>3, <1>4, Shortened
<1>6. ASSUME NEW r \in Readers PROVE Listing(reader'[r], new)
  <2>1. PICK c : c = reader[r]  OBVIOUS
  <2>2. Listing(c, list)  BY <1>1, <2>1 DEF LInv
  <2>3. CASE c.step = "done"
    <3>1. reader'[r] = c  BY <2>1, <2>3 DEF Remove, At
    <3> QED  BY <2>2, <2>3, <3>1, DoneListing
  <2>4. CASE c.step # "done"
    <3>1. reader'[r] = [c EXCEPT !.removed = Plus(@, 1), !.kept = @ \ {n}]
      BY <2>1, <2>4 DEF Remove, At
    <3>2. c.step = "user"  BY <2>1, <2>2, <2>4 DEF Remove, InCall, At, Listing
    <3>3. Listing([c EXCEPT !.removed = Plus(@, 1), !.kept = @ \ {list[k]}], new)
      BY <1>3, <1>4, <2>2, <3>2, ListingShrinks
    <3> QED  BY <1>2, <3>1, <3>3
  <2> QED  BY <2>3, <2>4
<1>7. reader' = [r \in Readers |-> reader'[r]]  BY DEF Remove
<1> QED  BY <1>4, <1>5, <1>6, <1>7 DEF LInv

\* A step of one reader.
LEMMA OneListing ==
  ASSUME LInv, NEW r \in Readers, NEW d, Listing(d, children),
         reader' = [reader EXCEPT ![r] = d], UNCHANGED children
  PROVE  LInv'
<1>1. reader'[r] = d /\ \A q \in Readers : q # r => reader'[q] = reader[q]
  BY DEF LInv
<1>2. \A q \in Readers : Listing(reader'[q], children)
  BY <1>1 DEF LInv
<1>3. reader' = [q \in Readers |-> reader'[q]]
  BY DEF LInv
<1>4. children' = children  OBVIOUS
<1>5. \A q \in Readers : Listing(reader'[q], children')
  BY <1>2, <1>4
<1>6. List(children')  BY <1>4 DEF LInv
<1> QED  BY <1>3, <1>5, <1>6 DEF LInv


LEMMA OpenListing == ASSUME LInv, NEW r \in Readers, Open(r) PROVE LInv'
<1>1. PICK list : list = children  OBVIOUS
<1>2. List(list)  BY <1>1 DEF LInv
<1>3. PICK d : d = [Closed EXCEPT !.step = "user", !.kept = Range(list)]  OBVIOUS
<1>4. d.step = "user" /\ d.pos = 0 /\ d.got = 0 /\ d.seen = {} /\ d.repeated = 0 /\ d.added = 0
      /\ d.removed = 0 /\ d.kept = Range(list)
  BY <1>3 DEF Closed
<1>5. d \in State
  <2>1. 0 \in 0 .. MaxRoom /\ 0 \in 0 .. MaxCount /\ 0 \in 0 .. Cardinality(Names) + 2
    <3>1. Cardinality(Names) \in Nat  BY <1>2, ListFits
    <3> QED  BY <3>1, ReaddirAssumption
  <2>2. Range(list) \in SUBSET Names  BY <1>2 DEF List, Range
  <2>3. PICK K \in SUBSET Names : K = Range(list)  BY <2>2
  <2>4. d = [Closed EXCEPT !.step = "user", !.kept = K]  BY <1>3, <2>3
  <2> QED  BY <2>1, <2>4 DEF Closed, State, NULL
<1>6. Len(list) \in Nat /\ DOMAIN list = 1 .. Len(list)  BY <1>2, ListFits
<1>7. Missed(d, list, 0) = {}  BY <1>6 DEF Missed
<1>8. Ahead(d, list, 0) = {}  BY <1>4 DEF Ahead
<1>9. Counts(d, list, Before(d.pos), 0)
  <2>1. Before(d.pos) = 0  BY <1>4 DEF Before
  <2>2. Cardinality(Missed(d, list, 0)) = 0 /\ Cardinality(Ahead(d, list, 0)) = 0
    BY <1>7, <1>8, FS_EmptySet
  <2> QED  BY <1>4, <2>1, <2>2 DEF Counts
<1>10. Going(d, list)  BY <1>4 DEF Going
<1>11. Listing(d, list)  BY <1>4, <1>5, <1>9, <1>10 DEF Listing, Waiting
<1>12. reader' = [reader EXCEPT ![r] = d] /\ UNCHANGED children  BY <1>1, <1>3 DEF Open
<1> QED  BY <1>1, <1>11, <1>12, OneListing

Part(list, m, n) == SubSeq(list, m, n)
Fit(list, room) == Min({Len(list), room})
Out(list, n) == Range(Part(list, 1, n))

LEMMA PartOfList ==
  ASSUME NEW S, NEW list \in Seq(S), NEW m \in Nat \ {0}, NEW n \in Nat, n <= Len(list)
  PROVE  /\ Part(list, m, n) \in Seq(S)
         /\ Len(Part(list, m, n)) = (IF m <= n THEN n - m + 1 ELSE 0)
         /\ \A i \in 1 .. n - m + 1 : Part(list, m, n)[i] = list[m + i - 1]
<1>1. \A i \in m .. n : list[i] \in S  OBVIOUS
<1>2. m \in Int /\ n \in Int  OBVIOUS
<1>3. /\ SubSeq(list, m, n) \in Seq(S)
      /\ Len(SubSeq(list, m, n)) = (IF m <= n THEN n - m + 1 ELSE 0)
      /\ \A i \in 1 .. n - m + 1 : SubSeq(list, m, n)[i] = list[m + i - 1]
  BY <1>1, <1>2, SubSeqProperties
<1> QED  BY <1>3 DEF Part

LEMMA DotsFrom ==
  ASSUME NEW m \in Nat \ {0}
  PROVE  /\ Part(Dots, m, 2) \in Seq({".", ".."})
         /\ Len(Part(Dots, m, 2)) = (IF m <= 2 THEN 2 - m + 1 ELSE 0)
         /\ \A i \in 1 .. 2 - m + 1 : Part(Dots, m, 2)[i] = Dots[m + i - 1]
<1>1. Dots \in Seq({".", ".."}) /\ Len(Dots) = 2  BY DEF Dots
<1>2. PICK S : S = {".", ".."}  OBVIOUS
<1>3. PICK list \in Seq(S) : list = Dots  BY <1>1, <1>2
<1>4. PICK k \in Nat : k = 2  OBVIOUS
<1>5. k <= Len(list)
  <2>1. Len(list) = 2  BY <1>1, <1>3, Zenon
  <2> QED  BY <1>4, <2>1
<1>6. /\ Part(list, m, k) \in Seq(S) /\ Len(Part(list, m, k)) = (IF m <= k THEN k - m + 1 ELSE 0)
      /\ \A i \in 1 .. k - m + 1 : Part(list, m, k)[i] = list[m + i - 1]
  BY <1>5, PartOfList
<1> QED  BY <1>2, <1>3, <1>4, <1>6, Zenon

LEMMA RangeOfOne ==
  ASSUME NEW part \in Seq({".", ".."}), Len(part) = 1
  PROVE  Range(part) = {part[1]}
<1>1. DOMAIN part = {1}  OBVIOUS
<1> QED  BY <1>1 DEF Range

\* Which of the dots a call emits, from its position and its room.
LEMMA DotsOut ==
  ASSUME NEW pos \in Nat, NEW room \in Nat \ {0},
         NEW dots, dots = Part(Dots, pos + 1, 2),
         NEW n, n = Fit(dots, room), NEW what, what = Out(dots, n)
  PROVE  \/ pos = 0 /\ room = 1 /\ n = 1 /\ what = {"."} /\ Len(dots) = 2
         \/ pos = 0 /\ room # 1 /\ n = 2 /\ what = {".", ".."} /\ Len(dots) = 2
         \/ pos = 1 /\ n = 1 /\ what = {".."} /\ Len(dots) = 1
         \/ pos >= 2 /\ n = 0 /\ what = {} /\ Len(dots) = 0
<1>1. /\ dots \in Seq({".", ".."}) /\ Len(dots) = (IF pos + 1 <= 2 THEN 2 - (pos + 1) + 1 ELSE 0)
      /\ \A i \in 1 .. 2 - (pos + 1) + 1 : dots[i] = Dots[pos + 1 + i - 1]
  <2>2. PICK m \in Nat \ {0} : m = pos + 1  OBVIOUS
  <2>7. /\ Part(Dots, m, 2) \in Seq({".", ".."})
        /\ Len(Part(Dots, m, 2)) = (IF m <= 2 THEN 2 - m + 1 ELSE 0)
        /\ \A i \in 1 .. 2 - m + 1 : Part(Dots, m, 2)[i] = Dots[m + i - 1]
    BY DotsFrom
  <2>8. dots = Part(Dots, m, 2)  BY <2>2
  <2>4. /\ dots \in Seq({".", ".."}) /\ Len(dots) = (IF m <= 2 THEN 2 - m + 1 ELSE 0)
        /\ \A i \in 1 .. 2 - m + 1 : dots[i] = Dots[m + i - 1]
    BY <2>7, <2>8, Zenon
  <2> QED  BY <2>2, <2>4
<1>2. PICK h \in Nat : h = Len(dots)  BY <1>1
<1>3. n \in {h, room} /\ n <= h /\ n <= room /\ n \in Nat  BY <1>2, MinOfTwo DEF Fit
<1>5. PICK part : part = Part(dots, 1, n)  OBVIOUS
<1>6. /\ part \in Seq({".", ".."}) /\ Len(part) = (IF 1 <= n THEN n - 1 + 1 ELSE 0)
      /\ \A i \in 1 .. n - 1 + 1 : part[i] = dots[1 + i - 1]
  <2>1. 1 \in Nat \ {0} /\ n <= Len(dots)  BY <1>2, <1>3
  <2>2. PICK S : S = {".", ".."}  OBVIOUS
  <2>3. dots \in Seq(S)  BY <1>1, <2>2
  <2>4. /\ Part(dots, 1, n) \in Seq(S) /\ Len(Part(dots, 1, n)) = (IF 1 <= n THEN n - 1 + 1 ELSE 0)
        /\ \A i \in 1 .. n - 1 + 1 : Part(dots, 1, n)[i] = dots[1 + i - 1]
    <3>1. PICK list \in Seq(S) : list = dots  BY <2>3
    <3>2. PICK k \in Nat : k = n  BY <1>3
    <3>3. PICK m \in Nat \ {0} : m = 1  OBVIOUS
    <3>4. k <= Len(list)  BY <2>1, <3>1, <3>2
    <3>5. /\ Part(list, m, k) \in Seq(S) /\ Len(Part(list, m, k)) = (IF m <= k THEN k - m + 1 ELSE 0)
          /\ \A i \in 1 .. k - m + 1 : Part(list, m, k)[i] = list[m + i - 1]
      BY <3>4, PartOfList
    <3> QED  BY <3>1, <3>2, <3>3, <3>5
  <2> QED  BY <1>5, <2>2, <2>4, Zenon
<1>7. Len(part) = n /\ \A i \in 1 .. n : part[i] = dots[i]
  <2>1. \A i \in 1 .. n : 1 + i - 1 = i /\ i \in 1 .. n - 1 + 1  BY <1>3
  <2>2. \A i \in 1 .. n : part[i] = dots[i]  BY <1>6, <2>1
  <2>3. (IF 1 <= n THEN n - 1 + 1 ELSE 0) = n  BY <1>3
  <2> QED  BY <1>6, <2>2, <2>3
<1>8. what = Range(part)  BY <1>5 DEF Out
<1>9. CASE pos = 0
  <2>1. Len(dots) = 2 /\ dots[1] = "." /\ dots[2] = ".."  BY <1>1, <1>9 DEF Dots
  <2>2. CASE room = 1
    <3>1. n = 1  BY <1>2, <1>3, <2>1, <2>2
    <3>2. Len(part) = 1 /\ part[1] = "."
      <4>1. 1 \in 1 .. n  BY <3>1
      <4> QED  BY <1>7, <2>1, <3>1, <4>1
    <3>3. Range(part) = {"."}
      <4>1. Range(part) = {part[1]}  BY <1>6, <3>2, RangeOfOne
      <4> QED  BY <3>2, <4>1
    <3> QED  BY <1>8, <1>9, <2>1, <2>2, <3>1, <3>3
  <2>3. CASE room # 1
    <3>1. n = 2
      <4>1. h = 2 /\ room >= 2  BY <1>2, <2>1, <2>3
      <4> QED  BY <1>3, <4>1
    <3>2. Len(part) = 2 /\ part[1] = "." /\ part[2] = ".."
      <4>1. 1 \in 1 .. n /\ 2 \in 1 .. n  BY <3>1
      <4> QED  BY <1>7, <2>1, <3>1, <4>1
    <3>3. DOMAIN part = {1, 2}  BY <1>6, <3>2
    <3>4. Range(part) = {".", ".."}  BY <3>2, <3>3 DEF Range
    <3> QED  BY <1>8, <1>9, <2>1, <2>3, <3>1, <3>4
  <2> QED  BY <2>2, <2>3
<1>10. CASE pos = 1
  <2>1. Len(dots) = 1 /\ dots[1] = ".."  BY <1>1, <1>10 DEF Dots
  <2>2. n = 1
    <3>1. h = 1 /\ room >= 1  BY <1>2, <2>1
    <3> QED  BY <1>3, <3>1
  <2>3. Len(part) = 1 /\ part[1] = ".."
    <3>1. 1 \in 1 .. n  BY <2>2
    <3> QED  BY <1>7, <2>1, <2>2, <3>1
  <2>4. Range(part) = {".."}
    <3>1. Range(part) = {part[1]}  BY <1>6, <2>3, RangeOfOne
    <3> QED  BY <2>3, <3>1
  <2> QED  BY <1>8, <1>10, <2>1, <2>2, <2>4
<1>11. CASE pos >= 2
  <2>1. Len(dots) = 0  BY <1>1, <1>11
  <2>2. n = 0  BY <1>2, <1>3, <2>1
  <2>3. DOMAIN part = {}  BY <1>6, <1>7, <2>2
  <2>4. Range(part) = {}  BY <2>3 DEF Range
  <2> QED  BY <1>8, <1>11, <2>1, <2>2, <2>4
<1>12. pos = 0 \/ pos = 1 \/ pos >= 2  OBVIOUS
<1> QED  BY <1>9, <1>10, <1>11, <1>12

Entered(c, n, room, what) == Got([c EXCEPT !.pos = @ + n, !.room = room], what)

\* A call whose room is taken by dots alone, or that comes to the list.
LEMMA DotsGot ==
  ASSUME NEW c, NEW list, List(list), Listing(c, list), c.step = "user",
         NEW room \in 1 .. MaxRoom, NEW n \in 0 .. 2, NEW what,
         \/ c.pos = 0 /\ room = 1 /\ n = 1 /\ what = {"."}
         \/ c.pos = 0 /\ room # 1 /\ n = 2 /\ what = {".", ".."}
         \/ c.pos = 1 /\ n = 1 /\ what = {".."}
         \/ c.pos >= 2 /\ n = 0 /\ what = {},
         NEW d, d = Entered(c, n, room, what)
  PROVE  /\ d \in State /\ Going(d, list) /\ d.pos = c.pos + n /\ d.got = n /\ d.room = room - n
         /\ Counts(d, list, Before(c.pos), 0)
<1>1. c \in State /\ Waiting(c, list) /\ Going(c, list) /\ c.got = 0
  BY DEF Listing, Waiting
<1>2. c.pos \in Nat /\ c.pos <= Cardinality(Names) + 2 /\ Cardinality(Names) \in Nat
      /\ c.repeated \in 0 .. MaxCount
  BY <1>1, ListFits DEF State
<1>3. MaxRoom \in Nat /\ room \in Nat /\ room >= 1 /\ room <= MaxRoom /\ n <= room
  BY ReaddirAssumption
<1>4. PICK b : b = [c EXCEPT !.pos = @ + n, !.room = room]  OBVIOUS
<1>5. b.pos = c.pos + n /\ b.room = room /\ b.got = 0 /\ b.seen = c.seen /\ b.kept = c.kept
      /\ b.repeated = c.repeated /\ b.added = c.added /\ b.removed = c.removed
  BY <1>1, <1>4 DEF State
<1>6. b \in State
  <2>1. c.pos + n \in 0 .. Cardinality(Names) + 2  BY <1>2
  <2>2. room \in 0 .. MaxRoom  BY <1>3
  <2> QED  BY <1>1, <1>4, <2>1, <2>2 DEF State
<1>7. Cardinality(what) = n
  <2>1. Cardinality({"."}) = 1 /\ Cardinality({".."}) = 1 /\ IsFiniteSet({"."})  BY FS_Singleton
  <2>2. Cardinality({"."} \cup {".."}) = 2  BY <2>1, FS_AddElement
  <2>3. {"."} \cup {".."} = {".", ".."}  OBVIOUS
  <2>4. Cardinality({".", ".."}) = 2  BY <2>2, <2>3
  <2> QED  BY <2>1, <2>4, FS_EmptySet
<1>8. what \cap c.seen = {}
  BY <1>1, <1>2 DEF Going
<1>9. Cardinality(what \cap b.seen) = 0  BY <1>5, <1>8, FS_EmptySet
<1>10. Plus(b.repeated, Cardinality(what \cap b.seen)) = c.repeated
  BY <1>2, <1>5, <1>9, PlusType
<1>11. d = [b EXCEPT !.got = @ + n, !.room = @ - n, !.seen = @ \cup what, !.repeated = c.repeated]
  BY <1>4, <1>7, <1>10 DEF Got, Entered
<1>12. what \subseteq {".", ".."} /\ {".", ".."} = Range(Dots)
  BY DEF Dots, Range
<1>13. PICK g \in 0 .. MaxRoom, m \in 0 .. MaxRoom : g = n /\ m = room - n
  <2>1. n \in 0 .. MaxRoom /\ room - n \in 0 .. MaxRoom  BY <1>3
  <2> QED  BY <2>1
<1>14. d \in State /\ d.pos = c.pos + n /\ d.got = n /\ d.room = room - n /\ d.seen = c.seen \cup what
       /\ d.kept = c.kept /\ d.repeated = c.repeated /\ d.added = c.added /\ d.removed = c.removed
  <2>1. PICK S \in SUBSET (Names \cup Range(Dots)) : S = c.seen \cup what
    BY <1>1, <1>12 DEF State
  <2>2. b.got + n = g  BY <1>5, <1>13
  <2>3. PICK q \in 0 .. MaxCount : q = c.repeated  BY <1>2
  <2>4. d = [b EXCEPT !.got = g, !.room = m, !.seen = S, !.repeated = q]
    BY <1>5, <1>11, <1>13, <2>1, <2>2, <2>3
  <2>5. PICK t : t = [b EXCEPT !.got = g, !.room = m]  OBVIOUS
  <2>6. t \in State /\ t.pos = b.pos /\ t.got = g /\ t.room = m /\ t.kept = b.kept
        /\ t.added = b.added /\ t.removed = b.removed
    BY <1>6, <2>5 DEF State
  <2>7. d = [t EXCEPT !.seen = S, !.repeated = q]
    BY <1>6, <2>4, <2>5 DEF State
  <2>8. d \in State /\ d.pos = t.pos /\ d.got = t.got /\ d.room = t.room /\ d.kept = t.kept
        /\ d.added = t.added /\ d.removed = t.removed /\ d.seen = S /\ d.repeated = q
    BY <2>6, <2>7 DEF State
  <2> QED  BY <1>5, <1>13, <2>1, <2>3, <2>6, <2>8
<1>15. Going(d, list)
  BY <1>1, <1>2, <1>14 DEF Going
<1>16. \A x \in what : x \notin Names  BY <1>12, ReaddirAssumption
<1>17. PICK p : p = Before(c.pos)  OBVIOUS
<1>18. Missed(d, list, p) = Missed(c, list, p)
  <2>1. c.kept \subseteq Names  BY <1>1 DEF State
  <2> QED  BY <1>14, <1>16, <2>1 DEF Missed
<1>19. Ahead(d, list, p) = Ahead(c, list, p)
  <2>1. \A i \in DOMAIN list : list[i] \in Names  BY DEF List
  <2> QED  BY <1>14, <1>16, <2>1 DEF Ahead
<1>20. Counts(c, list, p, 0)  BY <1>1, <1>17 DEF Waiting
<1>21. Counts(d, list, p, 0)  BY <1>14, <1>18, <1>19, <1>20 DEF Counts
<1> QED  BY <1>14, <1>15, <1>17, <1>21

LEMMA EnterListing == ASSUME LInv, NEW r \in Readers, Enter(r) PROVE LInv'
<1>1. PICK c : c = reader[r]  OBVIOUS
<1>2. PICK room \in 1 .. MaxRoom :
        LET dots == SubSeq(Dots, c.pos + 1, 2)
            n == Min({Len(dots), room})
            d == Got([c EXCEPT !.pos = @ + n, !.room = room], Range(SubSeq(dots, 1, n)))
        IN  reader' = [reader EXCEPT ![r] =
                        IF n < Len(dots) THEN Returned(d) ELSE Stand(d, Skipped(d.pos) + 1)]
  BY <1>1 DEF Enter
<1>3. PICK dots : dots = Part(Dots, c.pos + 1, 2)  OBVIOUS
<1>4. PICK n : n = Fit(dots, room)  OBVIOUS
<1>5. PICK what : what = Out(dots, n)  OBVIOUS
<1>6. PICK d : d = Entered(c, n, room, what)  OBVIOUS
<1>7. reader' = [reader EXCEPT ![r] = IF n < Len(dots) THEN Returned(d) ELSE Stand(d, Skipped(d.pos) + 1)]
  BY <1>2, <1>3, <1>4, <1>5, <1>6, Zenon DEF Part, Fit, Out, Entered
<1>8. List(children) /\ Listing(c, children) /\ c.step = "user" /\ UNCHANGED children
  BY <1>1 DEF LInv, Enter, At
<1>9. c \in State /\ Waiting(c, children)  BY <1>8 DEF Listing
<1>10. c.pos \in Nat /\ room \in Nat \ {0} /\ MaxRoom \in Nat
  BY <1>8, <1>9, ListFits, ReaddirAssumption DEF State
<1>11. \/ c.pos = 0 /\ room = 1 /\ n = 1 /\ what = {"."} /\ Len(dots) = 2
       \/ c.pos = 0 /\ room # 1 /\ n = 2 /\ what = {".", ".."} /\ Len(dots) = 2
       \/ c.pos = 1 /\ n = 1 /\ what = {".."} /\ Len(dots) = 1
       \/ c.pos >= 2 /\ n = 0 /\ what = {} /\ Len(dots) = 0
  BY <1>3, <1>4, <1>5, <1>10, DotsOut
<1>12. n \in 0 .. 2  BY <1>11
<1>13. \/ c.pos = 0 /\ room = 1 /\ n = 1 /\ what = {"."}
       \/ c.pos = 0 /\ room # 1 /\ n = 2 /\ what = {".", ".."}
       \/ c.pos = 1 /\ n = 1 /\ what = {".."}
       \/ c.pos >= 2 /\ n = 0 /\ what = {}
  BY <1>11
<1>14. /\ d \in State /\ Going(d, children) /\ d.pos = c.pos + n /\ d.got = n /\ d.room = room - n
       /\ Counts(d, children, Before(c.pos), 0)
  <2>1. PICK list : list = children  OBVIOUS
  <2>2. List(list) /\ Listing(c, list)  BY <1>8, <2>1
  <2>3. /\ d \in State /\ Going(d, list) /\ d.pos = c.pos + n /\ d.got = n /\ d.room = room - n
        /\ Counts(d, list, Before(c.pos), 0)
    BY <1>6, <1>8, <1>12, <1>13, <2>2, DotsGot
  <2> QED  BY <2>1, <2>3
<1>15. CASE n < Len(dots)
  <2>1. c.pos = 0 /\ n = 1
    <3>1. PICK h \in 0 .. 2 : h = Len(dots)  BY <1>11
    <3>2. n < h  BY <1>15, <3>1
    <3>3. ~(n = 2 /\ h = 2) /\ ~(n = 1 /\ h = 1) /\ ~(n = 0 /\ h = 0)  BY <3>1, <3>2
    <3> QED  BY <1>11, <3>1, <3>3
  <2>2. d.pos = 1 /\ d.got = 1  BY <1>14, <2>1
  <2>3. Before(c.pos) = 0 /\ Before(d.pos) = 0  BY <2>1, <2>2 DEF Before
  <2>4. Counts(d, children, 0, 0)  BY <1>14, <2>3
  <2>5. Listing(Returned(d), children)
    <3>1. 0 \in Nat /\ 0 <= 0 /\ 0 - 0 = Before(d.pos) /\ (d.got = 0 => 0 >= Len(children))
      BY <2>2, <2>3
    <3> QED  BY <1>8, <1>14, <2>4, <3>1, ReturnedListing
  <2>6. reader' = [reader EXCEPT ![r] = Returned(d)]  BY <1>7, <1>15
  <2> QED  BY <1>8, <2>5, <2>6, OneListing
<1>16. CASE ~(n < Len(dots))
  <2>1. d.pos \in Nat /\ d.pos >= 2 /\ d.got + d.room \in 1 .. MaxRoom
    <3>1. ~(n = 1 /\ Len(dots) = 2)
      <4>1. n = 1 /\ Len(dots) = 2 => n < Len(dots)  OBVIOUS
      <4> QED  BY <1>16, <4>1
    <3>2. n \in Nat /\ n <= room /\ c.pos + n >= 2  BY <1>10, <1>11, <3>1
    <3>3. room <= MaxRoom /\ room >= 1  BY <1>10
    <3>4. d.pos \in Nat /\ d.pos >= 2  BY <1>10, <1>14, <3>2
    <3>5. d.got + d.room = room  BY <1>10, <1>14, <3>2
    <3> QED  BY <3>4, <3>5
  <2>2. PICK i \in Nat \ {0} : i = Skipped(d.pos) + 1  BY <2>1 DEF Skipped
  <2>3. d.pos = i + 1 /\ i + 1 - d.pos = 0 /\ i - 1 = Before(c.pos)
    <3>1. ~(n = 1 /\ Len(dots) = 2)
      <4>1. n = 1 /\ Len(dots) = 2 => n < Len(dots)  OBVIOUS
      <4> QED  BY <1>16, <4>1
    <3>2. d.pos = i + 1 /\ i + 1 - d.pos = 0  BY <2>1, <2>2 DEF Skipped
    <3>3. (c.pos = 0 /\ n = 2) \/ (c.pos = 1 /\ n = 1) \/ (c.pos >= 2 /\ n = 0)  BY <1>11, <3>1
    <3>4. i - 1 = Before(c.pos)  BY <1>10, <1>14, <2>2, <3>2, <3>3 DEF Before
    <3> QED  BY <3>2, <3>4
  <2>4. Counts(d, children, i - 1, i + 1 - d.pos)  BY <1>14, <2>3
  <2>5. d.pos <= i + 1  BY <2>1, <2>3
  <2>6. Listing(Stand(d, i), children)
    BY <1>8, <1>14, <2>1, <2>4, <2>5, StandListing
  <2>7. reader' = [reader EXCEPT ![r] = Stand(d, i)]  BY <1>7, <1>16, <2>2
  <2> QED  BY <1>8, <2>6, <2>7, OneListing
<1> QED  BY <1>15, <1>16

LEMMA EmitListing == ASSUME LInv, NEW r \in Readers, Emit(r) PROVE LInv'
<1>1. PICK c : c = reader[r]  OBVIOUS
<1>2. PICK list : list = children  OBVIOUS
<1>3. List(list) /\ Listing(c, list) /\ c.step = "emit" /\ UNCHANGED children
  BY <1>1, <1>2 DEF LInv, Emit, At
<1>4. c \in State /\ Emitting(c, list)  BY <1>3 DEF Listing
<1>5. PICK k \in DOMAIN list : list[k] = c.at /\ c.pos <= k + 1 /\ Counts(c, list, k - 1, k + 1 - c.pos)
  BY <1>4 DEF Emitting
<1>6. /\ Len(list) \in Nat /\ DOMAIN list = 1 .. Len(list) /\ Len(list) <= Cardinality(Names)
      /\ Cardinality(Names) \in Nat
  BY <1>3, ListFits
<1>7. /\ c.got + c.room >= 1 /\ c.got + c.room <= MaxRoom
      /\ c.pos \in Nat /\ c.pos >= 2 /\ c.got \in Nat /\ c.room \in Nat /\ MaxRoom \in Nat
      /\ c.repeated \in 0 .. MaxCount /\ c.added \in Nat
      /\ c.removed \in Nat /\ MaxCount \in Nat
  <2>1. MaxRoom \in Nat /\ MaxCount \in Nat  BY ReaddirAssumption
  <2>2. /\ c.pos \in 0 .. Cardinality(Names) + 2 /\ c.got \in 0 .. MaxRoom /\ c.room \in 0 .. MaxRoom
        /\ c.repeated \in 0 .. MaxCount /\ c.added \in 0 .. MaxCount /\ c.removed \in 0 .. MaxCount
    BY <1>4 DEF State
  <2>3. c.got + c.room \in 1 .. MaxRoom /\ c.pos >= 2  BY <1>4 DEF Emitting
  <2> QED  BY <1>6, <2>1, <2>2, <2>3
<1>8. k \in Nat /\ k >= 1 /\ k <= Len(list)  BY <1>6
<1>9. PICK p \in Nat : p = k - 1  BY <1>8
<1>10. PICK s \in Nat : s = k + 1 - c.pos
  <2>1. PICK y \in Nat : y = c.pos  BY <1>7
  <2>2. y <= k + 1  BY <1>5, <2>1
  <2>3. k + 1 - y \in Nat  BY <1>8, <2>2
  <2> QED  BY <2>1, <2>3
<1>11. Counts(c, list, p, s) /\ Going(c, list)  BY <1>4, <1>5, <1>9, <1>10 DEF Emitting
<1>12. CASE c.room = 0
  <2>1. c.got # 0
    <3>1. c.got + c.room >= 1 /\ c.got \in Nat  BY <1>7
    <3> QED  BY <1>12, <3>1
  <2>2. s <= p /\ p - s = Before(c.pos)
    <3>1. PICK y \in Nat : y = c.pos  BY <1>7
    <3>2. y >= 2 /\ s = k + 1 - y  BY <1>7, <1>10, <3>1
    <3>3. Before(c.pos) = y - 2  BY <3>1, <3>2 DEF Before
    <3> QED  BY <1>8, <1>9, <3>2, <3>3
  <2>3. Listing(Returned(c), list)  BY <1>3, <1>4, <1>11, <2>1, <2>2, ReturnedListing
  <2>4. reader' = [reader EXCEPT ![r] = Returned(c)]  BY <1>1, <1>12 DEF Emit
  <2> QED  BY <1>2, <1>3, <2>3, <2>4, OneListing
<1>13. CASE c.room # 0
  <2>1. Index(c.at) = k
    <3>1. \A i \in DOMAIN children : children[i] = c.at <=> i = k
      BY <1>2, <1>3, <1>5 DEF List, Distinct
    <3>2. k \in DOMAIN children  BY <1>2
    <3> QED  BY <3>1, <3>2 DEF Index
  <2>2. PICK b : b = [c EXCEPT !.pos = @ + 1]  OBVIOUS
  <2>3. PICK x : x = c.at  OBVIOUS
  <2>4. PICK e : e = Got(b, {x})  OBVIOUS
  <2>5. reader' = [reader EXCEPT ![r] = Stand(e, k + 1)]
    BY <1>1, <1>13, <2>1, <2>2, <2>3, <2>4 DEF Emit, PosAfter, Follows
  <2>6. /\ b.pos = c.pos + 1 /\ b.room = c.room /\ b.got = c.got /\ b.seen = c.seen /\ b.kept = c.kept
        /\ b.repeated = c.repeated /\ b.added = c.added /\ b.removed = c.removed
    BY <1>4, <2>2 DEF State
  <2>7. b \in State
    <3>1. c.pos + 1 \in 0 .. Cardinality(Names) + 2
      <4>1. PICK N \in Nat : N = Cardinality(Names)  BY <1>6
      <4>2. PICK h \in Nat : h = Len(list)  BY <1>6
      <4>3. h <= N /\ k <= h  BY <1>6, <1>8, <4>1, <4>2
      <4>4. PICK y \in Nat : y = c.pos  BY <1>7
      <4>5. y <= k + 1  BY <1>5, <4>4
      <4>6. y + 1 \in 0 .. N + 2  BY <1>8, <4>3, <4>5
      <4> QED  BY <4>1, <4>4, <4>6
    <3> QED  BY <1>4, <2>2, <3>1 DEF State
  <2>8. Cardinality({x}) = 1  BY FS_Singleton
  <2>9. PICK m \in {0, 1} : m = Cardinality({x} \cap c.seen) /\ (m = 1 <=> x \in c.seen)
    <3>1. CASE x \in c.seen
      <4>1. {x} \cap c.seen = {x}  BY <3>1
      <4>2. Cardinality({x} \cap c.seen) = 1  BY <2>8, <4>1
      <4> QED  BY <3>1, <4>2
    <3>2. CASE x \notin c.seen
      <4>1. {x} \cap c.seen = {}  BY <3>2
      <4>2. Cardinality({x} \cap c.seen) = 0  BY <4>1, FS_EmptySet
      <4> QED  BY <3>2, <4>2
    <3> QED  BY <3>1, <3>2
  <2>10. PICK q \in 0 .. MaxCount : q = Plus(c.repeated, m)  BY <1>7, PlusType
  <2>11. e = [b EXCEPT !.got = @ + 1, !.room = @ - 1, !.seen = @ \cup {x}, !.repeated = q]
    BY <2>4, <2>6, <2>8, <2>9, <2>10 DEF Got
  <2>12. /\ e.pos = c.pos + 1 /\ e.got = c.got + 1 /\ e.room = c.room - 1 /\ e.seen = c.seen \cup {x}
         /\ e.kept = c.kept /\ e.repeated = q /\ e.added = c.added /\ e.removed = c.removed
    BY <2>6, <2>7, <2>11 DEF State
  <2>13. e \in State
    <3>1. c.got + 1 \in 0 .. MaxRoom /\ c.room - 1 \in 0 .. MaxRoom  BY <1>7, <1>13
    <3>2. PICK g \in 0 .. MaxRoom, h \in 0 .. MaxRoom : g = b.got + 1 /\ h = b.room - 1
      BY <2>6, <3>1
    <3>3. PICK S \in SUBSET (Names \cup Range(Dots)) : S = b.seen \cup {x}
      <4>1. x \in Names  BY <1>3, <1>5, <2>3 DEF List
      <4> QED  BY <1>4, <2>6, <4>1 DEF State
    <3>4. e = [b EXCEPT !.got = g, !.room = h, !.seen = S, !.repeated = q]
      BY <2>11, <3>2, <3>3
    <3> QED  BY <2>7, <3>4 DEF State
  <2>14. Going(e, list)  BY <1>7, <1>11, <2>12 DEF Going
  <2>15. Missed(e, list, k) \subseteq Missed(c, list, p)
    <3>1. ASSUME NEW n \in c.kept \ c.seen, n # x, NEW i \in DOMAIN list, list[i] = n, i <= k
          PROVE  n \in Missed(c, list, p)
      <4>1. i # k  BY <1>5, <2>3, <3>1
      <4>2. i <= p  BY <1>6, <1>8, <1>9, <3>1, <4>1
      <4> QED  BY <3>1, <4>2 DEF Missed
    <3> QED  BY <2>12, <3>1 DEF Missed
  <2>16. Ahead(e, list, k) \subseteq Ahead(c, list, p) \ {x}
    <3>1. ASSUME NEW n \in c.seen \cup {x}, NEW i \in DOMAIN list, list[i] = n, i > k
          PROVE  n \in Ahead(c, list, p) \ {x}
      <4>1. i > p /\ i # k  BY <1>6, <1>8, <1>9, <3>1
      <4>2. n # x  BY <1>3, <1>5, <2>3, <3>1, <4>1 DEF List, Distinct
      <4> QED  BY <3>1, <4>1, <4>2 DEF Ahead
    <3> QED  BY <2>12, <3>1 DEF Ahead
  <2>17. x \in c.seen => x \in Ahead(c, list, p)
    <3>1. k > p  BY <1>8, <1>9
    <3> QED  BY <1>5, <2>3, <3>1 DEF Ahead
  <2>18. PICK A : A = Ahead(c, list, p)  OBVIOUS
  <2>19. IsFiniteSet(A) /\ Cardinality(A) \in Nat  BY <1>4, <2>18, CountedFinite
  <2>20. IsFiniteSet(A \ {x}) /\ Cardinality(A \ {x}) = IF x \in A THEN Cardinality(A) - 1 ELSE Cardinality(A)
    BY <2>19, FS_RemoveElement
  <2>21. Cardinality(Ahead(e, list, k)) <= Cardinality(A \ {x})
    BY <2>16, <2>18, <2>20, FewerOrOneMore
  <2>22. Cardinality(Missed(e, list, k)) <= Cardinality(Missed(c, list, p))
    BY <1>4, <2>15, CountedFinite, FewerOrOneMore
  <2>23. /\ Cardinality(Missed(e, list, k)) \in Nat /\ Cardinality(Ahead(e, list, k)) \in Nat
         /\ Cardinality(Missed(c, list, p)) \in Nat
    BY <1>4, <2>13, CountedFinite
  <2>24. ASSUME c.added < MaxCount PROVE q + Cardinality(Ahead(e, list, k)) + s <= c.added
    <3>1. c.repeated + Cardinality(A) + s <= c.added  BY <1>11, <2>18, <2>24 DEF Counts
    <3>2. CASE m = 1
      <4>1. x \in A  BY <2>9, <2>17, <2>18, <3>2
      <4>2. Cardinality(A \ {x}) = Cardinality(A) - 1  BY <2>20, <4>1
      <4>3. Cardinality(Ahead(e, list, k)) <= Cardinality(A) - 1  BY <2>21, <4>2
      <4>4. c.repeated < MaxCount  BY <1>7, <2>19, <2>23, <2>24, <3>1, <4>3
      <4>5. q = c.repeated + 1  BY <1>7, <2>10, <3>2, <4>4, PlusType
      <4> QED  BY <1>7, <2>19, <2>23, <3>1, <4>3, <4>5
    <3>3. CASE m = 0
      <4>1. q = c.repeated  BY <1>7, <2>10, <3>3, PlusType
      <4>2. Cardinality(A \ {x}) <= Cardinality(A)  BY <2>19, <2>20
      <4>3. Cardinality(A \ {x}) \in Nat  BY <2>20, FS_CardinalityType
      <4> QED  BY <1>7, <2>19, <2>21, <2>23, <3>1, <4>1, <4>2, <4>3
    <3> QED  BY <2>9, <3>2, <3>3
  <2>25. Counts(e, list, k, s)
    BY <1>7, <1>11, <2>12, <2>22, <2>23, <2>24 DEF Counts
  <2>26. Listing(Stand(e, k + 1), children)
    <3>1. (k + 1) - 1 = k /\ (k + 1) + 1 - e.pos = s /\ e.pos <= (k + 1) + 1 /\ e.pos >= 2
          /\ e.got + e.room \in 1 .. MaxRoom /\ k + 1 \in Nat \ {0}
      <4>1. e.pos = c.pos + 1 /\ e.got + e.room = c.got + c.room  BY <1>7, <2>12
      <4>2. k + 1 \in Nat \ {0} /\ (k + 1) - 1 = k  BY <1>8
      <4>3. (k + 1) + 1 - e.pos = s /\ e.pos <= (k + 1) + 1 /\ e.pos >= 2
        <5>1. PICK y \in Nat : y = c.pos  BY <1>7
        <5>2. y >= 2 /\ y <= k + 1 /\ s = k + 1 - y /\ e.pos = y + 1  BY <1>5, <1>7, <1>10, <4>1, <5>1
        <5> QED  BY <1>8, <5>2
      <4>4. e.got + e.room \in 1 .. MaxRoom  BY <1>7, <4>1
      <4> QED  BY <4>1, <4>2, <4>3, <4>4
    <3>2. Counts(e, children, (k + 1) - 1, (k + 1) + 1 - e.pos)  BY <1>2, <2>25, <3>1
    <3>3. List(children) /\ Going(e, children)  BY <1>2, <1>3, <2>14
    <3> QED  BY <2>13, <3>1, <3>2, <3>3, StandListing
  <2> QED  BY <1>3, <2>5, <2>26, OneListing
<1> QED  BY <1>12, <1>13

LEMMA ListingInvariant == Spec => []LInv
<1>1. LInv /\ [Next]_vars => LInv'
  <2> SUFFICES ASSUME LInv, [Next]_vars PROVE LInv'
    OBVIOUS
  <2>1. ASSUME NEW n \in Names, Insert(n) PROVE LInv'  BY <2>1, InsertListing
  <2>2. ASSUME NEW n \in Names, Remove(n) PROVE LInv'  BY <2>2, RemoveListing
  <2>3. ASSUME NEW r \in Readers, Open(r) PROVE LInv'  BY <2>3, OpenListing
  <2>4. ASSUME NEW r \in Readers, Read(r) PROVE LInv'
    BY <2>4, EnterListing, EmitListing DEF Read
  <2>5. CASE UNCHANGED vars
    <3>1. children' = children /\ reader' = reader  BY <2>5 DEF vars
    <3> QED  BY <3>1 DEF LInv
  <2> QED  BY <2>1, <2>2, <2>3, <2>4, <2>5 DEF Next
<1> QED  BY InitListing, <1>1, PTL DEF Spec

\* The list holds a name once, and a position stays within the dots and as
\* many entries as there can be, however often calls go back.
THEOREM TypesHold == Spec => []TypeOK
<1>1. LInv => TypeOK
  <2> SUFFICES ASSUME LInv PROVE TypeOK
    OBVIOUS
  <2>1. /\ children \in Seq(Names)
        /\ \A i, j \in DOMAIN children : children[i] = children[j] => i = j
    BY DEF LInv, List, Distinct
  <2>2. \A r \in Readers : reader[r] \in State  BY DEF LInv, Listing
  <2> QED  BY <2>1, <2>2 DEF TypeOK, State
<1> QED  BY <1>1, ListingInvariant, PTL

\* However calls are cut by full buffers and lookups insert while the store is
\* unlocked, a listing misses at most one lasting entry for every removal.
THEOREM MissedCounted == Spec => []MissedAtMostRemoved
<1>1. LInv => MissedAtMostRemoved
  <2> SUFFICES ASSUME LInv, NEW r \in Readers, At(r, "done"), reader[r].removed < MaxCount
               PROVE  Cardinality(reader[r].kept \ reader[r].seen) <= reader[r].removed
    BY DEF MissedAtMostRemoved
  <2>1. Listing(reader[r], children) /\ reader[r].step = "done"  BY DEF LInv, At
  <2>2. Ended(reader[r])  BY <2>1 DEF Listing
  <2> QED  BY <2>2 DEF Ended
<1> QED  BY <1>1, ListingInvariant, PTL

\* And it repeats at most one entry for every insertion.
THEOREM RepeatedCounted == Spec => []RepeatedAtMostAdded
<1>1. LInv => RepeatedAtMostAdded
  <2> SUFFICES ASSUME LInv, NEW r \in Readers, reader[r].added < MaxCount
               PROVE  reader[r].repeated <= reader[r].added
    BY DEF RepeatedAtMostAdded
  <2>1. PICK c : c = reader[r]  OBVIOUS
  <2>2. Listing(c, children)  BY <2>1 DEF LInv
  <2>3. c \in State  BY <2>2 DEF Listing
  <2>4. c.repeated \in Nat /\ c.added \in Nat  BY <2>3 DEF State
  <2>5. ASSUME NEW p, NEW s \in Nat, Counts(c, children, p, s) PROVE c.repeated <= c.added
    <3>1. Cardinality(Ahead(c, children, p)) \in Nat  BY <2>3, CountedFinite
    <3> QED  BY <2>1, <2>4, <2>5, <3>1 DEF Counts
  <2>6. CASE c.step = "done"
    BY <2>1, <2>2, <2>6 DEF Listing, Ended
  <2>7. CASE c.step = "user"
    <3>1. Counts(c, children, Before(c.pos), 0)  BY <2>2, <2>7 DEF Listing, Waiting
    <3>2. 0 \in Nat  OBVIOUS
    <3> QED  BY <2>1, <2>5, <3>1, <3>2
  <2>8. CASE c.step = "emit"
    <3>1. Emitting(c, children)  BY <2>2, <2>8 DEF Listing
    <3>2. PICK k \in DOMAIN children : c.pos <= k + 1 /\ Counts(c, children, k - 1, k + 1 - c.pos)
      BY <3>1 DEF Emitting
    <3>3. c.pos \in Nat /\ k \in Nat
      BY <2>3, ListFits DEF LInv, State
    <3>4. PICK s \in Nat : s = k + 1 - c.pos  BY <3>2, <3>3
    <3>5. Counts(c, children, k - 1, s)  BY <3>2, <3>4
    <3> QED  BY <2>1, <2>5, <3>5
  <2> QED  BY <2>1, <2>2, <2>6, <2>7, <2>8 DEF Listing
<1> QED  BY <1>1, ListingInvariant, PTL

=============================================================================
