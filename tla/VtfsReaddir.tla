----------------------------- MODULE VtfsReaddir -----------------------------
(***************************************************************************)
(* Listing a directory (vtfs_iterate of module/dir_ops.c) while its        *)
(* entries come and go.  A program reads a directory with as many calls    *)
(* of getdents as it takes, until one returns nothing; each call is one    *)
(* vtfs_iterate, which goes on where the last one stopped by counting      *)
(* entries from the head of the children list.                             *)
(*                                                                         *)
(* A call holds the directory's i_rwsem, shared (iterate_shared).  create, *)
(* mkdir, link, unlink and rmdir hold it exclusively, but lookup shares    *)
(* it, and a lookup that fetches a name from the server inserts an entry.  *)
(* The store's lock is dropped around each dir_emit.                       *)
(***************************************************************************)
EXTENDS Integers, Sequences, FiniteSets, FiniteSetsExt, Functions

CONSTANTS
  Readers,   \* open directories, each with its file position
  Names,     \* the names an entry can have
  MaxRoom,   \* bound: entries that fit in the buffer of one getdents
  MaxCount   \* bound: changes of the directory counted during one listing

ASSUME ReaddirAssumption ==
  /\ IsFiniteSet(Names) /\ {".", ".."} \cap Names = {}
  /\ MaxRoom \in Nat \ {0} /\ MaxCount \in Nat

VARIABLES
  children,  \* the list dir_entry->children, from its head
  reader     \* the state of each open directory

vars == <<children, reader>>

NULL == "null"
Dots == <<".", "..">>

\* step is "done" when the program has seen the end, "user" between two calls,
\* "emit" in a call that is about to emit at with the store unlocked.
Closed == [step |-> "done", pos |-> 0, at |-> NULL, room |-> 0, got |-> 0,
           seen |-> {}, repeated |-> 0, \* history: what was emitted, and again
           kept |-> {},                 \* history: there since the listing began
           added |-> 0, removed |-> 0]  \* history: changes since it began

Init == children = <<>> /\ reader = [r \in Readers |-> Closed]

At(r, step) == reader[r].step = step

\* The call of a reader holds the directory's i_rwsem.  Mutant: it does not.
InNoCall(r) == FALSE
InCall(r) == At(r, "emit")

-----------------------------------------------------------------------------
(***************************************************************************)
(* The directory changes.                                                  *)
(***************************************************************************)
Plus(n, m) == IF n + m < MaxCount THEN n + m ELSE MaxCount

\* list_add puts a new entry at the head.  It may come in the middle of a walk,
\* from a lookup that shares i_rwsem.
Insert(n) ==
  /\ n \notin Range(children)
  /\ children' = <<n>> \o children
  /\ reader' = [r \in Readers |->
       IF At(r, "done") THEN reader[r] ELSE [reader[r] EXCEPT !.added = Plus(@, 1)]]

Index(n) == CHOOSE i \in DOMAIN children : children[i] = n

\* unlink and rmdir wait for the calls of all readers; list_del.
Remove(n) ==
  /\ n \in Range(children)
  /\ \A r \in Readers : ~InCall(r)
  /\ children' = SubSeq(children, 1, Index(n) - 1)
                   \o SubSeq(children, Index(n) + 1, Len(children))
  /\ reader' = [r \in Readers |->
       IF At(r, "done") THEN reader[r]
       ELSE [reader[r] EXCEPT !.removed = Plus(@, 1), !.kept = @ \ {n}]]

-----------------------------------------------------------------------------
(***************************************************************************)
(* The reader.                                                             *)
(***************************************************************************)

\* opendir, or rewinddir after the end (generic_file_llseek): position 0.
Open(r) ==
  /\ At(r, "done")
  /\ reader' = [reader EXCEPT ![r] =
                  [Closed EXCEPT !.step = "user", !.kept = Range(children)]]
  /\ UNCHANGED children

\* The program calls again until a call returns nothing.
Returned(c) == [c EXCEPT !.step = IF c.got = 0 THEN "done" ELSE "user",
                         !.at = NULL, !.room = 0, !.got = 0]

\* The walk stands on the i-th entry of the list, or has come to its end.
Stand(c, i) ==
  IF i <= Len(children) THEN [c EXCEPT !.step = "emit", !.at = children[i]]
                        ELSE Returned(c)

\* Mutants: one entry too few, or too many, is passed over.
SkipOneLess(pos) == IF pos > 3 THEN pos - 3 ELSE 0
SkipOneMore(pos) == pos - 1

\* while (offset > 2) offset--: the entries passed over.
Skipped(pos) == pos - 2

\* The program gets these names.
Got(c, what) ==
  [c EXCEPT !.got = @ + Cardinality(what), !.room = @ - Cardinality(what),
            !.seen = @ \cup what,
            !.repeated = Plus(@, Cardinality(what \cap c.seen))]

\* A call: "." and "..", then, under the lock, the walk to the first entry that
\* has not been counted before.
Enter(r) ==
  \E room \in 1 .. MaxRoom :
    LET c == reader[r]
        dots == SubSeq(Dots, c.pos + 1, 2)
        n == Min({Len(dots), room})
        d == Got([c EXCEPT !.pos = @ + n, !.room = room], Range(SubSeq(dots, 1, n)))
    IN  /\ At(r, "user")
        /\ reader' = [reader EXCEPT ![r] =
                        IF n < Len(dots) THEN Returned(d)
                                         ELSE Stand(d, Skipped(d.pos) + 1)]
        /\ UNCHANGED children

\* Mutants: the list has no end; the position is not moved.
FollowsRound(n) == IF Index(n) = Len(children) THEN 1 ELSE Index(n) + 1
PosStays(pos) == pos

Follows(n) == Index(n) + 1
PosAfter(pos) == pos + 1

\* dir_emit without the lock: it fails when the buffer is full, and the call
\* returns with the position at this entry; else the walk moves on.
Emit(r) ==
  LET c == reader[r] IN
  /\ At(r, "emit")
  /\ reader' = [reader EXCEPT ![r] =
       IF c.room = 0 THEN Returned(c)
       ELSE Stand(Got([c EXCEPT !.pos = PosAfter(@)], {c.at}), Follows(c.at))]
  /\ UNCHANGED children

Read(r) == Enter(r) \/ Emit(r)

Next ==
  \/ \E n \in Names : Insert(n) \/ Remove(n)
  \/ \E r \in Readers : Open(r) \/ Read(r)

\* A program that lists a directory calls getdents until the end, and a call
\* waits for nothing.
Fairness == \A r \in Readers : WF_vars(Read(r))

Spec == Init /\ [][Next]_vars /\ Fairness

-----------------------------------------------------------------------------
TypeOK ==
  /\ children \in Seq(Names)
  /\ \A i, j \in DOMAIN children : children[i] = children[j] => i = j
  /\ \A r \in Readers :
       LET c == reader[r] IN
       /\ c.step \in {"done", "user", "emit"} /\ c.at \in Names \cup {NULL}
       /\ c.pos \in 0 .. Cardinality(Names) + 2
       /\ c.room \in 0 .. MaxRoom /\ c.got \in 0 .. MaxRoom
       /\ c.seen \subseteq Names \cup Range(Dots) /\ c.kept \subseteq Names
       /\ {c.repeated, c.added, c.removed} \subseteq 0 .. MaxCount

\* The entry a walk stands on while the store is unlocked is not freed under
\* it: next to insertions by lookups, no removal can come in.
WalkStandsOnLive ==
  \A r \in Readers : At(r, "emit") => reader[r].at \in Range(children)

\* Every removal hides at most one entry that was there all the time from a
\* listing; insertions hide none, nor do full buffers.
MissedAtMostRemoved ==
  \A r \in Readers : At(r, "done") /\ reader[r].removed < MaxCount =>
    Cardinality(reader[r].kept \ reader[r].seen) <= reader[r].removed

\* Every insertion repeats at most one entry in a listing; removals repeat none,
\* nor do full buffers.
RepeatedAtMostAdded ==
  \A r \in Readers : reader[r].added < MaxCount =>
    reader[r].repeated <= reader[r].added

\* A listing comes to its end, also in a directory that never stops changing,
\* as long as the number of its entries is bounded (here by the names).
ListingEnds == \A r \in Readers : ~At(r, "done") ~> At(r, "done")

=============================================================================
