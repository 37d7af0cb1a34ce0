---------------------------- MODULE VtfsNamespace ----------------------------
(***************************************************************************)
(* What the inode operations of vtfs promise together, with no threads,    *)
(* locks or memory: a set of names, each in a directory and each naming an *)
(* inode, changed by one name at a time.  VtfsInodeOps implements it.      *)
(***************************************************************************)
EXTENDS Integers

CONSTANT Names

VARIABLES
  names,   \* what the namespace holds
  counter  \* the next inode number

RootIno == 1000

Name == [dir: Nat, name: Names, ino: Nat, isdir: BOOLEAN]

IsDirectory(ino) == ino = RootIno \/ \E x \in names : x.ino = ino /\ x.isdir
Free(d, n) == ~ \E x \in names : x.dir = d /\ x.name = n

Init == names = {} /\ counter = RootIno + 1

\* A free name in an existing directory becomes a new file or directory.
Create(d, n, isdir) ==
  /\ IsDirectory(d) /\ Free(d, n)
  /\ names' = names \cup {[dir |-> d, name |-> n, ino |-> counter, isdir |-> isdir]}
  /\ counter' = counter + 1

\* A free name in an existing directory becomes a name of an existing file.
Link(d, n, file) ==
  /\ IsDirectory(d) /\ Free(d, n) /\ ~file.isdir
  /\ names' = names \cup {[dir |-> d, name |-> n, ino |-> file.ino, isdir |-> FALSE]}
  /\ UNCHANGED counter

\* A name goes, a directory's only when it is empty.
Remove(x) ==
  /\ x.isdir => ~ \E y \in names : y.dir = x.ino
  /\ names' = names \ {x}
  /\ UNCHANGED counter

\* An operation runs out of memory after it drew a number.
LoseNumber == counter' = counter + 1 /\ UNCHANGED names

Next ==
  \/ \E x \in names : Remove(x)
  \/ \E d \in {RootIno} \cup {x.ino : x \in names}, n \in Names :
       \/ \E isdir \in BOOLEAN : Create(d, n, isdir)
       \/ \E file \in names : Link(d, n, file)
  \/ LoseNumber

Spec == Init /\ [][Next]_<<names, counter>>

=============================================================================
