----------------------------- MODULE AddressBook -----------------------------
(***************************************************************************)
(* What `ssherpa target' promises: a command changes one target, all at    *)
(* once and in what was asked for only.  Whoever else writes the book, or  *)
(* spoils a write, turns over `outside' and may do anything to it.         *)
(***************************************************************************)
EXTENDS Naturals

CONSTANTS Names,   \* of targets
          Fields,  \* what is kept of a target; "host" is its address
          Values,  \* a field can have
          None     \* no such target; a field that is not there

VARIABLES book,    \* of every name its fields, or None
          outside

Given == [Fields -> Values \cup {None}]
Changed(vars, set, unset) ==
  [f \in Fields |-> IF f \in unset THEN None
                    ELSE IF set[f] # None THEN set[f] ELSE vars[f]]

Init == book = [n \in Names |-> None] /\ outside = 0

Add(n, vars) ==
  /\ book[n] = None /\ vars["host"] # None
  /\ book' = [book EXCEPT ![n] = vars] /\ UNCHANGED outside
Update(n, set, unset) ==
  /\ book[n] # None
  /\ book' = [book EXCEPT ![n] = Changed(@, set, unset)] /\ UNCHANGED outside
Remove(n) ==
  /\ book[n] # None
  /\ book' = [book EXCEPT ![n] = None] /\ UNCHANGED outside
Others == outside' = (outside + 1) % 2

Command(n) ==
  \/ Remove(n)
  \/ \E set \in Given :
       \/ Add(n, set)
       \/ \E unset \in SUBSET (Fields \ {"host"}) : Update(n, set, unset)

\* A command that changes nothing is a stuttering step.
Next == Others \/ \E n \in Names : book'[n] # book[n] /\ Command(n)
Spec == Init /\ [][Next]_<<book, outside>>
=============================================================================
