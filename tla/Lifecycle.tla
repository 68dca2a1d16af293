------------------------------ MODULE Lifecycle ------------------------------
(***************************************************************************)
(* What `up' and `down' promise of a cluster, in either mode.  `up' only   *)
(* adds, also where it starts from what an interrupted one has left, and   *)
(* says Cluster ready of a whole cluster; `down' only takes away, and says *)
(* Removed once nothing is left.  A command may end at any step without a  *)
(* word.  The promise holds while nobody else works on the host and the    *)
(* host answers: from then on the command is no longer sure.               *)
(***************************************************************************)
VARIABLES
  parts,   \* what is on the host
  joined,  \* the parts that belong to the cluster
  phase,   \* "up" or "down" while a command runs, "rest" otherwise
  said,    \* what the last command has said: "ready", "removed" or nothing
  sure     \* nothing has come between since the last command began

vars == <<parts, joined, phase, said, sure>>

Init ==
  /\ parts = {} /\ joined = {}
  /\ phase = "rest" /\ said = "" /\ sure = TRUE

Begin ==
  /\ phase = "rest" /\ phase' \in {"up", "down"}
  /\ said' = "" /\ sure' = TRUE
  /\ UNCHANGED <<parts, joined>>

Adds == parts \subseteq parts' /\ joined \subseteq joined' /\ joined' \subseteq parts'
TakesAway == parts' \subseteq parts /\ joined' \subseteq joined \cap parts'

\* A step of a command, maybe its last.
Work ==
  /\ phase # "rest" /\ phase' \in {phase, "rest"}
  /\ sure => IF phase = "up" THEN Adds ELSE TakesAway
  /\ said' = "" /\ UNCHANGED sure

SayReady ==
  /\ phase = "up" /\ phase' = "rest" /\ said' = "ready"
  /\ sure => parts # {} /\ joined = parts
  /\ UNCHANGED <<parts, joined, sure>>

SayRemoved ==
  /\ phase = "down" /\ phase' = "rest" /\ said' = "removed"
  /\ sure => parts = {}
  /\ UNCHANGED <<parts, joined, sure>>

\* Somebody works on the host, or it stops answering.
Disturb == sure' = FALSE /\ UNCHANGED <<phase, said>>

Next == Begin \/ Work \/ SayReady \/ SayRemoved \/ Disturb
Spec == Init /\ [][Next]_vars
=============================================================================
