------------------------------- MODULE Tenancy -------------------------------
(***************************************************************************)
(* What SSHerpa promises of port 6443: a host-mode cluster and a VM        *)
(* cluster never share a host.  One mode may come once the other is gone.  *)
(* The promise ends where a command is not alone: its sight of the host    *)
(* is blurred once another one runs beside it, or once a command whose     *)
(* answer never came may still be at work.                                 *)
(***************************************************************************)
EXTENDS FiniteSets

CONSTANT Modes

VARIABLES holders,  \* the modes that have something on the host
          blurred

Init == holders = {} /\ blurred = FALSE

Come(m) ==
  /\ holders \subseteq {m} \/ blurred
  /\ holders' = holders \cup {m} /\ UNCHANGED blurred
Leave(m) == holders' = holders \ {m} /\ UNCHANGED blurred
Blur == blurred' = TRUE /\ UNCHANGED holders

Next == (\E m \in Modes : Come(m) \/ Leave(m)) \/ Blur
Spec == Init /\ [][Next]_<<holders, blurred>>

\* At most one mode holds the host while every command is alone.
AtMostOne == \A m, n \in holders : m = n \/ blurred
=============================================================================
