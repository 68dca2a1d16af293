---------------------------- MODULE TenancyProofs ----------------------------
(***************************************************************************)
(* What Tenancy comes to for whoever reads the host: the modes exclude     *)
(* each other.  HostModes, shown to implement Tenancy, inherits it.        *)
(***************************************************************************)
EXTENDS Tenancy, TLAPS

LEMMA StepKeepsAtMostOne ==
  ASSUME AtMostOne, [Next]_<<holders, blurred>> PROVE AtMostOne'
<1>1. ASSUME NEW m \in Modes, Come(m) PROVE AtMostOne'
  BY <1>1 DEF AtMostOne, Come
<1>2. ASSUME NEW m \in Modes, Leave(m) PROVE AtMostOne'
  BY <1>2 DEF AtMostOne, Leave
<1>3. CASE Blur
  BY <1>3 DEF AtMostOne, Blur
<1>4. CASE UNCHANGED <<holders, blurred>>
  BY <1>4 DEF AtMostOne
<1> QED BY <1>1, <1>2, <1>3, <1>4 DEF Next

\* A host-mode cluster and a VM cluster are on one host together only where
\* two commands overlapped or an answer was lost: the looks at the other mode
\* in cli.up and cli._up_vm, whatever the modes are.
THEOREM ModesExclude == Spec => []AtMostOne
<1>1. Init => AtMostOne
  BY DEF Init, AtMostOne
<1> QED BY <1>1, StepKeepsAtMostOne, PTL DEF Spec
=============================================================================
