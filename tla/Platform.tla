------------------------------ MODULE Platform ------------------------------
(***************************************************************************)
(* What the library builds on: on Linux the devices that all contexts      *)
(* share, on Windows the grabbers of a context. A behaviour is one of      *)
(* either system.                                                          *)
(***************************************************************************)
EXTENDS Lifecycle, Grabbers

VARIABLE system

vars == << system, linuxVars, grabberVars >>

TypeOK == system \in {"linux", "windows"} /\ LifecycleTypeOK /\ GrabberTypeOK

Init == system \in {"linux", "windows"} /\ LifecycleInit /\ GrabberInit

Next ==
  \/ system = "linux" /\ LifecycleNext /\ UNCHANGED << system, grabberVars >>
  \/ system = "windows" /\ GrabberNext /\ UNCHANGED << system, linuxVars >>

Spec == Init /\ [][Next]_vars

GrabberProceeds(t) == system = "windows" /\ Proceeds(t) /\ UNCHANGED << system, linuxVars >>
GrabberWaits(t) == system = "windows" /\ ~ freed /\ Wait(t) /\ UNCHANGED << system, linuxVars >>

\* The threads of a grabber are scheduled, and one that waits for the mutex gets it
\* some time.
FairSpec ==
  /\ Spec
  /\ \A t \in GrabThreads : WF_vars(GrabberProceeds(t)) /\ SF_vars(GrabberWaits(t))
=============================================================================
