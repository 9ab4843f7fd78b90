------------------------------ MODULE Reception ------------------------------
(***************************************************************************)
(* The ways of a signal: a thread that makes signals of events, the        *)
(* dispatchers that bring signals to receivers, and a staged trigger, the  *)
(* receiver with a memory of its own. A behaviour is one of the reading    *)
(* thread with receivers that may block, one of the dispatchers with       *)
(* receivers that may block, add and remove too, or one of the trigger,    *)
(* with all that its function may do.                                      *)
(***************************************************************************)
EXTENDS StagedProperties, DispatchProperties, Events

VARIABLE side

vars == <<side, stagedVars, dispatchVars, eventVars>>

TypeOK == side \in {"trigger", "dispatch", "events"} /\ StagedTypeOK /\ DispatchTypeOK /\ EventsTypeOK

\* The sides that are not looked at have nothing to do.
NoReceivers == Prepared([p \in Places |-> <<>>], {})

Init ==
  \/ side = "trigger" /\ StagedInit /\ NoReceivers /\ NoEvents
  \/ side = "dispatch" /\ Begins(<<>>) /\ DispatchInit /\ NoEvents
  \/ side = "events" /\ Begins(<<>>) /\ NoReceivers /\ EventsInit

Next ==
  \/ side = "trigger" /\ StagedNext /\ UNCHANGED <<side, dispatchVars, eventVars>>
  \/ side = "dispatch" /\ DispatchNext /\ UNCHANGED <<side, stagedVars, eventVars>>
  \/ side = "events" /\ EventsNext /\ UNCHANGED <<side, stagedVars, dispatchVars>>

Spec == Init /\ [][Next]_vars
=============================================================================
