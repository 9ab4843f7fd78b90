----------------------------- MODULE SetAccess -----------------------------
(***************************************************************************)
(* What the macro promises about its signal set: threads that send read it *)
(* together, and it is changed only while none of them does.  The promise  *)
(* ends with the first incident (see lost in module Macro), after which    *)
(* anything can happen.                                                    *)
(***************************************************************************)
CONSTANT Readers

VARIABLES users, writing, broken

vars == <<users, writing, broken>>

Init == users = {} /\ writing = FALSE /\ broken = FALSE

Enter(t) ==
  /\ ~ broken /\ ~ writing
  /\ users' = users \cup {t}
  /\ UNCHANGED <<writing, broken>>

Leave(t) ==
  /\ ~ broken
  /\ users' = users \ {t}
  /\ UNCHANGED <<writing, broken>>

BeginWrite ==
  /\ ~ broken /\ users = {}
  /\ writing' = TRUE
  /\ UNCHANGED <<users, broken>>

EndWrite ==
  /\ ~ broken
  /\ writing' = FALSE
  /\ UNCHANGED <<users, broken>>

Break ==
  /\ broken' = TRUE
  /\ users' \in SUBSET Readers
  /\ writing' \in BOOLEAN

Next == (\E t \in Readers : Enter(t) \/ Leave(t)) \/ BeginWrite \/ EndWrite \/ Break

Spec == Init /\ [][Next]_vars
=============================================================================
