--------------------------- MODULE StageMatching ---------------------------
(***************************************************************************)
(* What a staged trigger does with a signal, in one step: which stages are *)
(* active after it, whether the trigger is completed, and whether a        *)
(* blocking stage asks to block the signal.  All stages are compared with  *)
(* the state before the signal.                                            *)
(***************************************************************************)
EXTENDS Naturals, Sequences

CONSTANTS
  Signals,              \* what can be intercepted
  Sources, Copies,      \* stage arrays the trigger can begin with, and be given later
  Equals(_, _),         \* mcr_Stage_equals(stage, signal)
  Resembles(_, _)       \* mcr_Stage_resembles(stage, signal)

VARIABLES
  stages,  \* the stage array
  active,  \* the activated stages
  result   \* of the last signal: completed, and blocked by a stage

vars == <<stages, active, result>>

Last == Len(stages)

Init == stages \in Sources /\ active = {} /\ result = [completed |-> FALSE, blocked |-> FALSE]

Completes(s) ==
  \/ Last = 0
  \/ (Last = 1 \/ Last - 1 \in active) /\ Equals(stages[Last], s)

\* The first stage is active after every signal that does not complete the trigger.
ActiveAfter(s) ==
  IF Last = 1 THEN active
  ELSE {1} \cup {i \in 2 .. Last - 1 :
                   IF i \in active THEN Resembles(stages[i], s)
                   ELSE i - 1 \in active /\ Equals(stages[i], s)}

Blocking(i) == stages[i].blocking

Complete(s) ==
  /\ Completes(s)
  /\ active' = {}
  /\ result' = [completed |-> TRUE, blocked |-> Last # 0 /\ Blocking(Last)]
  /\ UNCHANGED stages

Advance(s) ==
  /\ ~ Completes(s)
  /\ active' = ActiveAfter(s)
  /\ result' = [completed |-> FALSE,
                blocked |-> Last # 1 /\
                  \E i \in active' : Blocking(i) /\ (i = 1 => Equals(stages[1], s))]
  /\ UNCHANGED stages

Deactivate == active' = {} /\ UNCHANGED <<stages, result>>

Replace == stages' \in Copies \cup {<<>>} /\ active' = {} /\ UNCHANGED result

Next == (\E s \in Signals : Complete(s) \/ Advance(s)) \/ Deactivate \/ Replace

Spec == Init /\ [][Next]_vars
=============================================================================
