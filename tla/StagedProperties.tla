-------------------------- MODULE StagedProperties --------------------------
(* What is claimed of module Staged.                                       *)
EXTENDS Staged

Call == [at : {"last", "walk", "function"}, x : Interceptions, i : Nat, block : BOOLEAN]

Result == [completed : BOOLEAN, blocked : BOOLEAN]

\* There is one flag per stage, a call walks within the array, and only the innermost
\* call is not in the function of the trigger.
StagedTypeOK ==
  /\ stages \in Sources \cup Copies \cup {<<>>}
  /\ activated \in [DOMAIN stages -> BOOLEAN]
  /\ calls \in Seq(Call)
  /\ Len(calls) <= Depth
  /\ \A k \in 2 .. Len(calls) : calls[k].at = "function"
  /\ ~ InFunction => Top.i \in 0 .. Count
  /\ CallAt("walk") => Top.i > 0
  /\ made \in 0 .. MaxCalls
  /\ before \subseteq Nat
  /\ result \in Result
  /\ chain \in [1 .. 2 -> Nat]

\* The walk from the end of the array, which changes the flags it reads, has the effect
\* of comparing every stage with the state before the signal; calls that the function of
\* the trigger makes into the same trigger do not disturb it.
Matching == INSTANCE StageMatching WITH
  Signals <- Interceptions,
  active  <- IF InFunction THEN Active ELSE before

MatchingSpec == Matching!Spec

Completing == CallAt("last") /\ result'.completed /\ calls' # <<>> /\ Head(calls').at = "function"

\* A trigger only completes after its stages from the second on were matched one after the
\* other, each by a signal of its own, since all were last deactivated.
CompletesInOrder == [][Completing => Count = 0 \/ chain[2] >= Count]_stagedVars

-----------------------------------------------------------------------------
(* What the documentation says and the code does not do.                   *)

\* "Trigger that is triggered after activating all stages": the first one included.
AllStagesMatched == [][Completing => chain[1] = Count]_stagedVars
=============================================================================
