------------------------------- MODULE Staged -------------------------------
(***************************************************************************)
(* A staged trigger (src/standard/staged.c, stage.c, src/macro/trigger.c): *)
(* a sequence of stages that signals have to match one after the other.    *)
(* mcr_Staged_receive walks the stage array from its end and changes it on *)
(* the way.  When the last stage matches, the function of the trigger is   *)
(* called; it may intercept further signals, also into the same trigger.   *)
(***************************************************************************)
EXTENDS Naturals, Sequences

CONSTANTS
  Types,         \* signal interfaces
  Values,        \* what mcr_Instance_compare tells apart
  ModFlags,         \* modifiers
  NoType,        \* isignal = NULL
  NoSignal,      \* a dispatch without a signal
  Sources,       \* stage arrays a trigger can begin with, mcr_Staged_init with none
  Copies,        \* stage arrays it can be copied from later, none activated
  Interceptions, \* the signals that are dispatched, with the modifiers of that moment
  Depth,         \* bound on calls of mcr_Staged_receive within each other
  MaxCalls         \* bound on the calls that are made

Signal == [type : Types, value : Values]
Stage  == [type : Types \cup {NoType}, value : Values, modifiers : SUBSET ModFlags,
           trigger_flags : 0 .. 7, blocking : BOOLEAN]

ASSUME StagedAssumption ==
  /\ NoType \notin Types /\ NoSignal \notin Signal
  /\ Sources \subseteq Seq(Stage) /\ Copies \subseteq Seq(Stage) /\ <<>> \in Sources
  /\ Interceptions \subseteq [signal : Signal \cup {NoSignal}, mods : SUBSET ModFlags]
  /\ Depth \in Nat /\ MaxCalls \in Nat

VARIABLES
  stages,     \* the stage array
  activated,  \* the member of that name of each stage
  calls,      \* the calls of mcr_Staged_receive in progress, the innermost first
  made,       \* how many calls were made
  \* history
  before,     \* activated when the innermost call began
  result,     \* what the last walk came to
  chain       \* chain[k]: how many stages from k on were matched in order since they
              \* were last deactivated, counting the stages before k

stagedVars == <<stages, activated, calls, made, before, result, chain>>

-----------------------------------------------------------------------------
(* Matching.                                                               *)

\* MCR_TF_IS_MOD
IsMod(lhs, rhs, flags) ==
  \/ flags = 1 /\ lhs \cap rhs = {}
  \/ flags = 2 /\ lhs # rhs /\ lhs \cap rhs # {}
  \/ flags = 3 /\ lhs # rhs
  \/ flags = 4 /\ lhs = rhs
  \/ flags = 5 /\ (lhs = rhs \/ lhs \cap rhs = {})
  \/ flags = 6 /\ lhs \cap rhs # {}
  \/ flags = 7

Equals(stage, x) ==
  /\ stage.type = IF x.signal = NoSignal THEN NoType ELSE x.signal.type
  /\ IsMod(stage.modifiers, x.mods, stage.trigger_flags)
  /\ x.signal # NoSignal => stage.value = x.signal.value

Resembles(stage, x) ==
  IF x.signal = NoSignal THEN stage.type = NoType
  ELSE stage.type \in {NoType, x.signal.type}

-----------------------------------------------------------------------------
(* mcr_Staged_receive.  A call is at the last stage, walks back to the     *)
(* first one, or waits for the function of the trigger.                    *)

Begins(s) ==
  /\ stages = s
  /\ activated = [i \in DOMAIN s |-> FALSE]
  /\ calls = <<>> /\ made = 0
  /\ before = {} /\ result = [completed |-> FALSE, blocked |-> FALSE]
  /\ chain = [k \in 1 .. 2 |-> k - 1]

StagedInit == \E s \in Sources : Begins(s)

Active == {i \in DOMAIN stages : activated[i]}
Count  == Len(stages)
Top    == Head(calls)

InFunction == calls # <<>> => Top.at = "function"

\* The signal counts for the longest part of a chain that it continues.
Extended(x) ==
  [k \in 1 .. 2 |-> IF chain[k] < Count /\ Equals(stages[chain[k] + 1], x)
                    THEN chain[k] + 1 ELSE chain[k]]

ReceiveBegins ==
  /\ InFunction /\ Len(calls) < Depth /\ made < MaxCalls
  /\ \E x \in Interceptions :
       /\ calls' = <<[at |-> "last", x |-> x, i |-> Count, block |-> FALSE]>> \o calls
       /\ chain' = Extended(x)
  /\ made' = made + 1
  /\ before' = Active
  /\ UNCHANGED <<stages, activated, result>>

Continue(call) == calls' = <<call>> \o Tail(calls)

\* mcr_Staged_deactivate.  Fault: nothing is deactivated.
KeptOn == activated
AllOff == [i \in DOMAIN stages |-> FALSE]
NoChain == [k \in 1 .. 2 |-> k - 1]

\* The function is called when all stages have been deactivated.
Complete(block) ==
  /\ activated' = AllOff
  /\ chain' = NoChain
  /\ Continue([Top EXCEPT !.at = "function", !.block = block])
  /\ result' = [completed |-> TRUE, blocked |-> block]

Return(block) ==
  /\ calls' = Tail(calls)
  /\ result' = [completed |-> FALSE, blocked |-> block]

CallAt(point) == calls # <<>> /\ Top.at = point

\* Fault: the last stage is enough.
LastAlone == TRUE
MayComplete == Count > 1 => activated[Count - 1]

CheckLast ==
  /\ CallAt("last")
  /\ \/ Count = 0 /\ Complete(FALSE)
     \/ /\ Count # 0 /\ MayComplete /\ Equals(stages[Count], Top.x)
        /\ Complete(stages[Count].blocking)
     \/ /\ Count = 1 /\ ~ Equals(stages[1], Top.x)
        /\ Return(FALSE)
        /\ UNCHANGED <<activated, chain>>
     \/ /\ Count > 1 /\ ~ (MayComplete /\ Equals(stages[Count], Top.x))
        /\ Continue([Top EXCEPT !.at = "walk",
                                !.i = IF MayComplete THEN Count - 1 ELSE Count])
        /\ UNCHANGED <<activated, chain, result>>
  /\ UNCHANGED <<stages, made, before>>

\* Fault: an activated stage has to match again.
OnAgain(i) == activated[i - 1] /\ Equals(stages[i], Top.x)
On(i) == IF activated[i] THEN Resembles(stages[i], Top.x)
         ELSE activated[i - 1] /\ Equals(stages[i], Top.x)

Walk ==
  /\ CallAt("walk") /\ Top.i > 1
  /\ activated' = [activated EXCEPT ![Top.i] = On(Top.i)]
  /\ Continue([Top EXCEPT !.i = Top.i - 1,
                          !.block = Top.block \/ (On(Top.i) /\ stages[Top.i].blocking)])
  /\ UNCHANGED <<stages, made, before, result, chain>>

\* The first stage is activated whether it matches or not.
First ==
  /\ CallAt("walk") /\ Top.i = 1
  /\ activated' = [activated EXCEPT ![1] = TRUE]
  /\ Return(Top.block \/ (Equals(stages[1], Top.x) /\ stages[1].blocking))
  /\ UNCHANGED <<stages, made, before, chain>>

FunctionReturns ==
  /\ CallAt("function")
  /\ calls' = Tail(calls)
  /\ UNCHANGED <<stages, activated, made, before, result, chain>>

mcr_Staged_receive == ReceiveBegins \/ CheckLast \/ Walk \/ First \/ FunctionReturns

-----------------------------------------------------------------------------
(* The owner, between two calls or in the function of the trigger.         *)

Owned == InFunction /\ made < MaxCalls /\ made' = made + 1 /\ chain' = NoChain

mcr_Staged_deactivate ==
  /\ Owned
  /\ activated' = AllOff
  /\ UNCHANGED <<stages, calls, before, result>>

\* Fault: the flags of the old stages are kept.
OldFlags(s) == activated
FreshFlags(s) == [i \in DOMAIN s |-> FALSE]

\* mcr_Staged_clear, mcr_Staged_copy
Replace ==
  /\ Owned
  /\ \E s \in Copies \cup {<<>>} : stages' = s /\ activated' = FreshFlags(s)
  /\ UNCHANGED <<calls, before, result>>

\* The bound is reached and every call has returned.
StagedDone == calls = <<>> /\ made = MaxCalls /\ UNCHANGED stagedVars

StagedNext == mcr_Staged_receive \/ mcr_Staged_deactivate \/ Replace \/ StagedDone

StagedSpec == StagedInit /\ [][StagedNext]_stagedVars
=============================================================================
