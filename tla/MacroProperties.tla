-------------------------- MODULE MacroProperties --------------------------
(* What is claimed of module Macro.                                        *)
EXTENDS Macro

\* thread_macro positions: registered in thread_count; using the captured set.
InUse   == Holding \cup {"capture"}
Counted == InUse \cup {"recheck", "leave", "leaveStore"}
WorkerPoints == Counted \cup {"none", "start", "count", "countStore", "clamp"}
ClientPoints == {"idle", "clear", "running", "dequeue", "wait", "woken", "expired", "cleared",
                 "failed", "resume", "reenable", "write", "reset", "resetCheck", "switch",
                 "enqueue", "sending", "finish", "enable", "gone"}

InSet == {w \in Workers : wpc[w] \in InUse}
CountedWorkers == {w \in Workers : wpc[w] \in Counted}

\* Every field holds a value its C type can hold; in particular queued never leaves
\* the range of its unsigned type, whatever is taken from it.
TypeOK ==
  /\ interruptor \in Interrupts
  /\ queued \in 0 .. QueueWidth - 1
  /\ threadCount \in Int
  /\ sticky \in BOOLEAN
  /\ threadMax \in Nat
  /\ length \in Nat
  /\ freed \in BOOLEAN
  /\ lock \in Workers \cup {NoOne}
  /\ wpc \in [Workers -> WorkerPoints]
  /\ size \in [Workers -> Nat]
  /\ left \in [Workers -> Int]
  /\ iter \in [Workers -> 0 .. MaxPause]
  /\ reg \in [Workers -> Int]
  /\ cpc \in [Waiters -> ClientPoints]
  /\ seen \in [Clients -> Int]
  /\ request \in [Clients -> Interrupts]
  /\ op \in {"edit", "insert", "indirect", "copy", "deinit"}
  /\ mem \in BOOLEAN
  /\ inner \in {"none", "on", "off"}
  /\ calls \in 0 .. Budget
  /\ lost \subseteq {"timeout", "override", "count"}
  /\ stale \subseteq Workers \cup Clients
  /\ credit \in Int
  /\ owed \in Int
  /\ unreset \in BOOLEAN

\* thread_count is the number of threads between its increment and its decrement,
\* until a wait times out or an update of it is lost.
CountAccurate == lost = {} => threadCount = Cardinality(CountedWorkers)

\* "Signal set changes disable the macro, so the set should be valid for the entire
\* loop": once mcr_Macro_disable_confirmed has returned 0, no worker reads the set until
\* the owner is done with it, unless one of the incidents in lost came first.
Exclusion == lost = {} /\ cpc[Owner] = "cleared" => InSet = {}

\* No worker passes mcr_send a signal of a set that has been replaced or freed.
NoStaleSend == lost = {} => \A w \in Workers : wpc[w] = "send" => w \notin stale

\* "One queued macro from one thread will cancel": the workers together cancel no more
\* passes than MCR_INTERRUPT was asked for.
OneCancel == credit >= 0

\* The signal set is used as a lock shared by the workers protects it.
Access == INSTANCE SetAccess WITH
  Readers <- Workers,
  users   <- InSet,
  writing <- cpc[Owner] = "cleared" \/ (op = "deinit" /\ cpc[Owner] = "failed"),
  broken  <- lost # {}

\* The disable protocol implements that lock.
AccessSpec == Access!Spec

-----------------------------------------------------------------------------
(* The inductive invariant.                                                *)

\* While the owner waits for its threads, and until it is done, the macro stays disabled.
Withholding == {"running", "dequeue", "wait", "woken", "expired", "cleared"}
DisableHolds == lost = {} /\ cpc[Owner] \in Withholding => interruptor = DISABLE

\* critical_section is held by the one worker that is inside.
Inside == {"critical", "cancel"}
MutualExclusion == \A w \in Workers : wpc[w] \in Inside <=> lock = w

\* An interrupt that is set, or seen by the worker about to cancel, is not used up.
CreditLeft == interruptor = INTERRUPT \/ (\E w \in Workers : wpc[w] = "cancel") => credit >= 1

\* Only the timeout makes an operation of the owner fail.
FailedTimedOut == cpc[Owner] = "failed" => lost # {}

\* The correction of a negative count in mcr_Macro_receive is not needed.
NoBlip == lost = {} => \A c \in Clients : cpc[c] = "switch" => seen[c] >= 0

SetCurrent == lost = {} => stale \cap Workers = {}

IInv ==
  /\ TypeOK
  /\ CountAccurate
  /\ DisableHolds
  /\ Exclusion
  /\ FailedTimedOut
  /\ NoBlip
  /\ SetCurrent
  /\ MutualExclusion
  /\ CreditLeft
  /\ OneCancel

-----------------------------------------------------------------------------
(* What the documentation says and the code does not do.                   *)

Idle == /\ \A w \in Workers : wpc[w] = "none"
        /\ \A p \in Waiters : cpc[p] \in {"idle", "gone"}

\* "When the macro is triggered, its set of signals is sent": when nothing has been
\* interrupted and all threads are done, every accepted trigger has been sent.
EveryTriggerSends == Idle /\ length > 0 => owed <= 0

-----------------------------------------------------------------------------
(* Liveness.  Running threads are scheduled, a wait ends at the latest by   *)
(* its timeout, and a call that has begun goes on.  No call has to begin.   *)

ClientGoesOn(c) ==
  \/ InterruptWrite(c) \/ ResetBegin(c) \/ ResetCheck(c) \/ Reenable(c)
  \/ ReceiveSwitch(c) \/ ReceiveEnqueue(c) \/ SendStep(c)

OwnerGoesOn ==
  \/ OperateNested \/ Modify \/ StayDisabled \/ Finish \/ CopyEnable \/ Abandon \/ Free
  \/ clear_threads(Owner)

Fairness ==
  /\ \A w \in Workers : WF_vars(thread_macro(w))
  /\ \A r \in Resetters : WF_vars(thread_wait_reset(r))
  /\ \A c \in Clients : WF_vars(ClientGoesOn(c))
  /\ WF_vars(OwnerGoesOn)

FairSpec == Spec /\ Fairness

\* mcr_Macro_disable_confirmed returns, so every operation built on it does, whatever
\* the threads of the macro are busy with.
OwnerReturns == cpc[Owner] = "clear" ~> cpc[Owner] \in {"idle", "gone"}

\* "After all are cancelled, MCR_CONTINUE is set": MCR_INTERRUPT_ALL does not last, unless
\* mcr_thrd has failed to make the thread that lifts it.  Then the call returns an error,
\* and the macro stays interrupted until something else is asked of it.
InterruptAllEnds == interruptor = INTERRUPT_ALL ~> interruptor # INTERRUPT_ALL \/ unreset

Ended == \A w \in Workers : wpc[w] = "none"

\* The threads of a macro that stays disabled come to an end, if it is not sticky.
DisableDrains == <>[](interruptor = DISABLE /\ ~ sticky) => <>[]Ended
=============================================================================
