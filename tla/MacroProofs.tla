---------------------------- MODULE MacroProofs ----------------------------
(***************************************************************************)
(* Proofs of the safety properties of module Macro: its types, the         *)
(* inductive invariant IInv of the disable protocol, and what follows.     *)
(***************************************************************************)
EXTENDS MacroProperties, FiniteSetTheorems, TLAPS

LEMMA WrapInRange ==
  ASSUME NEW n \in Int
  PROVE  Wrap(n) \in 0 .. QueueWidth - 1
BY MacroAssumption DEF Wrap

LEMMA InitType == Init => TypeOK
<1> SUFFICES ASSUME Init PROVE TypeOK
  OBVIOUS
<1>1. threadMax \in Nat
  BY MacroAssumption DEF Init, BoundThreadMax
<1>2. sticky \in BOOLEAN
  BY MacroAssumption DEF Init
<1>3. wpc \in [Workers -> WorkerPoints] /\ cpc \in [Waiters -> ClientPoints]
  BY DEF Init, WorkerPoints, ClientPoints
<1>4. size \in [Workers -> Nat] /\ left \in [Workers -> Int] /\ reg \in [Workers -> Int]
      /\ iter \in [Workers -> 0 .. MaxPause]
  BY MacroAssumption DEF Init
<1>5. freed \in BOOLEAN /\ mem \in BOOLEAN /\ unreset \in BOOLEAN
  BY Zenon DEF Init
<1>6. interruptor \in Interrupts /\ request \in [Clients -> Interrupts]
  BY DEF Init, CONTINUE, Interrupts
<1>7. queued \in 0 .. QueueWidth - 1 /\ calls \in 0 .. Budget /\ length \in Nat
  BY MacroAssumption DEF Init
<1>8. seen \in [Clients -> Int] /\ threadCount \in Int /\ credit \in Int /\ owed \in Int
  BY DEF Init
<1>9. /\ lock \in Workers \cup {NoOne}
      /\ op \in {"edit", "insert", "indirect", "copy", "deinit"}
      /\ inner \in {"none", "on", "off"}
      /\ lost \subseteq {"timeout", "override", "count"}
      /\ stale \subseteq Workers \cup Clients
  BY DEF Init
<1>10. QED
  BY <1>1, <1>2, <1>3, <1>4, <1>5, <1>6, <1>7, <1>8, <1>9, Zenon DEF TypeOK

Incidents == {"timeout", "override", "count"}

LEMMA SetInterruptorType ==
  ASSUME lost \subseteq Incidents, unreset \in BOOLEAN, NEW p, NEW i \in Interrupts, SetInterruptor(p, i)
  PROVE  interruptor' \in Interrupts /\ lost' \subseteq Incidents /\ unreset' \in BOOLEAN
BY DEF SetInterruptor, Incidents

LEMMA PauseEndType ==
  ASSUME TypeOK, NEW w \in Workers, ThreadPauseEnd(w)
  PROVE  interruptor' \in Interrupts /\ lost' \subseteq Incidents /\ unreset' \in BOOLEAN
<1>1. lost \subseteq Incidents /\ unreset \in BOOLEAN /\ interruptor \in Interrupts /\ CONTINUE \in Interrupts
  BY DEF TypeOK, Incidents, CONTINUE, Interrupts
<1>2. UNCHANGED <<interruptor, lost, unreset>> \/ SetInterruptor(w, CONTINUE)
  BY DEF ThreadPauseEnd
<1>3. QED
  BY <1>1, <1>2, SetInterruptorType

LEMMA FinishType ==
  ASSUME TypeOK, Finish
  PROVE  interruptor' \in Interrupts /\ lost' \subseteq Incidents /\ unreset' \in BOOLEAN
<1>1. lost \subseteq Incidents /\ unreset \in BOOLEAN /\ interruptor \in Interrupts /\ CONTINUE \in Interrupts
  BY DEF TypeOK, Incidents, CONTINUE, Interrupts
<1>2. UNCHANGED <<interruptor, lost, unreset>> \/ SetInterruptor(Owner, CONTINUE)
  BY DEF Finish
<1>3. QED
  BY <1>1, <1>2, SetInterruptorType

LEMMA ExpiredType ==
  ASSUME TypeOK, NEW p \in Waiters, ClearExpired(p)
  PROVE  threadCount' \in Int /\ lost' \subseteq Incidents
<1>1. threadCount' \in Int
  BY DEF ClearExpired, TypeOK
<1>2. lost' \subseteq Incidents
  BY DEF ClearExpired, TypeOK, Incidents
<1>3. QED
  BY <1>1, <1>2

LEMMA WorkerType ==
  ASSUME TypeOK, NEW w \in Workers, thread_macro(w)
  PROVE  TypeOK'
<1> USE DEF TypeOK, WGo, macro, shared, wargs, cvars, cargs, ownvars, history,
            WorkerPoints, ClientPoints, Counted, InUse, Holding
<1>1. CASE ThreadBegin(w)
  BY <1>1 DEF ThreadBegin, WStep
<1>2. CASE ThreadCount(w)
  <2>1. CASE CountAtOnce(w, "count", "recheck", 1)
    BY <1>2, <2>1 DEF ThreadCount, CountAtOnce
  <2>2. CASE CountLoad(w, "count", "countStore")
    BY <1>2, <2>2 DEF ThreadCount, CountLoad
  <2>3. CASE CountStore(w, "countStore", "recheck", 1)
    BY <1>2, <2>3 DEF ThreadCount, CountStore
  <2>4. QED
    BY <1>2, <2>1, <2>2, <2>3 DEF ThreadCount
<1>3. CASE ThreadRecheck(w)
  BY <1>3 DEF ThreadRecheck, AfterRecheck, Woken
<1>4. CASE ThreadCapture(w)
  BY <1>4, MacroAssumption DEF ThreadCapture
<1>5. CASE ThreadCanPause(w)
  BY <1>5, MacroAssumption DEF ThreadCanPause
<1>6. CASE ThreadPausing(w)
  <2>1. iter' \in [Workers -> 0 .. MaxPause]
    BY <1>6, MacroAssumption DEF ThreadPausing, Waited
  <2>2. wpc' \in [Workers -> WorkerPoints]
    BY <1>6 DEF ThreadPausing
  <2>3. UNCHANGED <<macro, lock, size, left, reg, cvars, history>>
    BY <1>6 DEF ThreadPausing
  <2>4. QED
    BY <2>1, <2>2, <2>3
<1>7. CASE ThreadPauseEnd(w)
  <2>1. wpc' \in [Workers -> WorkerPoints]
    BY <1>7 DEF ThreadPauseEnd
  <2>2. /\ interruptor' \in Interrupts /\ lost' \subseteq {"timeout", "override", "count"}
        /\ unreset' \in BOOLEAN
    BY <1>7, PauseEndType DEF Incidents
  <2>3. UNCHANGED <<queued, threadCount, shared, lock, wargs, cvars, stale, credit, owed>>
    BY <1>7 DEF ThreadPauseEnd
  <2>4. QED
    BY <2>1, <2>2, <2>3
<1>8. CASE ThreadLoop(w)
  BY <1>8 DEF ThreadLoop, WStep
<1>9. CASE ThreadTake(w)
  BY <1>9 DEF ThreadTake, StartPass
<1>10. CASE ThreadDecrement(w)
  BY <1>10, WrapInRange DEF ThreadDecrement, StartPass
<1>11. CASE ThreadOverdraw(w)
  BY <1>11, MacroAssumption DEF ThreadOverdraw
<1>12. CASE ThreadSignal(w)
  BY <1>12 DEF ThreadSignal, WStep
<1>13. CASE ThreadAcquire(w)
  BY <1>13 DEF ThreadAcquire
<1>14. CASE ThreadCritical(w)
  BY <1>14 DEF ThreadCritical
<1>15. CASE ThreadCancel(w)
  BY <1>15 DEF ThreadCancel, SetInterruptor, CONTINUE, Interrupts
<1>16. CASE ThreadSend(w)
  BY <1>16 DEF ThreadSend
<1>17. CASE ThreadLeave(w)
  <2>1. CASE CountAtOnce(w, "leave", "clamp", -1)
    BY <1>17, <2>1 DEF ThreadLeave, CountAtOnce
  <2>2. CASE CountLoad(w, "leave", "leaveStore")
    BY <1>17, <2>2 DEF ThreadLeave, CountLoad
  <2>3. CASE CountStore(w, "leaveStore", "clamp", -1)
    BY <1>17, <2>3 DEF ThreadLeave, CountStore
  <2>4. QED
    BY <1>17, <2>1, <2>2, <2>3 DEF ThreadLeave
<1>18. CASE ThreadExit(w)
  BY <1>18 DEF ThreadExit, Woken
<1>19. QED
  BY <1>1, <1>2, <1>3, <1>4, <1>5, <1>6, <1>7, <1>8, <1>9, <1>10, <1>11, <1>12, <1>13, <1>14, <1>15, <1>16, <1>17, <1>18 DEF thread_macro

LEMMA ClearThreadsType ==
  ASSUME TypeOK, NEW p \in Waiters, clear_threads(p)
  PROVE  TypeOK'
<1> USE DEF TypeOK, macro, shared, wargs, wvars, cargs, ownvars, history, ClientPoints
<1>1. CASE ClearBegin(p)
  BY <1>1, MacroAssumption DEF ClearBegin, CGo, Dequeue, SetInterruptor, ClearType, DISABLE, INTERRUPT_ALL, Interrupts
<1>2. CASE ClearCheck(p)
  BY <1>2 DEF ClearCheck, CStep, CGo, Returned
<1>3. CASE ClearWait(p)
  BY <1>3, MacroAssumption DEF ClearWait, CGo, Dequeue, SetInterruptor, ClearType, DISABLE, INTERRUPT_ALL, Interrupts
<1>4. CASE ClearTimeout(p)
  BY <1>4 DEF ClearTimeout, CStep, CGo
<1>5. CASE ClearWoken(p)
  BY <1>5 DEF ClearWoken, CStep, CGo
<1>6. CASE ClearExpired(p)
  <2>1. cpc' \in [Waiters -> ClientPoints]
    BY <1>6 DEF ClearExpired, Returned, Woken
  <2>2. threadCount' \in Int /\ lost' \subseteq {"timeout", "override", "count"}
    BY <1>6, ExpiredType DEF Incidents
  <2>3. UNCHANGED <<interruptor, queued, shared, lock, wvars, cargs, stale, credit, owed, unreset>>
    BY <1>6 DEF ClearExpired
  <2>4. QED
    BY <2>1, <2>2, <2>3
<1>7. QED
  BY <1>1, <1>2, <1>3, <1>4, <1>5, <1>6 DEF clear_threads

LEMMA ResetterType ==
  ASSUME TypeOK, NEW r \in Resetters, thread_wait_reset(r)
  PROVE  TypeOK'
<1> USE DEF TypeOK, macro, shared, wargs, wvars, cargs, ownvars, history, ClientPoints
<1>1. r \in Waiters
  BY DEF Waiters
<1>2. CASE clear_threads(r)
  BY <1>1, <1>2, ClearThreadsType
<1>3. CASE ResetResume(r)
  BY <1>1, <1>3 DEF ResetResume, CStep, CGo
<1>4. CASE Reenable(r)
  BY <1>1, <1>4 DEF Reenable, CGo, SetInterruptor, CONTINUE, Interrupts
<1>5. QED
  BY <1>2, <1>3, <1>4 DEF thread_wait_reset

LEMMA ClientType ==
  ASSUME TypeOK, NEW c \in Clients,
         mcr_Macro_interrupt(c) \/ mcr_Macro_receive(c) \/ mcr_Macro_send(c)
  PROVE  TypeOK'
<1> USE DEF TypeOK, macro, shared, wargs, wvars, cargs, ownvars, history, ClientPoints
<1>1. c \in Waiters
  BY DEF Waiters
<1>2. ASSUME NEW i \in Requests, Interrupt(c, i)
      PROVE  TypeOK'
  BY <1>1, <1>2, MacroAssumption DEF Interrupt, Callable
<1>3. CASE InterruptWrite(c)
  BY <1>1, <1>3 DEF InterruptWrite, CGo, SetInterruptor
<1>4. CASE ResetBegin(c)
  BY <1>1, <1>4, MacroAssumption DEF ResetBegin, CGo, Dequeue, SetInterruptor, INTERRUPT_ALL, Interrupts
<1>5. CASE ResetCheck(c)
  <2>1. cpc' \in [Waiters -> ClientPoints]
    BY <1>1, <1>5 DEF ResetCheck, Waiters
  <2>2. unreset' \in BOOLEAN
    BY <1>5 DEF ResetCheck
  <2>3. UNCHANGED <<macro, lock, wvars, cargs, lost, stale, credit, owed>>
    BY <1>5 DEF ResetCheck
  <2>4. QED
    BY <2>1, <2>2, <2>3
<1>6. CASE Reenable(c)
  BY <1>1, <1>6 DEF Reenable, CGo, SetInterruptor, CONTINUE, Interrupts
<1>7. CASE Receive(c)
  BY <1>1, <1>7, MacroAssumption DEF Receive, Callable
<1>8. CASE ReceiveSwitch(c)
  BY <1>1, <1>8 DEF ReceiveSwitch, Woken
<1>9. CASE ReceiveEnqueue(c)
  BY <1>1, <1>9, WrapInRange DEF ReceiveEnqueue, CGo, StartThread, WGo, WorkerPoints
<1>10. CASE SendBegin(c)
  BY <1>1, <1>10, MacroAssumption DEF SendBegin, Callable
<1>11. CASE SendStep(c)
  BY <1>1, <1>11 DEF SendStep
<1>12. QED
  BY <1>2, <1>3, <1>4, <1>5, <1>6, <1>7, <1>8, <1>9, <1>10, <1>11
  DEF mcr_Macro_interrupt, mcr_Macro_receive, mcr_Macro_send

LEMMA OwnerType ==
  ASSUME TypeOK, OwnerStep
  PROVE  TypeOK'
<1> USE DEF TypeOK, macro, shared, wargs, wvars, cvars, cargs, ownvars, history, ClientPoints
<1>1. Owner \in Waiters /\ Owner \in Clients
  BY MacroAssumption DEF Waiters
<1>2. ASSUME NEW o \in Operations, Operate(o)
      PROVE  TypeOK'
  BY <1>1, <1>2, MacroAssumption DEF Operate, Callable
<1>3. CASE OperateNested
  BY <1>1, <1>3, MacroAssumption DEF OperateNested, CGo, BoundThreadMax
<1>4. CASE Modify
  BY <1>1, <1>4, MacroAssumption DEF Modify, CGo, Outdate
<1>5. CASE StayDisabled
  BY <1>1, <1>5 DEF StayDisabled, CStep, CGo
<1>6. CASE Finish
  <2>1. cpc' \in [Waiters -> ClientPoints]
    BY <1>1, <1>6 DEF Finish, CGo
  <2>2. /\ interruptor' \in Interrupts /\ lost' \subseteq {"timeout", "override", "count"}
        /\ unreset' \in BOOLEAN
    BY <1>6, FinishType DEF Incidents
  <2>3. /\ inner' \in {"none", "on", "off"}
        /\ UNCHANGED <<queued, threadCount, shared, lock, wvars, seen, request, op, mem, calls>>
        /\ UNCHANGED <<stale, credit, owed>>
    BY <1>6 DEF Finish
  <2>4. QED
    BY <2>1, <2>2, <2>3
<1>7. CASE CopyEnable
  BY <1>1, <1>7 DEF CopyEnable, CGo, CONTINUE, DISABLE, Interrupts
<1>8. CASE Abandon
  BY <1>1, <1>8 DEF Abandon, CGo
<1>9. CASE Free
  BY <1>1, <1>9 DEF Free, Outdate
<1>10. CASE SetAll
  BY <1>1, <1>10, MacroAssumption DEF SetAll, Callable, BoundThreadMax, CONTINUE, DISABLE, Interrupts
<1>11. CASE clear_threads(Owner)
  BY <1>1, <1>11, ClearThreadsType
<1>12. QED
  BY <1>2, <1>3, <1>4, <1>5, <1>6, <1>7, <1>8, <1>9, <1>10, <1>11 DEF OwnerStep

LEMMA StutterType == TypeOK /\ UNCHANGED vars => TypeOK'
BY DEF TypeOK, vars, macro, shared, wvars, wargs, cvars, cargs, ownvars, history

LEMMA NextType == TypeOK /\ [Next]_vars => TypeOK'
<1> SUFFICES ASSUME TypeOK, [Next]_vars PROVE TypeOK'
  OBVIOUS
<1>1. ASSUME NEW w \in Workers, thread_macro(w) PROVE TypeOK'
  BY <1>1, WorkerType
<1>2. ASSUME NEW r \in Resetters, thread_wait_reset(r) PROVE TypeOK'
  BY <1>2, ResetterType
<1>3. ASSUME NEW c \in Clients,
             mcr_Macro_interrupt(c) \/ mcr_Macro_receive(c) \/ mcr_Macro_send(c)
      PROVE  TypeOK'
  BY <1>3, ClientType
<1>4. CASE OwnerStep
  BY <1>4, OwnerType
<1>5. CASE Done \/ UNCHANGED vars
  BY <1>5, StutterType DEF Done
<1>6. QED
  BY <1>1, <1>2, <1>3, <1>4, <1>5 DEF Next

\* Type correctness of the macro's fields, for any numbers of threads and clients.
THEOREM TypeCorrect == Spec => []TypeOK
<1>1. QED
  BY InitType, NextType, PTL DEF Spec

-----------------------------------------------------------------------------
(* What one step of a thread can do to the others.                         *)

OthersStay(w) == \A v \in Workers : v # w => wpc'[v] = wpc[v]

\* Clients and resetters stay where they are, or are woken.
ClientsStay == \A p \in Waiters : cpc'[p] = cpc[p] \/ (cpc[p] = "wait" /\ cpc'[p] = "woken")

LEMMA WorkerFrame ==
  ASSUME TypeOK, NEW w \in Workers, thread_macro(w)
  PROVE  /\ OthersStay(w) /\ ClientsStay
         /\ UNCHANGED <<seen, op>>
         /\ lost \subseteq lost' /\ stale' \subseteq stale
<1> USE DEF thread_macro, ThreadBegin, ThreadCount, ThreadRecheck, ThreadCapture, ThreadCanPause,
            ThreadPausing, ThreadPauseEnd, ThreadLoop, ThreadTake, ThreadDecrement, ThreadOverdraw,
            ThreadSignal, ThreadAcquire, ThreadCritical, ThreadCancel, ThreadSend, ThreadLeave,
            ThreadExit, WStep, WGo, CountAtOnce, CountLoad, CountStore, StartPass
<1>1. OthersStay(w)
  BY DEF OthersStay, TypeOK
<1>2. ClientsStay
  BY DEF ClientsStay, Woken, TypeOK, cvars
<1>3. UNCHANGED <<seen, op>>
  BY DEF cvars, cargs, ownvars
<1>4. lost \subseteq lost'
  BY DEF SetInterruptor, history
<1>5. stale' \subseteq stale
  BY DEF history
<1>6. QED
  BY <1>1, <1>2, <1>3, <1>4, <1>5

\* A worker begins to use the signal set only if the macro was not disabled then.
LEMMA WorkerEnters ==
  ASSUME TypeOK, NEW w \in Workers, thread_macro(w), wpc'[w] \in InUse
  PROVE  wpc[w] \in InUse \/ interruptor # DISABLE
  BY DEF thread_macro, ThreadBegin, ThreadCount, ThreadRecheck, ThreadCapture, ThreadCanPause,
            ThreadPausing, ThreadPauseEnd, ThreadLoop, ThreadTake, ThreadDecrement, ThreadOverdraw,
            ThreadSignal, ThreadAcquire, ThreadCritical, ThreadCancel, ThreadSend, ThreadLeave,
            ThreadExit, WStep, WGo, CountAtOnce, CountLoad, CountStore, StartPass, TypeOK,
            InUse, Holding, AfterRecheck, IsContinue, INTERRUPT_ALL, DISABLE

\* Only a worker's writes of MCR_CONTINUE end a disablement, and that is an incident.
LEMMA WorkerWrites ==
  ASSUME TypeOK, NEW w \in Workers, thread_macro(w), lost' = {}
  PROVE  interruptor' = interruptor \/ (interruptor # DISABLE /\ interruptor' = CONTINUE)
  BY MacroAssumption
     DEF thread_macro, ThreadBegin, ThreadCount, ThreadRecheck, ThreadCapture, ThreadCanPause,
            ThreadPausing, ThreadPauseEnd, ThreadLoop, ThreadTake, ThreadDecrement, ThreadOverdraw,
            ThreadSignal, ThreadAcquire, ThreadCritical, ThreadCancel, ThreadSend, ThreadLeave,
            ThreadExit, WStep, macro, SetInterruptor, CONTINUE, DISABLE

\* The count moves with the position.
LEMMA WorkerCounts ==
  ASSUME TypeOK, NEW w \in Workers, thread_macro(w), lost' = {}
  PROVE  \/ /\ wpc[w] \in Counted <=> wpc'[w] \in Counted
            /\ threadCount' = threadCount \/ (threadCount < 0 /\ threadCount' = 0)
         \/ wpc[w] \notin Counted /\ wpc'[w] \in Counted /\ threadCount' = threadCount + 1
         \/ wpc[w] \in Counted /\ wpc'[w] \notin Counted /\ threadCount' = threadCount - 1
<1> USE DEF TypeOK, Counted, InUse, Holding, WGo
<1>1. CASE ThreadCount(w)
  BY <1>1 DEF ThreadCount, CountAtOnce, CountLoad, CountStore
<1>2. CASE ThreadLeave(w)
  BY <1>2 DEF ThreadLeave, CountAtOnce, CountLoad, CountStore
<1>3. CASE ThreadExit(w)
  BY <1>3 DEF ThreadExit
<1>4. CASE ThreadBegin(w) \/ ThreadRecheck(w) \/ ThreadCapture(w) \/ ThreadCanPause(w)
           \/ ThreadPausing(w) \/ ThreadPauseEnd(w)
  BY <1>4 DEF ThreadBegin, ThreadRecheck, AfterRecheck, ThreadCapture, ThreadCanPause,
              ThreadPausing, ThreadPauseEnd, WStep, macro
<1>5. CASE ThreadLoop(w) \/ ThreadTake(w) \/ ThreadDecrement(w) \/ ThreadOverdraw(w)
           \/ ThreadSignal(w) \/ ThreadSend(w)
  BY <1>5 DEF ThreadLoop, ThreadTake, ThreadDecrement, ThreadOverdraw, ThreadSignal, ThreadSend,
              WStep, macro
<1>6. CASE ThreadAcquire(w) \/ ThreadCritical(w) \/ ThreadCancel(w)
  BY <1>6 DEF ThreadAcquire, ThreadCritical, ThreadCancel, macro
<1>7. QED
  BY <1>1, <1>2, <1>3, <1>4, <1>5, <1>6 DEF thread_macro

LEMMA WorkersFinite == IsFiniteSet(CountedWorkers)
  BY MacroAssumption, FS_Subset DEF CountedWorkers

LEMMA WorkerCountAccurate ==
  ASSUME TypeOK, CountAccurate, NEW w \in Workers, thread_macro(w)
  PROVE  CountAccurate'
<1> SUFFICES ASSUME lost' = {} PROVE threadCount' = Cardinality(CountedWorkers')
  BY DEF CountAccurate
<1>1. OthersStay(w) /\ lost = {}
  BY WorkerFrame
<1>2. threadCount = Cardinality(CountedWorkers) /\ Cardinality(CountedWorkers) \in Nat
  BY <1>1, WorkersFinite, FS_CardinalityType DEF CountAccurate
<1>3. CASE wpc[w] \in Counted <=> wpc'[w] \in Counted
  <2>1. CountedWorkers' = CountedWorkers
    BY <1>1, <1>3 DEF CountedWorkers, OthersStay
  <2>2. threadCount' = threadCount
    BY <1>2, <1>3, WorkerCounts
  <2>3. QED
    BY <2>1, <2>2, <1>2
<1>4. CASE wpc[w] \notin Counted /\ wpc'[w] \in Counted
  <2>1. CountedWorkers' = CountedWorkers \cup {w} /\ w \notin CountedWorkers
    BY <1>1, <1>4 DEF CountedWorkers, OthersStay
  <2>2. threadCount' = threadCount + 1
    BY <1>4, WorkerCounts
  <2>3. QED
    BY <2>1, <2>2, <1>2, WorkersFinite, FS_AddElement
<1>5. CASE wpc[w] \in Counted /\ wpc'[w] \notin Counted
  <2>1. CountedWorkers' = CountedWorkers \ {w} /\ w \in CountedWorkers
    BY <1>1, <1>5 DEF CountedWorkers, OthersStay
  <2>2. threadCount' = threadCount - 1
    BY <1>5, WorkerCounts
  <2>3. QED
    BY <2>1, <2>2, <1>2, WorkersFinite, FS_RemoveElement
<1>6. QED
  BY <1>3, <1>4, <1>5

\* The lock is taken and released where the positions say.
LEMMA WorkerMutualExclusion ==
  ASSUME TypeOK, MutualExclusion, NEW w \in Workers, thread_macro(w)
  PROVE  MutualExclusion'
<1>1. OthersStay(w)
  BY WorkerFrame
<1> USE DEF TypeOK, Inside, MutualExclusion, WGo
<1>2. CASE ThreadAcquire(w)
  BY <1>1, <1>2, MacroAssumption DEF ThreadAcquire, OthersStay
<1>3. CASE ThreadCritical(w)
  BY <1>1, <1>3, MacroAssumption DEF ThreadCritical, OthersStay
<1>4. CASE ThreadCancel(w)
  BY <1>1, <1>4, MacroAssumption DEF ThreadCancel, OthersStay
<1>5. ASSUME lock' = lock, wpc[w] \notin Inside, wpc'[w] \notin Inside
      PROVE  MutualExclusion'
  BY <1>1, <1>5 DEF OthersStay
<1>6. CASE ThreadCount(w) \/ ThreadLeave(w) \/ ThreadExit(w)
  BY <1>5, <1>6 DEF ThreadCount, ThreadLeave, ThreadExit, CountAtOnce, CountLoad, CountStore
<1>7. CASE ThreadBegin(w) \/ ThreadRecheck(w) \/ ThreadCapture(w) \/ ThreadCanPause(w)
           \/ ThreadPausing(w) \/ ThreadPauseEnd(w)
  BY <1>5, <1>7 DEF ThreadBegin, ThreadRecheck, AfterRecheck, ThreadCapture, ThreadCanPause,
              ThreadPausing, ThreadPauseEnd, WStep
<1>8. CASE ThreadLoop(w) \/ ThreadTake(w) \/ ThreadDecrement(w) \/ ThreadOverdraw(w)
           \/ ThreadSignal(w) \/ ThreadSend(w)
  BY <1>5, <1>8 DEF ThreadLoop, ThreadTake, ThreadDecrement, ThreadOverdraw, ThreadSignal, ThreadSend,
              WStep
<1>9. QED
  BY <1>2, <1>3, <1>4, <1>6, <1>7, <1>8 DEF thread_macro

\* An interrupt is used up by the worker that found it set inside the critical section.
LEMMA WorkerCredit ==
  ASSUME TypeOK, MutualExclusion, CreditLeft, OneCancel, NEW w \in Workers, thread_macro(w)
  PROVE  CreditLeft' /\ OneCancel'
<1>1. OthersStay(w)
  BY WorkerFrame
<1>2. CASE ThreadCancel(w)
  <2>1. wpc[w] = "cancel" /\ wpc'[w] # "cancel" /\ credit' = credit - 1 /\ interruptor' = CONTINUE
    BY <1>2 DEF ThreadCancel, WGo, SetInterruptor, TypeOK
  <2>2. \A v \in Workers : wpc'[v] # "cancel"
    BY <1>1, <2>1 DEF OthersStay, MutualExclusion, Inside
  <2>3. credit \in Int /\ credit >= 1
    BY <2>1 DEF TypeOK, CreditLeft
  <2>4. QED
    BY <2>1, <2>2, <2>3 DEF CreditLeft, OneCancel, CONTINUE, INTERRUPT
<1>3. CASE ThreadCritical(w)
  <2>1. wpc'[w] = "cancel" => interruptor = INTERRUPT
    BY <1>3 DEF ThreadCritical, WGo, StillInterrupted, TypeOK
  <2>2. interruptor' = interruptor /\ credit' = credit
    BY <1>3 DEF ThreadCritical, macro, history
  <2>3. QED
    BY <1>1, <2>1, <2>2 DEF CreditLeft, OneCancel, OthersStay
<1>4. ASSUME credit' = credit, wpc'[w] # "cancel",
             interruptor' = interruptor \/ interruptor' = CONTINUE
      PROVE  CreditLeft' /\ OneCancel'
  BY <1>1, <1>4 DEF CreditLeft, OneCancel, OthersStay, CONTINUE, INTERRUPT
<1> USE DEF TypeOK, WGo, macro, history
<1>5. CASE ThreadCount(w) \/ ThreadLeave(w) \/ ThreadExit(w)
  BY <1>4, <1>5 DEF ThreadCount, ThreadLeave, ThreadExit, CountAtOnce, CountLoad, CountStore
<1>6. CASE ThreadBegin(w) \/ ThreadRecheck(w) \/ ThreadCapture(w) \/ ThreadCanPause(w)
           \/ ThreadPausing(w) \/ ThreadPauseEnd(w)
  BY <1>4, <1>6 DEF ThreadBegin, ThreadRecheck, AfterRecheck, ThreadCapture, ThreadCanPause,
              ThreadPausing, ThreadPauseEnd, WStep, SetInterruptor
<1>7. CASE ThreadLoop(w) \/ ThreadTake(w) \/ ThreadDecrement(w) \/ ThreadOverdraw(w)
           \/ ThreadSignal(w) \/ ThreadSend(w) \/ ThreadAcquire(w)
  BY <1>4, <1>7 DEF ThreadLoop, ThreadTake, ThreadDecrement, ThreadOverdraw, ThreadSignal, ThreadSend,
              ThreadAcquire, WStep
<1>8. QED
  BY <1>2, <1>3, <1>5, <1>6, <1>7 DEF thread_macro

\* The six parts about the owner, the clients and the signal set.
Protocol == DisableHolds /\ Exclusion /\ FailedTimedOut /\ NoBlip /\ SetCurrent

LEMMA WorkerProtocol ==
  ASSUME TypeOK, Protocol, NEW w \in Workers, thread_macro(w)
  PROVE  Protocol'
<1>1. OthersStay(w) /\ ClientsStay /\ UNCHANGED <<seen, op>> /\ lost \subseteq lost' /\ stale' \subseteq stale
  BY WorkerFrame
<1>2. Owner \in Waiters /\ Owner \in Clients /\ Clients \subseteq Waiters
  BY MacroAssumption DEF Waiters
<1>3. cpc'[Owner] = cpc[Owner] \/ (cpc[Owner] = "wait" /\ cpc'[Owner] = "woken")
  BY <1>1, <1>2 DEF ClientsStay
<1>4. DisableHolds'
  <2> SUFFICES ASSUME lost' = {}, cpc'[Owner] \in Withholding PROVE interruptor' = DISABLE
    BY DEF DisableHolds
  <2>1. interruptor = DISABLE
    BY <1>1, <1>3 DEF Protocol, DisableHolds, Withholding
  <2>2. QED
    BY <2>1, WorkerWrites
<1>5. Exclusion'
  <2> SUFFICES ASSUME lost' = {}, cpc'[Owner] = "cleared" PROVE InSet' = {}
    BY DEF Exclusion
  <2>1. InSet = {} /\ interruptor = DISABLE
    BY <1>1, <1>3 DEF Protocol, Exclusion, DisableHolds, Withholding
  <2>2. wpc'[w] \notin InUse
    BY <2>1, WorkerEnters DEF InSet
  <2>3. QED
    BY <1>1, <2>1, <2>2 DEF InSet, OthersStay
<1>6. FailedTimedOut'
  BY <1>1, <1>3 DEF Protocol, FailedTimedOut
<1>7. NoBlip'
  BY <1>1, <1>2 DEF Protocol, NoBlip, ClientsStay
<1>8. SetCurrent'
  BY <1>1 DEF Protocol, SetCurrent
<1>9. QED
  BY <1>4, <1>5, <1>6, <1>7, <1>8 DEF Protocol

-----------------------------------------------------------------------------
(* Steps of clients, resetters and the owner.                              *)

\* What none of them touches.
LEMMA WaiterFrame ==
  ASSUME TypeOK,
         \/ \E r \in Resetters : thread_wait_reset(r)
         \/ \E c \in Clients : mcr_Macro_interrupt(c) \/ mcr_Macro_send(c)
         \/ OwnerStep
  PROVE  wpc' = wpc /\ lock' = lock /\ lost \subseteq lost'
<1> USE DEF clear_threads, ClearBegin, ClearCheck, ClearWait, ClearTimeout, ClearWoken, ClearExpired,
            CStep, Dequeue, SetInterruptor, wvars, history
<1>1. ASSUME NEW p \in Waiters, clear_threads(p)
      PROVE  wpc' = wpc /\ lock' = lock /\ lost \subseteq lost'
  BY <1>1
<1>2. ASSUME NEW p \in Waiters, Reenable(p)
      PROVE  wpc' = wpc /\ lock' = lock /\ lost \subseteq lost'
  BY <1>2 DEF Reenable
<1>3. ASSUME NEW r \in Resetters, thread_wait_reset(r)
      PROVE  wpc' = wpc /\ lock' = lock /\ lost \subseteq lost'
  BY <1>1, <1>2, <1>3 DEF thread_wait_reset, ResetResume, Waiters
<1>4. ASSUME NEW c \in Clients, mcr_Macro_interrupt(c)
      PROVE  wpc' = wpc /\ lock' = lock /\ lost \subseteq lost'
  BY <1>2, <1>4 DEF mcr_Macro_interrupt, Interrupt, InterruptWrite, ResetBegin, ResetCheck, Waiters
<1>5. ASSUME NEW c \in Clients, mcr_Macro_send(c)
      PROVE  wpc' = wpc /\ lock' = lock /\ lost \subseteq lost'
  BY <1>5 DEF mcr_Macro_send, SendBegin, SendStep
<1>6. CASE OwnerStep
  <2>1. Owner \in Waiters
    BY MacroAssumption DEF Waiters
  <2>2. QED
    BY <1>1, <1>6, <2>1 DEF OwnerStep, Operate, OperateNested, Modify, StayDisabled, Finish,
                            CopyEnable, Abandon, Free, SetAll
<1>7. QED
  BY <1>3, <1>4, <1>5, <1>6

\* Workers may be started, and do not move otherwise.
WorkersStay ==
  \A w \in Workers : wpc'[w] = wpc[w] \/ (wpc[w] = "none" /\ wpc'[w] = "start")

LEMMA ReceiveFrame ==
  ASSUME TypeOK, NEW c \in Clients, mcr_Macro_receive(c)
  PROVE  WorkersStay /\ lock' = lock /\ lost' = lost
<1> USE DEF mcr_Macro_receive, Receive, ReceiveSwitch, ReceiveEnqueue, StartThread, WGo, wvars, history
<1>1. WorkersStay
  BY DEF WorkersStay, TypeOK
<1>2. QED
  BY <1>1

WaiterStep ==
  \/ \E r \in Resetters : thread_wait_reset(r)
  \/ \E c \in Clients : mcr_Macro_interrupt(c) \/ mcr_Macro_receive(c) \/ mcr_Macro_send(c)
  \/ OwnerStep

LEMMA WaiterStays ==
  ASSUME TypeOK, WaiterStep
  PROVE  WorkersStay /\ lock' = lock /\ lost \subseteq lost'
  BY WaiterFrame, ReceiveFrame DEF WaiterStep, WorkersStay

LEMMA WorkersStaySets ==
  ASSUME TypeOK, WorkersStay
  PROVE  /\ InSet' = InSet /\ CountedWorkers' = CountedWorkers
         /\ \A w \in Workers : (wpc'[w] \in Inside <=> wpc[w] \in Inside)
                             /\ (wpc'[w] = "cancel" <=> wpc[w] = "cancel")
  BY DEF WorkersStay, InSet, CountedWorkers, Counted, InUse, Holding, Inside

LEMMA WaiterMutualExclusion ==
  ASSUME TypeOK, MutualExclusion, WaiterStep
  PROVE  MutualExclusion'
  BY WaiterStays, WorkersStaySets DEF MutualExclusion

\* Only the end of a wait and the correction of a negative count write thread_count.
LEMMA WaiterCount ==
  ASSUME TypeOK, NoBlip, WaiterStep, lost' = {}
  PROVE  threadCount' = threadCount
<1>1. lost = {}
  BY WaiterStays
<1>2. ASSUME NEW p \in Waiters, clear_threads(p)
      PROVE  threadCount' = threadCount
  BY <1>2 DEF clear_threads, ClearBegin, ClearCheck, ClearWait, ClearTimeout, ClearWoken,
              ClearExpired, CStep, macro
<1>3. ASSUME NEW p \in Waiters, Reenable(p)
      PROVE  threadCount' = threadCount
  BY <1>3 DEF Reenable
<1>4. ASSUME NEW r \in Resetters, thread_wait_reset(r)
      PROVE  threadCount' = threadCount
  BY <1>2, <1>3, <1>4 DEF thread_wait_reset, ResetResume, CStep, macro, Waiters
<1>5. ASSUME NEW c \in Clients, mcr_Macro_interrupt(c)
      PROVE  threadCount' = threadCount
  BY <1>3, <1>5 DEF mcr_Macro_interrupt, Interrupt, InterruptWrite, ResetBegin, ResetCheck,
                    macro, Waiters
<1>6. ASSUME NEW c \in Clients, mcr_Macro_receive(c)
      PROVE  threadCount' = threadCount
  BY <1>1, <1>6 DEF mcr_Macro_receive, Receive, ReceiveSwitch, ReceiveEnqueue, NoBlip, TypeOK, macro
<1>7. ASSUME NEW c \in Clients, mcr_Macro_send(c)
      PROVE  threadCount' = threadCount
  BY <1>7 DEF mcr_Macro_send, SendBegin, SendStep, macro
<1>8. CASE OwnerStep
  <2>1. Owner \in Waiters
    BY MacroAssumption DEF Waiters
  <2>2. QED
    BY <1>2, <1>8, <2>1 DEF OwnerStep, Operate, OperateNested, Modify, StayDisabled, Finish,
                            CopyEnable, Abandon, Free, SetAll, CStep, macro, shared
<1>9. QED
  BY <1>4, <1>5, <1>6, <1>7, <1>8 DEF WaiterStep

LEMMA WaiterCountAccurate ==
  ASSUME TypeOK, CountAccurate, NoBlip, WaiterStep
  PROVE  CountAccurate'
  BY WaiterStays, WorkersStaySets, WaiterCount DEF CountAccurate

\* MCR_INTERRUPT is written only with a credit.
LEMMA WaiterCredit ==
  ASSUME TypeOK, CreditLeft, OneCancel, WaiterStep
  PROVE  CreditLeft' /\ OneCancel'
<1>1. \A w \in Workers : wpc'[w] = "cancel" <=> wpc[w] = "cancel"
  BY WaiterStays, WorkersStaySets
<1>2. ASSUME credit' = credit, interruptor' = interruptor \/ interruptor' # INTERRUPT
      PROVE  CreditLeft' /\ OneCancel'
  BY <1>1, <1>2 DEF CreditLeft, OneCancel
<1> USE DEF macro, shared, history, CStep, CONTINUE, INTERRUPT, INTERRUPT_ALL, DISABLE
<1>3. ASSUME NEW p \in Waiters, clear_threads(p)
      PROVE  CreditLeft' /\ OneCancel'
  BY <1>2, <1>3 DEF clear_threads, ClearBegin, ClearCheck, ClearWait, ClearTimeout, ClearWoken,
                    ClearExpired, Dequeue, SetInterruptor, ClearType
<1>4. ASSUME NEW p \in Waiters, Reenable(p)
      PROVE  CreditLeft' /\ OneCancel'
  BY <1>2, <1>4 DEF Reenable, SetInterruptor
<1>5. ASSUME NEW r \in Resetters, thread_wait_reset(r)
      PROVE  CreditLeft' /\ OneCancel'
  BY <1>2, <1>3, <1>4, <1>5 DEF thread_wait_reset, ResetResume, Waiters
<1>6. ASSUME NEW c \in Clients, InterruptWrite(c)
      PROVE  CreditLeft' /\ OneCancel'
  <2>1. CASE request[c] = INTERRUPT
    <3>1. credit' = credit + 1 /\ credit \in Int
      BY <1>6, <2>1 DEF InterruptWrite, TypeOK
    <3>2. QED
      BY <3>1 DEF CreditLeft, OneCancel
  <2>2. CASE request[c] # INTERRUPT
    <3>1. credit' = credit /\ interruptor' = request[c]
      BY <1>6, <2>2 DEF InterruptWrite, SetInterruptor
    <3>2. QED
      BY <1>2, <2>2, <3>1
  <2>3. QED
    BY <2>1, <2>2
<1>7. ASSUME NEW c \in Clients, mcr_Macro_interrupt(c)
      PROVE  CreditLeft' /\ OneCancel'
  <2>1. CASE \E i \in Requests : Interrupt(c, i)
    BY <1>2, <2>1 DEF Interrupt
  <2>2. CASE ResetBegin(c)
    BY <1>2, <2>2 DEF ResetBegin, Dequeue, SetInterruptor
  <2>3. CASE ResetCheck(c)
    BY <1>2, <2>3 DEF ResetCheck
  <2>4. QED
    BY <1>4, <1>6, <1>7, <2>1, <2>2, <2>3 DEF mcr_Macro_interrupt, Waiters
<1>8. ASSUME NEW c \in Clients, mcr_Macro_receive(c) \/ mcr_Macro_send(c)
      PROVE  CreditLeft' /\ OneCancel'
  BY <1>2, <1>8 DEF mcr_Macro_receive, Receive, ReceiveSwitch, ReceiveEnqueue,
                    mcr_Macro_send, SendBegin, SendStep
<1>9. CASE OwnerStep
  <2>1. Owner \in Waiters
    BY MacroAssumption DEF Waiters
  <2>2. CASE clear_threads(Owner)
    BY <1>3, <2>1, <2>2
  <2>3. CASE Finish
    BY <1>2, <2>3 DEF Finish, SetInterruptor
  <2>4. CASE OperateNested \/ Modify \/ StayDisabled \/ CopyEnable \/ Abandon \/ Free
    BY <1>2, <2>4 DEF OperateNested, Modify, StayDisabled, CopyEnable, Abandon, Free
  <2>5. CASE SetAll \/ \E o \in Operations : Operate(o)
    BY <1>2, <2>5 DEF SetAll, Operate
  <2>6. QED
    BY <1>9, <2>2, <2>3, <2>4, <2>5 DEF OwnerStep
<1>10. QED
  BY <1>5, <1>7, <1>8, <1>9 DEF WaiterStep

-----------------------------------------------------------------------------
(* The owner's position, the interruptor and the signal set.               *)

\* The owner is not moved by others, except that it is woken.
OwnerStays == cpc'[Owner] = cpc[Owner] \/ (cpc[Owner] = "wait" /\ cpc'[Owner] = "woken")

\* The owner leaves the protocol: no position from which it relies on anything.
OwnerFree == cpc'[Owner] \notin Withholding \cup {"failed"}

\* MCR_DISABLE is kept, unless the step is the incident that ends it.
DisableKept == lost' = {} /\ interruptor = DISABLE => interruptor' = DISABLE

\* An incident-free step of anyone that is not part of the owner's own protocol.
Harmless == /\ OwnerFree \/ (OwnerStays /\ DisableKept)
            /\ lost \subseteq lost'
            /\ stale' \subseteq stale
            /\ InSet' = InSet

LEMMA HarmlessStep ==
  ASSUME TypeOK, Protocol, Harmless
  PROVE  DisableHolds' /\ Exclusion' /\ FailedTimedOut' /\ SetCurrent'
<1>1. DisableHolds'
  BY DEF Harmless, Protocol, DisableHolds, OwnerFree, OwnerStays, DisableKept, Withholding
<1>2. Exclusion'
  BY DEF Harmless, Protocol, Exclusion, OwnerFree, OwnerStays, Withholding
<1>3. FailedTimedOut'
  BY DEF Harmless, Protocol, FailedTimedOut, OwnerFree, OwnerStays
<1>4. SetCurrent'
  BY DEF Harmless, Protocol, SetCurrent
<1>5. QED
  BY <1>1, <1>2, <1>3, <1>4

LEMMA OthersNotOwner ==
  /\ Owner \in Clients /\ Owner \in Waiters /\ Owner \notin Workers /\ Owner \notin Resetters
  /\ Clients \subseteq Waiters /\ Resetters \subseteq Waiters /\ Clients \cap Workers = {}
  BY MacroAssumption DEF Waiters

LEMMA ResetterHarmless ==
  ASSUME TypeOK, NEW r \in Resetters, thread_wait_reset(r)
  PROVE  Harmless
<1>1. r # Owner /\ r \in Waiters
  BY OthersNotOwner
<1>2. lost \subseteq lost' /\ InSet' = InSet
  BY WaiterStays, WorkersStaySets DEF WaiterStep
<1> USE OthersNotOwner DEF TypeOK, CGo, CStep, thread_wait_reset, clear_threads
<1>3. OwnerStays
  BY <1>1 DEF ClearBegin, ClearCheck, ClearWait, ClearTimeout, ClearWoken,
              ClearExpired, ResetResume, Reenable, Woken, OwnerStays
<1>4. DisableKept
  BY <1>1 DEF ClearBegin, ClearCheck, ClearWait, ClearTimeout, ClearWoken, ClearExpired,
              ResetResume, Reenable, Dequeue, SetInterruptor, macro, DisableKept
<1>5. stale' = stale
  BY DEF ClearBegin, ClearCheck, ClearWait, ClearTimeout, ClearWoken, ClearExpired,
         ResetResume, Reenable, history
<1>6. QED
  BY <1>2, <1>3, <1>4, <1>5 DEF Harmless

\* Of a client: the owner is free while it interrupts, and others only overwrite
\* MCR_DISABLE by an incident.
LEMMA ClientHarmless ==
  ASSUME TypeOK, NEW c \in Clients,
         mcr_Macro_interrupt(c) \/ mcr_Macro_receive(c) \/ mcr_Macro_send(c)
  PROVE  Harmless
<1>1. c \in Waiters /\ (c = Owner \/ c # Owner)
  BY OthersNotOwner
<1>2. lost \subseteq lost' /\ InSet' = InSet
  BY WaiterStays, WorkersStaySets DEF WaiterStep
<1> USE OthersNotOwner DEF TypeOK, CGo
<1>3. stale' \subseteq stale
  BY DEF mcr_Macro_interrupt, Interrupt, InterruptWrite, ResetBegin, ResetCheck, Reenable,
         mcr_Macro_receive, Receive, ReceiveSwitch, ReceiveEnqueue, mcr_Macro_send, SendBegin,
         SendStep, history
<1>4. OwnerStays \/ OwnerFree
  <2>1. CASE mcr_Macro_interrupt(c)
    BY <1>1, <2>1 DEF mcr_Macro_interrupt, Interrupt, InterruptWrite, ResetBegin, ResetCheck,
         Reenable, OwnerStays, OwnerFree, Withholding
  <2>2. CASE mcr_Macro_receive(c)
    BY <1>1, <2>2 DEF mcr_Macro_receive, Receive, ReceiveSwitch, ReceiveEnqueue, Woken,
         OwnerStays, OwnerFree, Withholding
  <2>3. CASE mcr_Macro_send(c)
    BY <1>1, <2>3 DEF mcr_Macro_send, SendBegin, SendStep, OwnerStays, OwnerFree, Withholding
  <2>4. QED
    BY <2>1, <2>2, <2>3
<1>5. c # Owner => DisableKept
  BY DEF mcr_Macro_interrupt, Interrupt, InterruptWrite, ResetBegin, ResetCheck, Reenable,
         mcr_Macro_receive, Receive, ReceiveSwitch, ReceiveEnqueue, mcr_Macro_send, SendBegin,
         SendStep, Dequeue, SetInterruptor, macro, DisableKept
<1>6. c = Owner => OwnerFree
  BY DEF mcr_Macro_interrupt, Interrupt, InterruptWrite, ResetBegin, ResetCheck, Reenable,
         mcr_Macro_receive, Receive, ReceiveSwitch, ReceiveEnqueue, mcr_Macro_send, SendBegin,
         SendStep, Woken, Callable, OwnerFree, Withholding
<1>7. QED
  BY <1>1, <1>2, <1>3, <1>4, <1>5, <1>6 DEF Harmless

\* No thread is counted, hence none uses the signal set.
LEMMA NoneCounted ==
  ASSUME TypeOK, CountAccurate, lost = {}, threadCount = 0
  PROVE  InSet = {}
<1>1. Cardinality(CountedWorkers) = 0
  BY DEF CountAccurate
<1>2. CountedWorkers = {}
  BY <1>1, WorkersFinite, FS_EmptySet
<1>3. QED
  BY <1>2 DEF CountedWorkers, InSet, Counted

\* The owner's wait: it leaves it cleared only when it has read a count of zero.
LEMMA OwnerClears ==
  ASSUME TypeOK, CountAccurate, Protocol, clear_threads(Owner)
  PROVE  DisableHolds' /\ Exclusion' /\ FailedTimedOut' /\ SetCurrent'
<1>1. lost \subseteq lost' /\ InSet' = InSet
  BY WaiterStays, WorkersStaySets DEF WaiterStep, OwnerStep
<1> USE OthersNotOwner DEF TypeOK, CGo, CStep, ClearType, Returned, GivesUp, macro, history
<1>2. CASE ClearBegin(Owner) \/ ClearWait(Owner)
  <2>1. interruptor' = DISABLE /\ cpc'[Owner] \in {"running", "wait"} /\ stale' = stale
    BY <1>2 DEF ClearBegin, ClearWait, Dequeue, SetInterruptor
  <2>2. QED
    BY <1>1, <2>1 DEF Protocol, DisableHolds, Exclusion, FailedTimedOut, SetCurrent
<1>3. CASE ClearCheck(Owner)
  <2>1. /\ cpc[Owner] = "running" /\ cpc'[Owner] \in {"dequeue", "cleared"}
        /\ cpc'[Owner] = "cleared" => threadCount = 0
    BY <1>3 DEF ClearCheck, IsRunning
  <2>2. interruptor' = interruptor /\ lost' = lost /\ stale' = stale
    BY <1>3 DEF ClearCheck
  <2>3. Exclusion'
    BY <1>1, <2>1, <2>2, NoneCounted DEF Exclusion
  <2>4. QED
    BY <2>1, <2>2, <2>3 DEF Protocol, DisableHolds, FailedTimedOut, SetCurrent, Withholding, InSet
<1>4. CASE ClearTimeout(Owner) \/ ClearWoken(Owner)
  <2>1. /\ cpc[Owner] \in {"wait", "woken"} /\ cpc'[Owner] \in {"expired", "running"}
        /\ interruptor' = interruptor /\ lost' = lost /\ stale' = stale
    BY <1>4 DEF ClearTimeout, ClearWoken
  <2>2. QED
    BY <1>1, <2>1 DEF Protocol, DisableHolds, Exclusion, FailedTimedOut, SetCurrent, Withholding
<1>5. CASE ClearExpired(Owner)
  <2>1. lost' # {}
    BY <1>5 DEF ClearExpired
  <2>2. QED
    BY <2>1 DEF DisableHolds, Exclusion, FailedTimedOut, SetCurrent
<1>6. QED
  BY <1>2, <1>3, <1>4, <1>5 DEF clear_threads

\* The owner changes the signal set when no worker uses it.
LEMMA OwnerModifies ==
  ASSUME TypeOK, Protocol, Modify \/ Free
  PROVE  DisableHolds' /\ Exclusion' /\ FailedTimedOut' /\ SetCurrent'
<1>1. cpc'[Owner] \in {"finish", "gone"} /\ cpc[Owner] \in {"cleared", "failed"} /\ lost' = lost
  BY OthersNotOwner DEF Modify, Free, CGo, TypeOK
<1>2. DisableHolds' /\ Exclusion' /\ FailedTimedOut'
  BY <1>1 DEF DisableHolds, Exclusion, FailedTimedOut, Withholding
<1>3. SetCurrent'
  <2> SUFFICES ASSUME lost = {} PROVE stale' \cap Workers = {}
    BY <1>1 DEF SetCurrent
  <2>1. InSet = {} /\ stale \cap Workers = {}
    BY <1>1 DEF Protocol, Exclusion, FailedTimedOut, SetCurrent
  <2>2. {w \in Workers : wpc[w] \in Holding} = {}
    BY <2>1 DEF InSet, InUse
  <2>3. stale' = stale \cup {w \in Workers : wpc[w] \in Holding}
                      \cup {c \in Clients : cpc[c] = "sending"}
    BY DEF Modify, Free, Outdate
  <2>4. QED
    BY <2>1, <2>2, <2>3, OthersNotOwner
<1>4. QED
  BY <1>2, <1>3

LEMMA OwnerProtocol ==
  ASSUME TypeOK, CountAccurate, Protocol, OwnerStep
  PROVE  DisableHolds' /\ Exclusion' /\ FailedTimedOut' /\ SetCurrent'
<1>1. lost \subseteq lost' /\ InSet' = InSet
  BY WaiterStays, WorkersStaySets DEF WaiterStep
<1>2. CASE clear_threads(Owner)
  BY <1>2, OwnerClears
<1>3. CASE Modify \/ Free
  BY <1>3, OwnerModifies
<1>4. CASE OperateNested \/ StayDisabled \/ Finish \/ CopyEnable \/ Abandon
  <2>1. OwnerFree
    BY <1>4, OthersNotOwner DEF OperateNested, StayDisabled, Finish, CopyEnable, Abandon,
             CGo, CStep, TypeOK, OwnerFree, Withholding
  <2>2. stale' = stale
    BY <1>4 DEF OperateNested, StayDisabled, Finish, CopyEnable, Abandon, CStep, history
  <2>3. QED
    BY <1>1, <2>1, <2>2, HarmlessStep DEF Harmless
<1>5. CASE SetAll \/ \E o \in Operations : Operate(o)
  <2>1. OwnerFree
    BY <1>5, OthersNotOwner DEF SetAll, Operate, Callable, TypeOK, OwnerFree, Withholding
  <2>2. stale' = stale
    BY <1>5 DEF SetAll, Operate, history
  <2>3. QED
    BY <1>1, <2>1, <2>2, HarmlessStep DEF Harmless
<1>6. QED
  BY <1>2, <1>3, <1>4, <1>5 DEF OwnerStep

\* A count read while nothing was lost is not negative.
LEMMA WaiterNoBlip ==
  ASSUME TypeOK, CountAccurate, Protocol, WaiterStep
  PROVE  NoBlip'
<1> SUFFICES ASSUME lost' = {}, NEW c \in Clients, cpc'[c] = "switch" PROVE seen'[c] >= 0
  BY DEF NoBlip
<1>1. lost = {} /\ c \in Waiters
  BY WaiterStays, OthersNotOwner
<1>2. threadCount >= 0
  BY <1>1, WorkersFinite, FS_CardinalityType DEF CountAccurate
<1>3. ASSUME cpc[c] = "switch", seen'[c] = seen[c]
      PROVE  seen'[c] >= 0
  BY <1>1, <1>3 DEF Protocol, NoBlip
<1> USE OthersNotOwner DEF TypeOK, CGo, CStep, cargs, ownvars
<1>4. ASSUME NEW p \in Waiters, clear_threads(p)
      PROVE  seen'[c] >= 0
  <2>1. seen' = seen
    BY <1>4 DEF clear_threads, ClearBegin, ClearCheck, ClearWait, ClearTimeout, ClearWoken, ClearExpired
  <2>2. cpc[c] = "switch"
    BY <1>1, <1>4 DEF clear_threads, ClearBegin, ClearCheck, ClearWait, ClearTimeout, ClearWoken,
                      ClearExpired, Returned, Woken
  <2>3. QED
    BY <1>3, <2>1, <2>2
<1>5. ASSUME NEW p \in Waiters, Reenable(p) \/ ResetResume(p)
      PROVE  seen'[c] >= 0
  BY <1>1, <1>3, <1>5 DEF Reenable, ResetResume
<1>6. ASSUME NEW d \in Clients, mcr_Macro_interrupt(d)
      PROVE  seen'[c] >= 0
  BY <1>1, <1>3, <1>5, <1>6 DEF mcr_Macro_interrupt, Interrupt, InterruptWrite, ResetBegin, ResetCheck
<1>7. ASSUME NEW d \in Clients, mcr_Macro_receive(d)
      PROVE  seen'[c] >= 0
  <2>1. CASE Receive(d)
    BY <1>1, <1>2, <1>3, <2>1 DEF Receive
  <2>2. CASE ReceiveSwitch(d)
    BY <1>1, <1>3, <2>2 DEF ReceiveSwitch, Woken
  <2>3. CASE ReceiveEnqueue(d)
    BY <1>1, <1>3, <2>3 DEF ReceiveEnqueue
  <2>4. QED
    BY <1>7, <2>1, <2>2, <2>3 DEF mcr_Macro_receive
<1>8. ASSUME NEW d \in Clients, mcr_Macro_send(d)
      PROVE  seen'[c] >= 0
  BY <1>1, <1>3, <1>8 DEF mcr_Macro_send, SendBegin, SendStep
<1>9. CASE OwnerStep
  <2>1. seen' = seen \/ clear_threads(Owner)
    BY <1>9 DEF OwnerStep, Operate, OperateNested, Modify, StayDisabled, Finish, CopyEnable,
                Abandon, Free, SetAll
  <2>2. cpc[c] = "switch" \/ clear_threads(Owner)
    BY <1>1, <1>9 DEF OwnerStep, Operate, OperateNested, Modify, StayDisabled, Finish, CopyEnable,
                Abandon, Free, SetAll, Callable
  <2>3. QED
    BY <1>3, <1>4, <2>1, <2>2
<1>10. QED
  BY <1>4, <1>5, <1>6, <1>7, <1>8, <1>9 DEF WaiterStep, thread_wait_reset

LEMMA WaiterProtocol ==
  ASSUME TypeOK, CountAccurate, Protocol, WaiterStep
  PROVE  Protocol'
  BY WaiterNoBlip, OwnerProtocol, ResetterHarmless, ClientHarmless, HarmlessStep
  DEF WaiterStep, Protocol

-----------------------------------------------------------------------------
LEMMA InitInvariant == Init => IInv
<1> SUFFICES ASSUME Init PROVE IInv
  OBVIOUS
<1>1. CountedWorkers = {} /\ InSet = {}
  BY DEF Init, CountedWorkers, InSet, Counted, InUse, Holding
<1>2. CountAccurate
  BY <1>1, FS_EmptySet DEF Init, CountAccurate
<1>3. DisableHolds /\ Exclusion /\ FailedTimedOut /\ NoBlip /\ SetCurrent
  BY <1>1, OthersNotOwner DEF Init, DisableHolds, Exclusion, FailedTimedOut, NoBlip, SetCurrent, Withholding
<1>4. MutualExclusion /\ CreditLeft /\ OneCancel
  BY MacroAssumption DEF Init, MutualExclusion, CreditLeft, OneCancel, Inside, CONTINUE, INTERRUPT
<1>5. QED
  BY <1>2, <1>3, <1>4, InitType DEF IInv

LEMMA NextInvariant == IInv /\ [Next]_vars => IInv'
<1> SUFFICES ASSUME IInv, [Next]_vars PROVE IInv'
  OBVIOUS
<1>1. TypeOK /\ Protocol /\ CountAccurate /\ MutualExclusion /\ CreditLeft /\ OneCancel /\ NoBlip
  BY DEF IInv, Protocol
<1>2. TypeOK'
  BY <1>1, NextType
<1>3. ASSUME NEW w \in Workers, thread_macro(w)
      PROVE  Protocol' /\ CountAccurate' /\ MutualExclusion' /\ CreditLeft' /\ OneCancel'
  BY <1>1, <1>3, WorkerProtocol, WorkerCountAccurate, WorkerMutualExclusion, WorkerCredit
<1>4. CASE WaiterStep
  <2>1. Protocol' /\ CountAccurate' /\ MutualExclusion' /\ CreditLeft' /\ OneCancel'
    BY <1>1, <1>4, WaiterProtocol, WaiterCountAccurate, WaiterMutualExclusion, WaiterCredit
  <2>2. QED
    BY <1>2, <2>1 DEF IInv, Protocol
<1>5. CASE UNCHANGED vars
  BY <1>2, <1>5 DEF IInv, vars, macro, shared, wvars, wargs, cvars, cargs, ownvars, history,
         CountAccurate, CountedWorkers, DisableHolds, Exclusion, InSet, FailedTimedOut, NoBlip,
         SetCurrent, MutualExclusion, CreditLeft, OneCancel
<1>6. CASE \E w \in Workers : thread_macro(w)
  BY <1>2, <1>3, <1>6 DEF IInv, Protocol
<1>7. QED
  BY <1>4, <1>5, <1>6 DEF Next, WaiterStep, Done

\* The invariant the other theorems rest on is inductive.
THEOREM Invariant == Spec => []IInv
<1>1. QED
  BY InitInvariant, NextInvariant, PTL DEF Spec

\* isrunning can be trusted: thread_count is the number of registered threads until a
\* wait of clear_threads has timed out or an unlocked ++ or -- has lost an update.
THEOREM CountIsAccurate == Spec => []CountAccurate
<1>1. IInv => CountAccurate
  BY DEF IInv
<1>2. QED
  BY <1>1, Invariant, PTL

\* thread_macro never passes mcr_send a signal pointer that the owner has since replaced
\* or freed, until the first incident.
THEOREM NothingStaleIsSent == Spec => []NoStaleSend
<1>1. IInv => NoStaleSend
  BY DEF IInv, SetCurrent, NoStaleSend
<1>2. QED
  BY <1>1, Invariant, PTL

\* A single MCR_INTERRUPT cancels at most one pass, however many workers see it.
THEOREM InterruptCancelsOnce == Spec => []OneCancel
<1>1. IInv => OneCancel
  BY DEF IInv
<1>2. QED
  BY <1>1, Invariant, PTL

-----------------------------------------------------------------------------
(* The signal set is accessed as SetAccess allows.                         *)

Writing == cpc[Owner] = "cleared" \/ (op = "deinit" /\ cpc[Owner] = "failed")

LEMMA InitAccess == Init => Access!Init
<1> SUFFICES ASSUME Init PROVE Access!Init
  OBVIOUS
<1>1. InSet = {} /\ lost = {}
  BY DEF Init, InSet, InUse, Holding
<1>2. cpc[Owner] = "idle"
  BY OthersNotOwner DEF Init
<1>3. QED
  BY <1>1, <1>2 DEF Access!Init

\* Once something was lost, SetAccess allows every step; so it does a step that loses.
LEMMA LostAccess ==
  ASSUME lost' # {}
  PROVE  Access!Next
<1>1. InSet' \in SUBSET Workers
  BY DEF InSet
<1>2. Access!Break
  BY <1>1 DEF Access!Break
<1>3. QED
  BY <1>2 DEF Access!Next

\* A worker step that is no incident enters, leaves or stutters.
LEMMA WorkerAccess ==
  ASSUME IInv, NEW w \in Workers, thread_macro(w), lost' = {}
  PROVE  [Access!Next]_(Access!vars)
<1>1. TypeOK /\ DisableHolds /\ FailedTimedOut
  BY DEF IInv
<1>2. OthersStay(w) /\ ClientsStay /\ op' = op /\ lost = {}
  BY <1>1, WorkerFrame
<1>3. Writing' = Writing
  BY <1>2, OthersNotOwner DEF ClientsStay, Writing
<1>4. CASE wpc[w] \in InUse <=> wpc'[w] \in InUse
  <2>1. InSet' = InSet
    BY <1>2, <1>4 DEF InSet, OthersStay
  <2>2. QED
    BY <1>2, <1>3, <2>1 DEF Access!vars, Writing
<1>5. CASE wpc[w] \notin InUse /\ wpc'[w] \in InUse
  <2>1. InSet' = InSet \cup {w}
    BY <1>2, <1>5 DEF InSet, OthersStay
  <2>2. interruptor # DISABLE
    BY <1>1, <1>5, WorkerEnters
  <2>3. ~ Writing
    BY <1>1, <1>2, <2>2 DEF Writing, DisableHolds, FailedTimedOut, Withholding
  <2>4. Access!Enter(w)
    BY <1>2, <1>3, <2>1, <2>3 DEF Access!Enter, Writing
  <2>5. QED
    BY <2>4 DEF Access!Next
<1>6. CASE wpc[w] \in InUse /\ wpc'[w] \notin InUse
  <2>1. InSet' = InSet \ {w}
    BY <1>2, <1>6 DEF InSet, OthersStay
  <2>2. Access!Leave(w)
    BY <1>2, <1>3, <2>1 DEF Access!Leave, Writing
  <2>3. QED
    BY <2>2 DEF Access!Next
<1>7. QED
  BY <1>4, <1>5, <1>6

\* Other steps that are no incident begin or end the write, or stutter.
LEMMA WaiterAccess ==
  ASSUME IInv, IInv', WaiterStep, lost' = {}
  PROVE  [Access!Next]_(Access!vars)
<1>1. lost = {} /\ InSet' = InSet
  BY WaiterStays, WorkersStaySets DEF IInv
<1>2. Writing => InSet = {}
  BY <1>1 DEF IInv, Exclusion, FailedTimedOut, Writing
<1>3. Writing' => InSet' = {}
  BY DEF IInv, Exclusion, FailedTimedOut, Writing
<1>4. Writing \in BOOLEAN /\ Writing' \in BOOLEAN
  BY Zenon DEF Writing
<1>5. CASE Writing' = Writing
  BY <1>1, <1>5 DEF Access!vars, Writing
<1>6. CASE Writing' /\ ~ Writing
  <2>1. Access!BeginWrite
    BY <1>1, <1>3, <1>6 DEF Access!BeginWrite, Writing
  <2>2. QED
    BY <2>1 DEF Access!Next
<1>7. CASE ~ Writing' /\ Writing
  <2>1. Access!EndWrite
    BY <1>1, <1>7 DEF Access!EndWrite, Writing
  <2>2. QED
    BY <2>1 DEF Access!Next
<1>8. QED
  BY <1>4, <1>5, <1>6, <1>7

LEMMA NextAccess == IInv /\ IInv' /\ [Next]_vars => [Access!Next]_(Access!vars)
<1> SUFFICES ASSUME IInv, IInv', [Next]_vars PROVE [Access!Next]_(Access!vars)
  OBVIOUS
<1>1. CASE lost' # {}
  BY <1>1, LostAccess
<1>2. CASE lost' = {} /\ \E w \in Workers : thread_macro(w)
  BY <1>2, WorkerAccess
<1>3. CASE lost' = {} /\ WaiterStep
  BY <1>3, WaiterAccess
<1>4. CASE UNCHANGED vars
  BY <1>4 DEF vars, macro, shared, wvars, wargs, cvars, cargs, ownvars, history,
              Access!vars, InSet
<1>5. QED
  BY <1>1, <1>2, <1>3, <1>4 DEF Next, WaiterStep, Done

\* The disable protocol (ifndisable_errout, clear_threads, the recheck of thread_macro)
\* implements a readers-writer lock on the signal set that ends with the first incident.
THEOREM ImplementsSetAccess == Spec => AccessSpec
<1>1. QED
  BY InitAccess, NextAccess, Invariant, PTL DEF Spec, AccessSpec, Access!Spec
=============================================================================
