------------------------------- MODULE Macro -------------------------------
(***************************************************************************)
(* A macro of Libmacro (src/macro/macro.c): a set of signals that worker   *)
(* threads send when the macro is triggered, and the operations other      *)
(* threads perform on it meanwhile.  Nothing but the short critical        *)
(* sections of thread_macro holds a lock, so each shared read or write     *)
(* that another thread can come between is a step of its own.              *)
(*                                                                         *)
(* Release build: MCR_DEBUG is not defined, so dmsg, dexit, dassert and    *)
(* onErr do nothing.                                                       *)
(***************************************************************************)
EXTENDS Integers, FiniteSets

CONSTANTS
  Workers,     \* threads mcr_thrd can start in thread_macro
  Resetters,   \* threads mcr_thrd can start in thread_wait_reset
  Clients,     \* threads of the application and of the dispatchers
  Owner,       \* the client that edits, copies and deinitializes the macro
  NoOne,       \* no thread
  Requests,    \* the interrupts that clients ask for
  Operations,  \* the operations the owner performs on the signal set
  Stickies,    \* values of mcr_Macro.sticky
  ThreadMaxes, \* values given for mcr_Macro.thread_max
  ThreadLimit, \* MCR_THREAD_MAX
  MaxPause,    \* MCR_MAX_PAUSE_COUNT
  QueueWidth,  \* number of values of the unsigned queued
  Lengths,     \* signal counts an edit can leave
  Racy,        \* a step of another thread can split ++ and -- of thread_count
  Budget       \* bound on the calls clients make

CONTINUE      == 0
PAUSE         == 1
INTERRUPT     == 2
INTERRUPT_ALL == 3
DISABLE       == 4

Interrupts == 0 .. 4

ASSUME MacroAssumption ==
  /\ IsFiniteSet(Workers) /\ NoOne \notin Workers
  /\ Owner \in Clients
  /\ Clients \cap Resetters = {} /\ Clients \cap Workers = {}
  /\ Requests \subseteq Interrupts
  /\ Operations \subseteq {"edit", "insert", "indirect", "copy", "deinit", "set_all"}
  /\ Stickies \subseteq BOOLEAN /\ ThreadMaxes \subseteq Nat /\ Lengths \subseteq Nat
  /\ ThreadLimit \in Nat \ {0} /\ QueueWidth \in Nat \ {0}
  /\ MaxPause \in Nat /\ Budget \in Nat
  /\ Racy \in BOOLEAN

VARIABLES
  \* struct mcr_Macro
  interruptor, queued, threadCount, sticky, threadMax,
  length,      \* signal_set.used
  freed,       \* mcr_Macro_deinit has released the signal set and the condition
  \* ctx->macro
  lock,        \* who holds critical_section
  \* thread_macro
  wpc,         \* where each worker is; "none": not a running thread
  size,        \* signals between sigArr and end, as captured
  left,        \* signals between sigPt and end
  iter,        \* pauseIter
  reg,         \* value of thread_count loaded by a split ++ or --
  \* clients, and the resetters in thread_wait_reset
  cpc,
  seen,        \* the count mcr_Macro_receive read; signals left in mcr_Macro_send
  request,     \* interruptType of the mcr_Macro_interrupt in progress
  op,          \* the owner's operation
  mem, inner,  \* enableMem of the owner's call, and of the call nested in it
  calls,
  \* history
  lost,        \* what has broken the disable protocol so far
  stale,       \* threads whose signal pointers precede the last edit
  credit,      \* MCR_INTERRUPT requests not yet used up by a cancelled pass
  owed,        \* accepted triggers not yet sent
  unreset      \* no thread could be made to lift the MCR_INTERRUPT_ALL that is set

shared  == <<sticky, threadMax, length, freed>>
macro   == <<interruptor, queued, threadCount, shared>>
wargs   == <<size, left, iter, reg>>
wvars   == <<wpc, wargs>>
ownvars == <<op, mem, inner>>
cargs   == <<seen, request, ownvars, calls>>
cvars   == <<cpc, cargs>>
history == <<lost, stale, credit, owed, unreset>>
vars    == <<macro, lock, wvars, cvars, history>>

Waiters == Clients \cup Resetters

\* The unsigned queued.  Fault: a queue that can be negative.
Unwrapped(n) == n
Wrap(n) == n % QueueWidth

\* isrunning.  Fault: the last thread is overlooked.
SeveralRunning == threadCount > 1
IsRunning == threadCount # 0

\* isContinue: a running macro may go on (also when paused or interrupted once).
IsContinue == interruptor < INTERRUPT_ALL

\* bind_max_thread
BoundThreadMax(n) == IF n = 0 \/ n > ThreadLimit THEN 1 ELSE n

Init ==
  /\ interruptor = CONTINUE /\ queued = 0 /\ threadCount = 0
  /\ sticky \in Stickies
  /\ threadMax \in {BoundThreadMax(n) : n \in ThreadMaxes}
  /\ length \in Lengths
  /\ freed = FALSE /\ lock = NoOne
  /\ wpc = [w \in Workers |-> "none"]
  /\ size = [w \in Workers |-> 0] /\ left = size /\ iter = size /\ reg = size
  /\ cpc = [p \in Waiters |-> "idle"]
  /\ seen = [c \in Clients |-> 0]
  /\ request = [c \in Clients |-> CONTINUE]
  /\ op = "edit" /\ mem = FALSE /\ inner = "none" /\ calls = 0
  /\ lost = {} /\ stale = {} /\ credit = 0 /\ owed = 0 /\ unreset = FALSE

-----------------------------------------------------------------------------
(* Steps shared by several operations.                                     *)

WGo(w, from, to) == wpc[w] = from /\ wpc' = [wpc EXCEPT ![w] = to]

CGo(p, from, to) == cpc[p] = from /\ cpc' = [cpc EXCEPT ![p] = to]

\* Steps that only read what is shared.
WStep(w, from, to) ==
  /\ WGo(w, from, to)
  /\ UNCHANGED <<macro, lock, wargs, cvars, history>>

CStep(p, from, to) ==
  /\ CGo(p, from, to)
  /\ UNCHANGED <<macro, lock, wvars, cargs, history>>

\* The positions after cnd_broadcast(&thread_count_cnd).
Woken(f) == [p \in Waiters |-> IF f[p] = "wait" THEN "woken" ELSE f[p]]

\* p writes i to the interruptor.  Overwriting the MCR_DISABLE of the owner is
\* remembered: nothing in the code prevents it.
SetInterruptor(p, i) ==
  /\ interruptor' = i
  /\ lost' = IF interruptor = DISABLE /\ i # DISABLE /\ p # Owner
             THEN lost \cup {"override"} ELSE lost
  /\ unreset' = (unreset /\ i = INTERRUPT_ALL)

\* Adding d to thread_count: one step, or, Racy, a load and a store.
CountAtOnce(w, from, to, d) ==
  /\ WGo(w, from, to)
  /\ threadCount' = threadCount + d
  /\ UNCHANGED <<reg, lost>>

CountLoad(w, from, to) ==
  /\ Racy
  /\ WGo(w, from, to)
  /\ reg' = [reg EXCEPT ![w] = threadCount]
  /\ UNCHANGED <<threadCount, lost>>

CountStore(w, from, to, d) ==
  /\ WGo(w, from, to)
  /\ threadCount' = reg[w] + d
  /\ lost' = IF reg[w] = threadCount THEN lost ELSE lost \cup {"count"}
  /\ UNCHANGED reg

-----------------------------------------------------------------------------
(* thread_macro                                                            *)

\* Abort!
ThreadBegin(w) ==
  WStep(w, "start", IF IsContinue THEN "count" ELSE "none")

ThreadCount(w) ==
  /\ \/ CountAtOnce(w, "count", "recheck", 1)
     \/ CountLoad(w, "count", "countStore")
     \/ CountStore(w, "countStore", "recheck", 1)
  /\ UNCHANGED <<interruptor, queued, shared, lock, size, left, iter, cvars, stale, credit, owed,
                 unreset>>

\* Immediate disable check, else cnd_broadcast.
\* Faults: no check; a return that does not go through onExit.
NoRecheck == "capture"
RecheckReturns == IF IsContinue THEN "capture" ELSE "none"
AfterRecheck == IF IsContinue THEN "capture" ELSE "leave"

ThreadRecheck(w) ==
  /\ WGo(w, "recheck", AfterRecheck)
  /\ cpc' = IF IsContinue THEN Woken(cpc) ELSE cpc
  /\ UNCHANGED <<macro, lock, wargs, cargs, history>>

\* sigArr and end are read once for the whole thread.
ThreadCapture(w) ==
  /\ WGo(w, "capture", IF length = 0 THEN "leave" ELSE "canPause")
  /\ size' = [size EXCEPT ![w] = length]
  /\ queued' = IF length = 0 THEN 0 ELSE queued
  /\ UNCHANGED <<interruptor, threadCount, shared, lock, left, iter, reg, cvars, history>>

\* canPause, and the initialization of pause_macro
ThreadCanPause(w) ==
  /\ WGo(w, "canPause", IF interruptor = PAUSE THEN "pausing" ELSE "loop")
  /\ iter' = [iter EXCEPT ![w] = MaxPause]
  /\ UNCHANGED <<macro, lock, size, left, reg, cvars, history>>

\* while (interruptor == MCR_PAUSE && pauseIter--): leaving at pauseIter = 0 while
\* still paused wraps pauseIter to UINT_MAX, so that the test after the loop fails.
Waited(w) == iter[w] - 1

ThreadPausing(w) ==
  /\ \/ /\ interruptor = PAUSE /\ iter[w] > 0
        /\ WGo(w, "pausing", "pausing")
        /\ iter' = [iter EXCEPT ![w] = Waited(w)]
     \/ /\ interruptor = PAUSE /\ iter[w] = 0
        /\ WGo(w, "pausing", "loop")
        /\ UNCHANGED iter
     \/ /\ interruptor # PAUSE
        /\ WGo(w, "pausing", IF iter[w] = 0 THEN "pauseEnd" ELSE "loop")
        /\ UNCHANGED iter
  /\ UNCHANGED <<macro, lock, size, left, reg, cvars, history>>

\* !pauseIter && interruptor == MCR_PAUSE, and then the write
ThreadPauseEnd(w) ==
  /\ \/ /\ WGo(w, "pauseEnd", IF interruptor = PAUSE THEN "pauseReset" ELSE "loop")
        /\ UNCHANGED <<interruptor, lost, unreset>>
     \/ /\ WGo(w, "pauseReset", "loop")
        /\ SetInterruptor(w, CONTINUE)
  /\ UNCHANGED <<queued, threadCount, shared, lock, wargs, cvars, stale, credit, owed>>

\* Loop only while triggers queued, or last thread is sticky.
\* Fault: the last thread loops whether sticky or not.
LastLoops == (IsContinue /\ queued # 0) \/ threadCount = 1
Loops == (IsContinue /\ queued # 0) \/ (sticky /\ threadCount = 1)

ThreadLoop(w) == WStep(w, "loop", IF Loops THEN "take" ELSE "leave")

\* A pass over the captured signal set begins.  A sticky macro owes no definite
\* number of passes, and one surplus pass is all that owed has to remember.
StartPass(w) ==
  /\ left' = [left EXCEPT ![w] = size[w]]
  /\ owed' = IF sticky \/ owed < 0 THEN owed ELSE owed - 1

\* The first operand of mcrPt->queued && --mcrPt->queued == 0.
ThreadTake(w) ==
  /\ \/ queued = 0 /\ WGo(w, "take", "signal") /\ StartPass(w)
     \/ queued # 0 /\ WGo(w, "take", "decrement") /\ UNCHANGED <<left, owed>>
  /\ UNCHANGED <<macro, lock, size, iter, reg, cvars, lost, stale, credit, unreset>>

\* The second operand: another thread may have emptied the queue in between.
ThreadDecrement(w) ==
  /\ queued' = Wrap(queued - 1)
  /\ \/ queued' = 0 /\ WGo(w, "decrement", "overdraw") /\ UNCHANGED <<left, owed>>
     \/ queued' # 0 /\ WGo(w, "decrement", "signal") /\ StartPass(w)
  /\ UNCHANGED <<interruptor, threadCount, shared, lock, size, iter, reg, cvars, lost, stale, credit,
                 unreset>>

\* queued = 0 in the critical section, and break
ThreadOverdraw(w) ==
  /\ lock = NoOne
  /\ WGo(w, "overdraw", "leave")
  /\ queued' = 0
  /\ UNCHANGED <<interruptor, threadCount, shared, lock, wargs, cvars, history>>

\* The condition of the signal loop, and the first test for MCR_INTERRUPT.
ThreadSignal(w) ==
  WStep(w, "signal", IF ~ IsContinue \/ left[w] = 0 THEN "canPause"
                       ELSE IF interruptor = INTERRUPT THEN "acquire" ELSE "send")

ThreadAcquire(w) ==
  /\ lock = NoOne
  /\ lock' = w
  /\ WGo(w, "acquire", "critical")
  /\ UNCHANGED <<macro, wargs, cvars, history>>

\* The second test for MCR_INTERRUPT.  Fault: the first test is relied upon.
NoSecondTest == TRUE
StillInterrupted == interruptor = INTERRUPT

ThreadCritical(w) ==
  /\ WGo(w, "critical", IF StillInterrupted THEN "cancel" ELSE "send")
  /\ lock' = IF StillInterrupted THEN lock ELSE NoOne
  /\ UNCHANGED <<macro, wargs, cvars, history>>

\* This pass is the one that is cancelled.
ThreadCancel(w) ==
  /\ WGo(w, "cancel", "canPause")
  /\ SetInterruptor(w, CONTINUE)
  /\ lock' = NoOne
  /\ credit' = credit - 1
  /\ UNCHANGED <<queued, threadCount, shared, wargs, cvars, stale, owed>>

\* mcr_send returns; its error is ignored.  ++sigPt
ThreadSend(w) ==
  /\ WGo(w, "send", "signal")
  /\ left' = [left EXCEPT ![w] = @ - 1]
  /\ UNCHANGED <<macro, lock, size, iter, reg, cvars, history>>

\* onExit: the decrement, and then nonneg and cnd_broadcast
ThreadLeave(w) ==
  /\ \/ CountAtOnce(w, "leave", "clamp", -1)
     \/ CountLoad(w, "leave", "leaveStore")
     \/ CountStore(w, "leaveStore", "clamp", -1)
  /\ UNCHANGED <<interruptor, queued, shared, lock, size, left, iter, cvars, stale, credit, owed,
                 unreset>>

ThreadExit(w) ==
  /\ WGo(w, "clamp", "none")
  /\ threadCount' = IF threadCount < 0 THEN 0 ELSE threadCount
  /\ cpc' = Woken(cpc)
  /\ stale' = stale \ {w}
  /\ UNCHANGED <<interruptor, queued, shared, lock, wargs, cargs, lost, credit, owed, unreset>>

thread_macro(w) ==
  \/ ThreadBegin(w)    \/ ThreadCount(w)    \/ ThreadRecheck(w) \/ ThreadCapture(w)
  \/ ThreadCanPause(w) \/ ThreadPausing(w)  \/ ThreadPauseEnd(w)
  \/ ThreadLoop(w)     \/ ThreadTake(w)     \/ ThreadDecrement(w)
  \/ ThreadOverdraw(w) \/ ThreadSignal(w)   \/ ThreadAcquire(w)
  \/ ThreadCritical(w) \/ ThreadCancel(w)   \/ ThreadSend(w)
  \/ ThreadLeave(w)    \/ ThreadExit(w)

-----------------------------------------------------------------------------
(* clear_threads, for the owner (MCR_DISABLE, sticky interrupt) and for the *)
(* resetters (MCR_INTERRUPT_ALL, given up when the interruptor changes).    *)

ClearType(p) == IF p = Owner THEN DISABLE ELSE INTERRUPT_ALL

\* dequeue: the triggers not yet sent are cancelled.
Dequeue(p, i) ==
  /\ SetInterruptor(p, i)
  /\ queued' = 0
  /\ owed' = 0

\* Where clear_threads returns to.
Returned(p, result) == IF p = Owner THEN result ELSE "resume"

ClearBegin(p) ==
  /\ CGo(p, "clear", "running")
  /\ Dequeue(p, ClearType(p))
  /\ UNCHANGED <<threadCount, shared, lock, wvars, cargs, stale, credit>>

\* !isrunning, and the condition of the loop
ClearCheck(p) ==
  CStep(p, "running", IF IsRunning THEN "dequeue" ELSE Returned(p, "cleared"))

\* cnd_timedwait holds a mutex of this call only: a broadcast between ClearCheck and
\* this step wakes nobody.
ClearWait(p) ==
  /\ CGo(p, "dequeue", "wait")
  /\ Dequeue(p, ClearType(p))
  /\ UNCHANGED <<threadCount, shared, lock, wvars, cargs, stale, credit>>

\* The wait ends without a broadcast.  Fault: the result thrd_timedout is not looked at.
TimeoutIgnored(p) == CStep(p, "wait", "woken")
ClearTimeout(p) ==
  CStep(p, "wait", "expired")

GivesUp(p) == p # Owner /\ interruptor # INTERRUPT_ALL

ClearWoken(p) ==
  CStep(p, "woken", IF GivesUp(p) THEN "resume" ELSE "running")

\* If timed out, we lose control over threads.
ClearExpired(p) ==
  /\ cpc[p] = "expired"
  /\ \/ /\ GivesUp(p)
        /\ cpc' = [cpc EXCEPT ![p] = "resume"]
        /\ UNCHANGED <<threadCount, lost>>
     \/ /\ ~ GivesUp(p)
        /\ cpc' = Woken([cpc EXCEPT ![p] = Returned(p, "failed")])
        /\ threadCount' = 0
        /\ lost' = lost \cup {"timeout"}
  /\ UNCHANGED <<interruptor, queued, shared, lock, wvars, cargs, stale, credit, owed, unreset>>

clear_threads(p) ==
  \/ ClearBegin(p) \/ ClearCheck(p) \/ ClearWait(p) \/ ClearTimeout(p)
  \/ ClearWoken(p) \/ ClearExpired(p)

-----------------------------------------------------------------------------
(* thread_wait_reset, mcr_Macro_interrupt and resetthread                  *)

\* Fault: the macro is left interrupted.
NeverReenabled(r) == CStep(r, "resume", "idle")
ResetResume(r) ==
  CStep(r, "resume", IF interruptor = INTERRUPT_ALL THEN "reenable" ELSE "idle")

\* The write of MCR_CONTINUE that follows a test of the interruptor or thread_count.
Reenable(p) ==
  /\ CGo(p, "reenable", "idle")
  /\ SetInterruptor(p, CONTINUE)
  /\ UNCHANGED <<queued, threadCount, shared, lock, wvars, cargs, stale, credit, owed>>

thread_wait_reset(r) == clear_threads(r) \/ ResetResume(r) \/ Reenable(r)

\* A client may call: the application has stopped all others before it frees the macro.
Callable(c) ==
  /\ cpc[c] = "idle"
  /\ calls < Budget
  /\ ~ freed
  /\ c # Owner => ~ (op = "deinit" /\ cpc[Owner] # "idle")

\* prev # interruptType, else the call does nothing
Interrupt(c, i) ==
  /\ Callable(c)
  /\ interruptor # i
  /\ cpc' = [cpc EXCEPT ![c] = "write"]
  /\ request' = [request EXCEPT ![c] = i]
  /\ calls' = calls + 1
  /\ UNCHANGED <<macro, lock, wvars, seen, ownvars, history>>

InterruptWrite(c) ==
  /\ CGo(c, "write", IF request[c] = INTERRUPT_ALL THEN "reset" ELSE "idle")
  /\ SetInterruptor(c, request[c])
  /\ credit' = IF request[c] = INTERRUPT THEN credit + 1 ELSE credit
  /\ UNCHANGED <<queued, threadCount, shared, lock, wvars, cargs, stale, owed>>

ResetBegin(c) ==
  /\ CGo(c, "reset", "resetCheck")
  /\ Dequeue(c, INTERRUPT_ALL)
  /\ UNCHANGED <<threadCount, shared, lock, wvars, cargs, stale, credit>>

\* Reset at once when no thread is counted, else in a thread.  mcr_thrd may fail to make
\* it, at any time: then nobody is left who would lift the interruption.
ResetCheck(c) ==
  /\ cpc[c] = "resetCheck"
  /\ \/ ~ IsRunning /\ cpc' = [cpc EXCEPT ![c] = "reenable"] /\ UNCHANGED unreset
     \/ /\ IsRunning
        /\ \E r \in Resetters :
             cpc[r] = "idle" /\ cpc' = [cpc EXCEPT ![c] = "idle", ![r] = "clear"]
        /\ UNCHANGED unreset
     \/ /\ IsRunning
        /\ cpc' = [cpc EXCEPT ![c] = "idle"]
        /\ unreset' = TRUE
  /\ UNCHANGED <<macro, lock, wvars, cargs, lost, stale, credit, owed>>

mcr_Macro_interrupt(c) ==
  \/ \E i \in Requests : Interrupt(c, i)
  \/ InterruptWrite(c) \/ ResetBegin(c) \/ ResetCheck(c) \/ Reenable(c)

-----------------------------------------------------------------------------
(* mcr_Macro_receive                                                       *)

\* thread_count is read first, and not again.
Receive(c) ==
  /\ Callable(c)
  /\ cpc' = [cpc EXCEPT ![c] = "switch"]
  /\ seen' = [seen EXCEPT ![c] = threadCount]
  /\ calls' = calls + 1
  /\ UNCHANGED <<macro, lock, wvars, request, ownvars, history>>

\* There was a concurrency blip, but we can correct it.
ReceiveSwitch(c) ==
  /\ cpc[c] = "switch"
  /\ \/ /\ interruptor \in {CONTINUE, PAUSE}
        /\ seen[c] < 0
        /\ threadCount' = 0
        /\ seen' = [seen EXCEPT ![c] = 0]
        /\ cpc' = Woken([cpc EXCEPT ![c] = "enqueue"])
     \/ /\ interruptor \in {CONTINUE, PAUSE}
        /\ seen[c] >= 0
        /\ cpc' = [cpc EXCEPT ![c] = "enqueue"]
        /\ UNCHANGED <<threadCount, seen>>
     \/ /\ interruptor \notin {CONTINUE, PAUSE}
        /\ cpc' = [cpc EXCEPT ![c] = IF interruptor = INTERRUPT THEN "reenable" ELSE "idle"]
        /\ UNCHANGED <<threadCount, seen>>
  /\ UNCHANGED <<interruptor, queued, shared, lock, wvars, request, ownvars, calls, history>>

\* The new thread, if the queue did not wrap.  mcr_thrd may fail to make it, at any time.
StartThread ==
  \/ \E w \in Workers : WGo(w, "none", "start") /\ owed' = owed + 1
  \/ UNCHANGED <<wpc, owed>>

ReceiveEnqueue(c) ==
  /\ CGo(c, "enqueue", "idle")
  /\ \/ /\ seen[c] < ThreadLimit /\ seen[c] < threadMax
        /\ queued' = Wrap(queued + 1)
        /\ IF queued' = 0 THEN UNCHANGED <<wpc, owed>> ELSE StartThread
     \/ /\ ~ (seen[c] < ThreadLimit /\ seen[c] < threadMax)
        /\ UNCHANGED <<queued, wpc, owed>>
  /\ UNCHANGED <<interruptor, threadCount, shared, lock, wargs, cargs, lost, stale, credit,
                 unreset>>

mcr_Macro_receive(c) == Receive(c) \/ ReceiveSwitch(c) \/ ReceiveEnqueue(c)

-----------------------------------------------------------------------------
(* mcr_Macro_send, in the thread of the client: it is not counted.         *)

SendBegin(c) ==
  /\ Callable(c)
  /\ cpc' = [cpc EXCEPT ![c] = "sending"]
  /\ seen' = [seen EXCEPT ![c] = length]
  /\ calls' = calls + 1
  /\ UNCHANGED <<macro, lock, wvars, request, ownvars, history>>

\* The condition of the loop, mcr_send and, unless it fails, ++sigPt.
SendStep(c) ==
  /\ cpc[c] = "sending"
  /\ \/ /\ interruptor = CONTINUE
        /\ seen[c] > 0
        /\ seen' = [seen EXCEPT ![c] = @ - 1]
        /\ UNCHANGED <<cpc, stale>>
     \/ /\ cpc' = [cpc EXCEPT ![c] = "idle"]
        /\ stale' = stale \ {c}
        /\ UNCHANGED seen
  /\ UNCHANGED <<macro, lock, wvars, request, ownvars, calls,
                 lost, credit, owed, unreset>>

mcr_Macro_send(c) == SendBegin(c) \/ SendStep(c)

-----------------------------------------------------------------------------
(* The operations of the owner.  They follow one scheme: disable, wait for *)
(* the threads, change the signal set, enable again if it was enabled.     *)
(*   "edit"      set_signals, set_signal, remove, push, pop                *)
(*   "insert"    insert_signal                                             *)
(*   "indirect"  set_signal and insert_signal past the end: push_signal    *)
(*   "copy"      mcr_Macro_copy: set_signals                               *)
(*   "deinit"    mcr_Macro_deinit                                          *)

\* ifndisable_errout
Operate(o) ==
  /\ Callable(Owner)
  /\ o # "set_all"
  /\ o = "deinit" => \A c \in Clients \ {Owner} : cpc[c] = "idle"
  /\ op' = o
  /\ mem' = (interruptor # DISABLE)
  /\ calls' = calls + 1
  /\ cpc' = [cpc EXCEPT ![Owner] = "clear"]
  /\ UNCHANGED <<macro, lock, wvars, seen, request, inner, history>>

\* The call nested in "indirect" and "copy" disables and remembers once more.
OperateNested ==
  /\ CGo(Owner, "cleared", "clear")
  /\ op \in {"indirect", "copy"}
  /\ inner = "none"
  /\ inner' = IF interruptor # DISABLE THEN "on" ELSE "off"
  /\ \/ /\ op = "copy"
        /\ sticky' \in Stickies
        /\ \E n \in ThreadMaxes : threadMax' = BoundThreadMax(n)
     \/ op = "indirect" /\ UNCHANGED <<sticky, threadMax>>
  /\ UNCHANGED <<interruptor, queued, threadCount, length, freed, lock, wvars,
                 seen, request, op, mem, calls, history>>

\* The workers that will still read through sigArr.
Holding == {"canPause", "pausing", "pauseEnd", "pauseReset", "loop", "take", "decrement",
            "overdraw", "signal", "acquire", "critical", "cancel", "send"}

Outdate == stale' = stale \cup {w \in Workers : wpc[w] \in Holding}
                          \cup {c \in Clients : cpc[c] = "sending"}

Modify ==
  /\ CGo(Owner, "cleared", "finish")
  /\ op \in {"edit", "insert"} \/ (op \in {"indirect", "copy"} /\ inner # "none")
  /\ length' \in Lengths
  /\ Outdate
  /\ UNCHANGED <<interruptor, queued, threadCount, sticky, threadMax, freed, lock, wvars, cargs,
                 lost, credit, owed, unreset>>

\* insert_signal returns its error, mcr_Macro_copy finds no source: still disabled.
StayDisabled ==
  op \in {"insert", "copy"} /\ inner = "none" /\ CStep(Owner, "cleared", "idle")

\* disreenable, of the nested call first.  A copy goes on to mcr_Macro_set_enabled.
Finish ==
  /\ CGo(Owner, "finish", IF inner = "none" THEN "idle"
                          ELSE IF op = "indirect" THEN "finish" ELSE "enable")
  /\ IF inner = "on" \/ (inner = "none" /\ mem)
     THEN SetInterruptor(Owner, CONTINUE) ELSE UNCHANGED <<interruptor, lost, unreset>>
  /\ inner' = "none"
  /\ UNCHANGED <<queued, threadCount, shared, lock, wvars, seen, request, op, mem, calls,
                 stale, credit, owed>>

\* mcr_Macro_set_enabled with what the source has, unless set_signals reported an error.
CopyEnable ==
  /\ \/ \E i \in {CONTINUE, DISABLE} :
          /\ i # interruptor
          /\ CGo(Owner, "enable", "write")
          /\ request' = [request EXCEPT ![Owner] = i]
     \/ CGo(Owner, "enable", "idle") /\ UNCHANGED request
  /\ UNCHANGED <<macro, lock, wvars, seen, ownvars, calls, history>>

\* clear_threads timed out: the operation is abandoned.  The outer call of "indirect"
\* does not look at the result of push_signal.
Abandon ==
  /\ op # "deinit"
  /\ CGo(Owner, "failed", IF op = "indirect" /\ inner # "none" THEN "finish" ELSE "idle")
  /\ inner' = "none"
  /\ UNCHANGED <<macro, lock, wvars,
                 seen, request, op, mem, calls, history>>

\* Deinitialization goes on even if the threads have not confirmed.
Free ==
  /\ op = "deinit"
  /\ cpc[Owner] \in {"cleared", "failed"}
  /\ cpc' = [cpc EXCEPT ![Owner] = "gone"]
  /\ length' = 0
  /\ freed' = TRUE
  /\ Outdate
  /\ UNCHANGED <<interruptor, queued, threadCount, sticky, threadMax, lock, wvars, cargs,
                 lost, credit, owed, unreset>>

\* mcr_Macro_set_all writes without disabling, then enables or disables.
SetAll ==
  /\ Callable(Owner)
  /\ sticky' \in Stickies
  /\ \E n \in ThreadMaxes : threadMax' = BoundThreadMax(n)
  /\ \/ \E i \in {CONTINUE, DISABLE} :
          /\ i # interruptor
          /\ cpc' = [cpc EXCEPT ![Owner] = "write"]
          /\ request' = [request EXCEPT ![Owner] = i]
     \/ interruptor \in {CONTINUE, DISABLE} /\ UNCHANGED <<cpc, request>>
  /\ calls' = calls + 1
  /\ UNCHANGED <<interruptor, queued, threadCount, length, freed, lock, wvars, seen, ownvars, history>>

OwnerStep ==
  \/ \E o \in Operations : Operate(o)
  \/ "set_all" \in Operations /\ SetAll
  \/ OperateNested \/ Modify \/ StayDisabled \/ Finish \/ CopyEnable \/ Abandon \/ Free
  \/ clear_threads(Owner)

-----------------------------------------------------------------------------
Done ==
  /\ \A w \in Workers : wpc[w] = "none"
  /\ \A p \in Waiters : cpc[p] \in {"idle", "gone"}
  /\ freed \/ calls = Budget
  /\ UNCHANGED vars

Next ==
  \/ \E w \in Workers : thread_macro(w)
  \/ \E r \in Resetters : thread_wait_reset(r)
  \/ \E c \in Clients : mcr_Macro_interrupt(c) \/ mcr_Macro_receive(c) \/ mcr_Macro_send(c)
  \/ OwnerStep
  \/ Done

Spec == Init /\ [][Next]_vars

=============================================================================
