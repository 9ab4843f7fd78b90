------------------------------ MODULE Grabbers ------------------------------
(***************************************************************************)
(* src/intercept/windows/p_grabber.c: a grabber of Windows. To enable it   *)
(* starts a thread that installs a hook and pumps its messages until the   *)
(* grabber is disabled; to disable it starts another that removes the      *)
(* hook, for a receiver may disable from within the hook. A mutex protects *)
(* the grabber, and every thread goes on without it after five seconds.    *)
(***************************************************************************)
EXTENDS FiniteSets

CONSTANTS
  Clients,         \* threads that call the library
  HookThreads,     \* thread_receive_hooking; each installs one hook, known by the thread
  DisableThreads,  \* thread_disable
  Impatient,       \* threads whose five seconds may pass
  NoOne

ASSUME NoOneAssumption == NoOne \notin Clients \union HookThreads \union DisableThreads

VARIABLES
  id,         \* the hook of the grabber
  hThread,    \* the grabber has the handle of a thread
  hMutex,     \* who holds the mutex
  threads,    \* where every thread stands
  installed,  \* hooks that Windows calls
  stuck,      \* hooks that could not be removed
  late,       \* a thread went on without the mutex
  freed       \* the grabber was deinitialized

grabberVars == << id, hThread, hMutex, threads, installed, stuck, late, freed >>

GrabThreads == Clients \union HookThreads \union DisableThreads

\* MCR_GRABBER_IS_ENABLED
IsEnabled == id # NoOne

Stands(t, pc) == threads[t].pc = pc
Moves(t, pc) == threads' = [threads EXCEPT ![t].pc = pc]

\* A thread that waits for the mutex, does something, and releases it.
Waiting(then, after) == [pc |-> "wait", then |-> then, after |-> after, locked |-> FALSE]
Resting(pc) == [pc |-> pc, then |-> "", after |-> "", locked |-> FALSE]

GrabberInit ==
  /\ id = NoOne /\ hThread = FALSE /\ hMutex = NoOne
  /\ threads = [t \in GrabThreads |-> IF t \in Clients THEN Resting("idle") ELSE Resting("ended")]
  /\ installed = {} /\ stuck = {} /\ late = FALSE /\ freed = FALSE

-----------------------------------------------------------------------------
(* The mutex *)

Wait(t) ==
  /\ Stands(t, "wait")
  /\ \/ hMutex = NoOne /\ hMutex' = t /\ UNCHANGED late
     \/ hMutex # NoOne /\ t \in Impatient /\ late' = TRUE /\ UNCHANGED hMutex
  /\ threads' = [threads EXCEPT ![t].pc = threads[t].then, ![t].locked = hMutex' = t]
  /\ UNCHANGED << id, hThread, installed, stuck, freed >>

\* A thread that ends takes its hook along, and mcr_Grabber_deinit the grabber.
Release(t) ==
  /\ Stands(t, "release")
  /\ hMutex' = IF threads[t].locked THEN NoOne ELSE hMutex
  /\ threads' = [threads EXCEPT ![t] = Resting(threads[t].after)]
  /\ IF threads[t].after = "ended"
     THEN installed' = installed \ {t} /\ stuck' = stuck \ {t}
     ELSE UNCHANGED << installed, stuck >>
  /\ freed' = (threads[t].after = "freed")
  /\ UNCHANGED << id, hThread, late >>

-----------------------------------------------------------------------------
(* mcr_Grabber_set_enabled, enable_impl *)

\* Clients call, and receivers that the hook of a thread calls.
MayCall(t) == Stands(t, "idle") \/ (Stands(t, "loop") /\ t \in installed)

\* Whether there is anything to do is tested before the mutex is taken.
SetEnabled(t, on) ==
  /\ MayCall(t) /\ IsEnabled # on
  /\ threads' = [threads EXCEPT ![t] = Waiting(IF on THEN "start" ELSE "stop", threads[t].pc)]
  /\ UNCHANGED << id, hThread, hMutex, installed, stuck, late, freed >>

\* A thread is created, or cannot be.
Started(t, pc, new, pool, started) ==
  \/ ~ started /\ Moves(t, pc)
  \/ /\ started
     /\ \E u \in {u \in pool : Stands(u, "ended")} :
          threads' = [threads EXCEPT ![t].pc = pc, ![u] = new]

\* A handle that is left of a thread before is closed.
Start(t) ==
  /\ Stands(t, "start")
  /\ \/ IsEnabled /\ Moves(t, "release") /\ UNCHANGED hThread
     \/ /\ ~ IsEnabled
        /\ hThread' \in BOOLEAN
        /\ Started(t, "release", Waiting("test", "loop"), HookThreads, hThread')
  /\ UNCHANGED << id, hMutex, installed, stuck, late, freed >>

Stops(t, pc) ==
  \/ ~ IsEnabled /\ Moves(t, pc)
  \/ IsEnabled /\ \E started \in BOOLEAN : Started(t, pc, Waiting("unhook", "ended"), DisableThreads, started)

Stop(t) ==
  /\ Stands(t, "stop")
  /\ Stops(t, "release")
  /\ UNCHANGED << id, hThread, hMutex, installed, stuck, late, freed >>

-----------------------------------------------------------------------------
(* thread_receive_hooking: grab_hook *)

\* Fault: a hook is installed whether there is one or not.
HooksAgain(t) == IF ~ hThread THEN "undo" ELSE "hook"

\* A grabber that is enabled is used as it is; without a handle there is an error.
HookNeeded(t) == IF IsEnabled THEN "loop" ELSE IF ~ hThread THEN "undo" ELSE "hook"

HookTest(t) ==
  /\ Stands(t, "test")
  /\ IF HookNeeded(t) = "hook" THEN Moves(t, "hook")
     ELSE threads' = [threads EXCEPT ![t].pc = "release", ![t].after = HookNeeded(t)]
  /\ UNCHANGED << id, hThread, hMutex, installed, stuck, late, freed >>

Hook(t) ==
  /\ Stands(t, "hook")
  /\ \/ id' = t /\ installed' = installed \union {t} /\ Moves(t, "release")
     \/ /\ id' \in {id, NoOne} /\ UNCHANGED installed
        /\ threads' = [threads EXCEPT ![t].pc = "release", ![t].after = "undo"]
  /\ UNCHANGED << hThread, hMutex, stuck, late, freed >>

\* Without a hook the thread disables the grabber, without the mutex, and ends.
Undo(t) ==
  /\ Stands(t, "undo")
  /\ Stops(t, "ended")
  /\ UNCHANGED << id, hThread, hMutex, installed, stuck, late, freed >>

\* Fault: messages are pumped while there is the handle of a thread.
HandleGone(t) == ~ hThread

\* The loop ends when the grabber is seen disabled, by whomever it was.
HookGone(t) == ~ IsEnabled

LoopEnds(t) ==
  /\ Stands(t, "loop") /\ HookGone(t)
  /\ Moves(t, "left")
  /\ UNCHANGED << id, hThread, hMutex, installed, stuck, late, freed >>

\* A thread that finds the grabber enabled once more leaves it alone.
Leave(t) ==
  /\ Stands(t, "left")
  /\ IF IsEnabled
     THEN Moves(t, "ended") /\ installed' = installed \ {t} /\ stuck' = stuck \ {t}
     ELSE /\ threads' = [threads EXCEPT ![t] = Waiting("unhook", "ended")]
          /\ UNCHANGED << installed, stuck >>
  /\ UNCHANGED << id, hThread, hMutex, late, freed >>

-----------------------------------------------------------------------------
(* grab_unhook, disable_impl, mcr_Grabber_deinit *)

\* Where grab_unhook returns to.
Unhooked(t) == IF t \in HookThreads THEN "release" ELSE "close"

Unhook(t) ==
  /\ Stands(t, "unhook")
  /\ \/ ~ IsEnabled /\ Moves(t, Unhooked(t)) /\ UNCHANGED << installed, stuck >>
     \/ /\ IsEnabled /\ Moves(t, "clear")
        /\ \/ installed' = installed \ {id} /\ UNCHANGED stuck
           \/ stuck' = stuck \union {id} /\ UNCHANGED installed
  /\ UNCHANGED << id, hThread, hMutex, late, freed >>

Clear(t) ==
  /\ Stands(t, "clear")
  /\ id' = NoOne
  /\ Moves(t, Unhooked(t))
  /\ UNCHANGED << hThread, hMutex, installed, stuck, late, freed >>

CloseThread(t) ==
  /\ Stands(t, "close")
  /\ hThread' = FALSE
  /\ Moves(t, "release")
  /\ UNCHANGED << id, hMutex, installed, stuck, late, freed >>

\* mcr_intercept_platform_deinitialize: the grabber is disabled, and half a second later
\* deinitialized. No client uses it any more.
Deinit(t) ==
  /\ \A c \in Clients : Stands(c, "idle")
  /\ threads' = [threads EXCEPT ![t] = IF IsEnabled THEN Waiting("stop", "sleep") ELSE Resting("sleep")]
  /\ UNCHANGED << id, hThread, hMutex, installed, stuck, late, freed >>

Slept(t) ==
  /\ Stands(t, "sleep")
  /\ threads' = [threads EXCEPT ![t] = Waiting("unhook", "freed")]
  /\ UNCHANGED << id, hThread, hMutex, installed, stuck, late, freed >>

-----------------------------------------------------------------------------
\* What a thread has begun.
Proceeds(t) ==
  /\ ~ freed
  /\ \/ Wait(t) \/ Release(t) \/ Start(t) \/ Stop(t) \/ HookTest(t) \/ Hook(t) \/ Undo(t)
     \/ LoopEnds(t) \/ Leave(t) \/ Unhook(t) \/ Clear(t) \/ CloseThread(t) \/ Slept(t)

\* Threads that still use a grabber that was freed are not followed.
Over == freed /\ UNCHANGED grabberVars

GrabberNext ==
  \/ ~ freed /\ \E t \in Clients \union HookThreads, on \in BOOLEAN : SetEnabled(t, on)
  \/ ~ freed /\ \E t \in Clients : Deinit(t)
  \/ \E t \in GrabThreads : Proceeds(t)
  \/ Over

-----------------------------------------------------------------------------
(* Properties *)

ThreadStates ==
  [pc     : {"idle", "ended", "wait", "release", "start", "stop", "test", "hook", "undo", "loop", "left",
             "unhook", "clear", "close", "sleep", "freed"},
   then   : {"", "start", "stop", "test", "unhook"},
   after  : {"", "idle", "ended", "loop", "undo", "sleep", "freed"},
   locked : BOOLEAN]

GrabberTypeOK ==
  /\ id \in HookThreads \union {NoOne} /\ hMutex \in GrabThreads \union {NoOne}
  /\ installed \subseteq HookThreads /\ stuck \subseteq HookThreads
  /\ {hThread, late, freed} \subseteq BOOLEAN
  /\ threads \in [GrabThreads -> ThreadStates]

\* As long as nobody goes on without the mutex, the grabber knows every hook that
\* Windows calls and could be removed, and the hook it knows is called: however enabling
\* threads, disabling ones and receivers overlap, no hook is lost, and none is left
\* when the grabber is freed.
HooksKnown ==
  ~ late =>
    /\ installed \subseteq {id} \union stuck
    /\ IsEnabled /\ (\A t \in GrabThreads : ~ Stands(t, "clear")) => id \in installed

\* Whatever fails, times out or overlaps: the thread of a hook that is not called any
\* more, or was never installed, ends once the grabber stays disabled.
GrabThreadsEnd ==
  \A t \in HookThreads :
    []<>(Stands(t, "ended") \/ IsEnabled \/ t \in installed \/ freed)
=============================================================================
