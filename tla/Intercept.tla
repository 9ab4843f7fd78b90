----------------------------- MODULE Intercept -----------------------------
(***************************************************************************)
(* Hardware interception on Linux (src/intercept/linux/p_intercept.c,      *)
(* p_grabber.c and src/intercept/intercept.c).  Enabling and disabling are *)
(* done by detached threads (thread_enable), which close every device,     *)
(* wait for its reading thread (intercept_start) to leave, and start new   *)
(* ones.  A section under the mutex of the platform is one step; what is   *)
(* read outside it is a step of its own.                                   *)
(***************************************************************************)
EXTENDS Naturals, FiniteSets

CONSTANTS
  Enablers,  \* threads mcr_thrd can start in thread_enable
  Threads,   \* threads mcr_thrd can start in intercept_start
  App,       \* the thread of the application
  NoOne,     \* no thread
  Contexts,  \* addresses malloc returns for a _grab_context
  Paths,     \* input devices
  Fds,       \* file descriptors left to the library
  Closed,    \* fd = -1
  Free,      \* memory that is not allocated
  NoFile,    \* a descriptor that is not open
  Failure,   \* a read that returns no event
  Faults,    \* the system calls that can fail: "open", "read", "grab"
  MaxTries,  \* timeout of clear_grabbers
  Requests,  \* what the application calls
  Budget     \* bound on the calls of the application

ASSUME InterceptAssumption ==
  /\ App \notin Enablers /\ NoOne \notin Enablers /\ Threads # {}
  /\ Fds \subseteq Nat /\ Closed \notin Fds
  /\ Failure \notin Paths
  /\ Faults \subseteq {"open", "read", "grab"}
  /\ Requests \subseteq {"on", "off", "reset", "grabs", "blockable", "deinit"}
  /\ MaxTries \in Nat /\ Budget \in Nat

Context == [path : Paths, blocking : BOOLEAN, fd : Fds \cup {Closed}]
File    == [path : Paths, exclusive : BOOLEAN]

ASSUME OutsideAssumption == Free \notin Context /\ NoFile \notin File

VARIABLES
  blockable,  \* ctx->intercept.blockable
  \* struct mcr_intercept_platform
  paths,      \* grab_paths
  contexts,   \* grab_contexts
  lock,       \* the holder of lock, when it is held for more than one step
  freed,      \* the platform structure has been freed
  memory,     \* what is at each address
  file,       \* the open files of the process
  \* thread_enable, and the application
  pc,
  enable,     \* bVal
  todo,       \* the part of pathArr that is left
  fresh,      \* grab_paths has not changed since pathArr was read
  tries,      \* timeout of clear_grabbers
  \* intercept_start
  tpc,
  gc,         \* gcPt
  pollfd,     \* fd.fd
  got,        \* where the events that were read come from
  \* history
  asked,      \* the last call of the application that returned 0
  broken,     \* what has gone wrong: "freed", a free-all; "stale", paths read too early;
              \* "early", deinitialization while an enabler runs
  calls

platform == <<blockable, paths, contexts, lock, freed>>
devices  == <<memory, file>>
enablers == <<pc, enable, todo, fresh, tries>>
readers  == <<tpc, gc, pollfd, got>>
history  == <<asked, broken, calls>>
vars     == <<platform, devices, enablers, readers, history>>

Callers == Enablers \cup {App}

Allocated == {k \in Contexts : memory[k] # Free}

\* is_enabled_impl
IsEnabled == \E k \in contexts : memory[k].fd # Closed

Init ==
  /\ blockable = FALSE /\ paths = Paths /\ contexts = {} /\ lock = NoOne /\ freed = FALSE
  /\ memory = [k \in Contexts |-> Free]
  /\ file = [f \in Fds |-> NoFile]
  /\ pc = [p \in Callers |-> "idle"]
  /\ enable = [e \in Enablers |-> FALSE]
  /\ todo = [e \in Enablers |-> {}]
  /\ fresh = [e \in Enablers |-> TRUE]
  /\ tries = [p \in Callers |-> 0]
  /\ tpc = [t \in Threads |-> "none"]
  /\ gc = [t \in Threads |-> NoOne]
  /\ pollfd = [t \in Threads |-> Closed]
  /\ got = [t \in Threads |-> Failure]
  /\ asked = "none" /\ broken = {} /\ calls = 0

-----------------------------------------------------------------------------
(* Steps and grabbers.                                                     *)

Go(p, from, to) == pc[p] = from /\ pc' = [pc EXCEPT ![p] = to]

TGo(t, from, to) == tpc[t] = from /\ tpc' = [tpc EXCEPT ![t] = to]

\* The mutex can be locked for a section that is one step.
Enter == lock = NoOne /\ ~ freed

\* The descriptor a thread finds in its context: any, if the context has been freed.
SeenFds(t) ==
  IF memory[gc[t]] = Free THEN Fds \cup {Closed} ELSE {memory[gc[t]].fd}

\* The operating system gives the lowest free descriptor, and one file of a device
\* exclusive access to it.
Lowest(f) == file[f] = NoFile /\ \A g \in Fds : g < f => file[g] # NoFile

Taken(path) == \E f \in Fds : file[f] = [path |-> path, exclusive |-> TRUE]

Refused(k) == memory[k].blocking /\ Taken(memory[k].path)

\* grabber_open
Open(k) ==
  /\ memory[k].fd = Closed
  /\ ~ Refused(k)
  /\ \E f \in Fds :
       /\ Lowest(f)
       /\ memory' = [memory EXCEPT ![k].fd = f]
       /\ file' = [file EXCEPT ![f] = [path |-> memory[k].path,
                                       exclusive |-> memory[k].blocking]]

\* grabber_close of every grabber in ks
\* Fault: the descriptors are forgotten, not closed.
ForgottenFiles(ks) == file
ClosedFiles(ks) ==
  [f \in Fds |-> IF \E k \in ks : memory[k].fd = f THEN NoFile ELSE file[f]]

ClosedMemory(ks) ==
  [k \in Contexts |-> IF k \in ks THEN [memory[k] EXCEPT !.fd = Closed] ELSE memory[k]]

\* grab_context_malloc.  Fault: fd is zero like the rest.
Zeroed(p) == [path |-> p, blocking |-> blockable, fd |-> 0]
NewContext(p) == [path |-> p, blocking |-> blockable, fd |-> Closed]

\* mcr_Array_remove of a thread's own context.  Fault: it stays in the list.
KeepListed(t) == contexts
Delisted(t) == contexts \ {gc[t]}

\* The end of intercept_start: close, remove, free.
Release(t, f) ==
  /\ file' = IF f = Closed THEN file ELSE [file EXCEPT ![f] = NoFile]
  /\ contexts' = Delisted(t)
  /\ memory' = [memory EXCEPT ![gc[t]] = Free]
  /\ TGo(t, tpc[t], "none")
  /\ gc' = [gc EXCEPT ![t] = NoOne]
  /\ pollfd' = [pollfd EXCEPT ![t] = Closed]
  /\ got' = [got EXCEPT ![t] = Failure]
  /\ UNCHANGED <<blockable, paths, lock, freed, enablers, history>>

-----------------------------------------------------------------------------
(* intercept_start and read_grabber_loop                                   *)

\* mcr_Grabber_set_enabled(grabPt, true).  Of a context that has been freed, nothing is
\* known: it may look enabled, or fail to open.
Start(t) ==
  /\ Enter
  /\ tpc[t] = "start"
  /\ \/ /\ memory[gc[t]] # Free
        /\ Open(gc[t])
        /\ TGo(t, "start", "begin")
        /\ UNCHANGED <<platform, enablers, gc, pollfd, got, history>>
     \/ /\ \E f \in SeenFds(t) : f # Closed
        /\ TGo(t, "start", "begin")
        /\ UNCHANGED <<platform, devices, enablers, gc, pollfd, got, history>>
     \/ /\ Closed \in SeenFds(t)
        /\ memory[gc[t]] # Free => "open" \in Faults \/ Refused(gc[t])
        /\ Release(t, Closed)

\* fd.fd = grabPt->fd
ReadBegin(t) ==
  /\ TGo(t, "begin", "poll")
  /\ \E f \in SeenFds(t) : pollfd' = [pollfd EXCEPT ![t] = f]
  /\ UNCHANGED <<platform, devices, enablers, gc, got, history>>

\* The conditions before and after poll, when poll has something to read.
Poll(t) ==
  /\ \/ TGo(t, "poll", "leave") /\ Closed \in SeenFds(t)
     \/ /\ TGo(t, "poll", "read")
        /\ \E f \in SeenFds(t) : f # Closed
        /\ pollfd[t] # Closed
  /\ UNCHANGED <<platform, devices, enablers, gc, pollfd, got, history>>

\* read: the descriptor can have been closed, and opened for another device.
Read(t) ==
  /\ TGo(t, "read", "check")
  /\ \/ /\ file[pollfd[t]] # NoFile
        /\ got' = [got EXCEPT ![t] = file[pollfd[t]].path]
     \/ /\ file[pollfd[t]] = NoFile \/ "read" \in Faults
        /\ got' = [got EXCEPT ![t] = Failure]
  /\ UNCHANGED <<platform, devices, enablers, gc, pollfd, history>>

\* Do not err on closed events.  Fault: the descriptor is not looked at again.
Unchecked(t) == FALSE
ClosedMeanwhile(t) == Closed \in SeenFds(t)

Check(t) ==
  /\ tpc[t] = "check"
  /\ \/ ClosedMeanwhile(t) /\ TGo(t, "check", "leave")
     \/ /\ ~ ClosedMeanwhile(t) \/ memory[gc[t]] = Free
        /\ TGo(t, "check", IF got[t] = Failure THEN "leave" ELSE "dispatch")
  /\ UNCHANGED <<platform, devices, enablers, gc, pollfd, got, history>>

\* mcr_dispatch of the events, and the write of those that are not blocked
Dispatch(t) ==
  /\ \/ TGo(t, "dispatch", "poll")
     \/ "read" \in Faults /\ TGo(t, "dispatch", "leave")
  /\ got' = [got EXCEPT ![t] = Failure]
  /\ UNCHANGED <<platform, devices, enablers, gc, pollfd, history>>

Leave(t) ==
  /\ Enter
  /\ tpc[t] = "leave"
  /\ \E f \in SeenFds(t) : Release(t, f)

intercept_start(t) ==
  Start(t) \/ ReadBegin(t) \/ Poll(t) \/ Read(t) \/ Check(t) \/ Dispatch(t) \/ Leave(t)

-----------------------------------------------------------------------------
(* clear_grabbers, of the enablers and of deinitialization                 *)

\* Where clear_grabbers returns to.
Cleared(p) == IF p = App THEN "free" ELSE IF enable[p] THEN "lock" ELSE "idle"

\* timeout--.  Fault: there is no end to the attempts.
Untiring(p) == tries[p]
TriesLeft(p) == tries[p] - 1

\* grab_contexts.used is read without the mutex, in the loop and after it.
\* Fault: devices that are closed count as gone.
OpenOnes == IsEnabled
StillUsed == contexts # {}
LeftOver  == contexts # {}

ClearCheck(p) ==
  /\ \/ /\ StillUsed /\ tries[p] > 0
        /\ Go(p, "clear", "disable")
        /\ tries' = [tries EXCEPT ![p] = TriesLeft(p)]
     \/ /\ ~ (StillUsed /\ tries[p] > 0)
        /\ Go(p, "clear", "patience")
        /\ UNCHANGED tries
  /\ UNCHANGED <<platform, devices, enable, todo, fresh, readers, history>>

\* Disable all, and sleep.
ClearDisable(p) ==
  /\ Enter
  /\ Go(p, "disable", "clear")
  /\ memory' = ClosedMemory(contexts)
  /\ file' = ClosedFiles(contexts)
  /\ UNCHANGED <<platform, enable, todo, fresh, tries, readers, history>>

ClearPatience(p) ==
  /\ Go(p, "patience", IF LeftOver THEN "freeAll" ELSE Cleared(p))
  /\ UNCHANGED <<platform, devices, enable, todo, fresh, tries, readers, history>>

\* The list after the free-all.
Emptied == {}

\* Impatient free-all: the threads of the contexts are not stopped.
ClearFree(p) ==
  /\ Enter
  /\ Go(p, "freeAll", Cleared(p))
  /\ memory' = [k \in Contexts |-> IF k \in contexts THEN Free ELSE memory[k]]
  /\ file' = ClosedFiles(contexts)
  /\ contexts' = Emptied
  /\ broken' = IF contexts = {} THEN broken ELSE broken \cup {"freed"}
  /\ UNCHANGED <<blockable, paths, lock, freed, enable, todo, fresh, tries, readers,
                 asked, calls>>

clear_grabbers(p) == ClearCheck(p) \/ ClearDisable(p) \/ ClearPatience(p) \/ ClearFree(p)

-----------------------------------------------------------------------------
(* thread_enable                                                           *)

\* pathArr and its length are read before the mutex is locked.
EnableBegin(e) ==
  /\ Go(e, "start", "used")
  /\ todo' = [todo EXCEPT ![e] = IF enable[e] THEN paths ELSE {}]
  /\ fresh' = [fresh EXCEPT ![e] = TRUE]
  /\ UNCHANGED <<platform, devices, enable, tries, readers, history>>

\* Always clear.  Do not grab what is already grabbed.
\* Fault: only a thread that disables clears.
ClearsToDisable(e) == contexts # {} /\ ~ enable[e]
Clears(e) == contexts # {}

EnableUsed(e) ==
  /\ Go(e, "used", IF Clears(e) THEN "clear" ELSE Cleared(e))
  /\ tries' = [tries EXCEPT ![e] = MaxTries]
  /\ UNCHANGED <<platform, devices, enable, todo, fresh, readers, history>>

EnableLock(e) ==
  /\ Enter
  /\ lock' = e
  /\ Go(e, "lock", "grab")
  /\ UNCHANGED <<blockable, paths, contexts, freed, devices, enable, todo, fresh, tries,
                 readers, history>>

\* The string found where pathArr held path: another one, if the set has changed.
Found(e, path) == IF fresh[e] THEN {path} ELSE {path} \cup paths

\* grab_impl adds a context and starts its thread, or fails and ends the loop.
Grab(e) ==
  /\ pc[e] = "grab"
  /\ \/ \E next \in todo[e], k \in Contexts \ Allocated, t \in Threads :
          /\ TGo(t, "none", "start")
          /\ gc' = [gc EXCEPT ![t] = k]
          /\ \E path \in Found(e, next) :
               memory' = [memory EXCEPT ![k] = NewContext(path)]
          /\ contexts' = contexts \cup {k}
          /\ todo' = [todo EXCEPT ![e] = @ \ {next}]
          /\ broken' = IF fresh[e] THEN broken ELSE broken \cup {"stale"}
     \/ /\ todo[e] # {}
        /\ \/ "grab" \in Faults
           \/ Allocated = Contexts
           \/ \A t \in Threads : tpc[t] # "none"
        /\ todo' = [todo EXCEPT ![e] = {}]
        /\ UNCHANGED <<tpc, gc, memory, contexts, broken>>
  /\ UNCHANGED <<blockable, paths, lock, freed, file, pc, enable, fresh, tries, pollfd, got,
                 asked, calls>>

EnableUnlock(e) ==
  /\ Go(e, "grab", "idle")
  /\ todo[e] = {}
  /\ lock' = NoOne
  /\ fresh' = [fresh EXCEPT ![e] = TRUE]
  /\ UNCHANGED <<blockable, paths, contexts, freed, devices, enable, todo, tries,
                 readers, history>>

thread_enable(e) ==
  \/ EnableBegin(e) \/ EnableUsed(e) \/ EnableLock(e) \/ Grab(e) \/ EnableUnlock(e)
  \/ clear_grabbers(e)

-----------------------------------------------------------------------------
(* The application's calls                                                 *)

Call(r) == r \in Requests /\ pc[App] = "idle" /\ calls < Budget /\ Enter /\ calls' = calls + 1

\* set_enabled_impl, after which the application is at to, or idle if it fails.
SetEnabled(b, from, to) ==
  /\ Enter
  /\ pc[App] = from
  /\ \/ /\ b \/ IsEnabled
        /\ \E e \in Enablers :
             /\ pc[e] = "idle"
             /\ pc' = [pc EXCEPT ![e] = "start", ![App] = to]
             /\ enable' = [enable EXCEPT ![e] = b]
        /\ asked' = IF from # "idle" THEN "reset" ELSE IF b THEN "on" ELSE "off"
     \/ /\ ~ (b \/ IsEnabled)
        /\ pc' = [pc EXCEPT ![App] = to]
        /\ asked' = IF from # "idle" THEN "reset" ELSE "off"
        /\ UNCHANGED enable
     \/ /\ b \/ IsEnabled
        /\ \A e \in Enablers : pc[e] # "idle"
        /\ pc' = [pc EXCEPT ![App] = "idle"]
        /\ UNCHANGED <<enable, asked>>
  /\ UNCHANGED <<platform, devices, todo, fresh, tries, readers, broken>>

mcr_intercept_set_enabled ==
  \/ Call("on") /\ SetEnabled(TRUE, "idle", "idle")
  \/ Call("off") /\ SetEnabled(FALSE, "idle", "idle")

\* mcr_intercept_reset: is_enabled, and two calls that each lock the mutex anew.
ResetBegin ==
  /\ Call("reset")
  /\ IsEnabled
  /\ Go(App, "idle", "resetOff")
  /\ UNCHANGED <<platform, devices, enable, todo, fresh, tries, readers, asked, broken>>

ResetOff == SetEnabled(FALSE, "resetOff", "resetOn") /\ UNCHANGED calls
ResetOn  == SetEnabled(TRUE, "resetOn", "idle") /\ UNCHANGED calls

mcr_intercept_reset == ResetBegin \/ ResetOff \/ ResetOn

\* mcr_intercept_set_grabs and remove_grab, any change that they can make (what
\* mcr_intercept_add_grab adds is lost: see AddedIsFound in module StringSets)
SetGrabs ==
  /\ Call("grabs")
  /\ paths' \in SUBSET Paths \ {paths}
  /\ fresh' = [e \in Enablers |-> pc[e] \in {"idle", "start"}]
  /\ UNCHANGED <<blockable, contexts, lock, freed, devices, pc, enable, todo, tries, readers,
                 asked, broken>>

SetBlockable ==
  /\ Call("blockable")
  /\ blockable' = ~ blockable
  /\ UNCHANGED <<paths, contexts, lock, freed, devices, enablers, readers, asked, broken>>

\* mcr_intercept_platform_deinitialize
DeinitBegin ==
  /\ Call("deinit")
  /\ Go(App, "idle", "clear")
  /\ tries' = [tries EXCEPT ![App] = MaxTries]
  /\ broken' = IF \A e \in Enablers : pc[e] = "idle" THEN broken ELSE broken \cup {"early"}
  /\ UNCHANGED <<platform, devices, enable, todo, fresh, readers, asked>>

DeinitFree ==
  /\ Enter
  /\ Go(App, "free", "gone")
  /\ paths' = {} /\ contexts' = {} /\ freed' = TRUE
  /\ UNCHANGED <<blockable, lock, devices, enable, todo, fresh, tries, readers, history>>

mcr_intercept_deinitialize == DeinitBegin \/ DeinitFree \/ clear_grabbers(App)

AppStep ==
  \/ mcr_intercept_set_enabled \/ mcr_intercept_reset \/ SetGrabs \/ SetBlockable
  \/ mcr_intercept_deinitialize

-----------------------------------------------------------------------------
\* Nothing is left to do, or the platform a thread needs is gone.
Done ==
  /\ \/ freed
     \/ /\ \A p \in Callers : pc[p] = "idle"
        /\ \A t \in Threads : tpc[t] \in {"none", "poll"}
        /\ calls = Budget
  /\ UNCHANGED vars

Next ==
  \/ \E t \in Threads : intercept_start(t)
  \/ \E e \in Enablers : thread_enable(e)
  \/ AppStep
  \/ Done

Spec == Init /\ [][Next]_vars

=============================================================================
