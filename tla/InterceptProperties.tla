------------------------ MODULE InterceptProperties ------------------------
(* What is claimed of module Intercept.                                    *)
EXTENDS Intercept

CallerPoints == {"idle", "start", "used", "clear", "disable", "patience", "freeAll", "lock",
                 "grab", "resetOff", "resetOn", "free", "gone"}
ReaderPoints == {"none", "start", "begin", "poll", "read", "check", "dispatch", "leave"}

\* Every variable has a value of its kind.
TypeOK ==
  /\ blockable \in BOOLEAN
  /\ paths \subseteq Paths
  /\ contexts \subseteq Contexts
  /\ lock \in Enablers \cup {NoOne}
  /\ freed \in BOOLEAN
  /\ memory \in [Contexts -> Context \cup {Free}]
  /\ file \in [Fds -> File \cup {NoFile}]
  /\ pc \in [Callers -> CallerPoints]
  /\ enable \in [Enablers -> BOOLEAN]
  /\ todo \in [Enablers -> SUBSET Paths]
  /\ fresh \in [Enablers -> BOOLEAN]
  /\ tries \in [Callers -> 0 .. MaxTries]
  /\ tpc \in [Threads -> ReaderPoints]
  /\ gc \in [Threads -> Contexts \cup {NoOne}]
  /\ pollfd \in [Threads -> Fds \cup {Closed}]
  /\ got \in [Threads -> Paths \cup {Failure}]
  /\ asked \in {"none", "on", "off", "reset"}
  /\ broken \subseteq {"freed", "stale", "early"}
  /\ calls \in 0 .. Budget

Running == {t \in Threads : tpc[t] # "none"}

\* "Freed when thread is done with it": until a free-all, every reading thread finds its
\* context in grab_contexts, shares it with no other thread, and no context is left over
\* for which no thread runs.
OneThreadEach ==
  "freed" \notin broken /\ ~ freed =>
    /\ \A t, u \in Running : gc[t] = gc[u] => t = u
    /\ contexts = {gc[t] : t \in Running}

\* What mcr_intercept_is_enabled, the modifiers and clear_grabbers dereference has not
\* been freed, whatever has become of the threads.
NoDangling == \A k \in contexts : memory[k] # Free

\* Every open device belongs to a context that is still listed, so clear_grabbers closes
\* it: none is left open, and none grabbed for ever.
NoLeak ==
  ~ freed => \A f \in Fds : file[f] # NoFile => \E k \in contexts : memory[k].fd = f

\* What is listed can be used, and what is open is listed: nothing is freed too early or
\* never.
OwnsContexts == NoDangling /\ NoLeak

\* "Do not err on closed events": although another thread closes the descriptor under the
\* reader, and it may be opened for another device at once, only events of the reader's
\* own device are dispatched.
DispatchesOwn ==
  "freed" \notin broken => \A t \in Threads : tpc[t] = "dispatch" => got[t] = memory[gc[t]].path

\* "Do not grab what is already grabbed": the same device is not open twice, if the paths
\* that are grabbed are still the ones that were read.
NoDoubleGrab ==
  broken = {} =>
    \A f, g \in Fds : f # g /\ file[f] # NoFile /\ file[g] # NoFile
                        => file[f].path # file[g].path

\* A thread that has disabled leaves nothing behind.
DisableComplete ==
  [][\A e \in Enablers : ~ enable[e] /\ pc[e] # "idle" /\ pc'[e] = "idle"
       => contexts' = {}]_vars

\* "While unlocked and paused, threads will remove themselves": deinitialization frees the
\* platform when no reading thread needs it, if every enabling thread has ended before.
NobodyLeft == freed /\ broken \subseteq {"stale"} => Running = {}

-----------------------------------------------------------------------------
(* What the documentation says and the code does not do.                   *)

Quiet == ~ freed /\ \A p \in Callers : pc[p] = "idle"

\* "If currently enabled this will reset all current hardware intercepts": after a reset
\* they are there again.
ResetRestores == Quiet /\ asked = "reset" => contexts # {}

-----------------------------------------------------------------------------
(* Liveness.  Threads run, but a receiver may keep a dispatch for ever.    *)

ReaderGoesOn(t) ==
  Start(t) \/ ReadBegin(t) \/ Poll(t) \/ Read(t) \/ Check(t) \/ Leave(t)

Fairness ==
  /\ \A t \in Threads : WF_vars(ReaderGoesOn(t))
  /\ \A e \in Enablers : WF_vars(thread_enable(e))
  /\ WF_vars(ResetOff) /\ WF_vars(ResetOn) /\ WF_vars(DeinitFree) /\ WF_vars(clear_grabbers(App))

FairSpec == Spec /\ Fairness

\* Enabling, disabling and deinitialization come to an end, whatever the receivers do.
CallersEnd ==
  /\ \A e \in Enablers : pc[e] = "start" ~> pc[e] = "idle" \/ freed
  /\ pc[App] = "clear" ~> freed
=============================================================================
