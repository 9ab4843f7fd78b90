----------------------------- MODULE Lifecycle -----------------------------
(***************************************************************************)
(* Contexts of the library, from src/libmacro.c down to the platform       *)
(* (src/standard/standard.c, src/standard/linux/p_standard.c), whose       *)
(* devices all contexts share. One thread makes and removes contexts; it   *)
(* and others change devices while there are some. Everything that         *)
(* allocates or calls the system may fail.                                 *)
(***************************************************************************)
EXTENDS Devices, FiniteSets

CONSTANTS
  Contexts,
  NoContext

ASSUME ContextsAssumption == IsFiniteSet(Contexts) /\ NoContext \notin Contexts

VARIABLES
  contexts,          \* what became of every context
  initialize_count,  \* _initialize_count
  call,              \* what App does, and to which context
  broken             \* initializing the platform has failed

lifeVars == << contexts, initialize_count, call, broken >>
linuxVars == << deviceVars, lifeVars >>

NoCall == [do |-> "none", ctx |-> NoContext]
Live == {c \in Contexts : contexts[c] = "live"}
Ends(c, state) == contexts' = [contexts EXCEPT ![c] = state] /\ call' = NoCall

LifecycleInit ==
  /\ DeviceInit
  /\ contexts = [c \in Contexts |-> "none"] /\ initialize_count = 0
  /\ call = NoCall /\ broken = FALSE

\* Nobody uses the library while a context is made or removed.
Quiet == call = NoCall /\ \A t \in Threads : Idle(t)

-----------------------------------------------------------------------------
(* mcr_allocate *)

\* mcr_Device_initialize: devices are enabled only if uinput may be accessed.
InitializingDevices ==
  {<< >>, mcr_Device_enable_all(TRUE)}

\* A failure before the platform is initialized is taken back and leaves nothing here.

\* mcr_standard_platform_initialize for another context.
AllocateNext(c) ==
  /\ Quiet /\ contexts[c] = "none" /\ initialize_count > 0
  /\ initialize_count' = initialize_count + 1
  /\ call' = [do |-> "load", ctx |-> c]
  /\ UNCHANGED << deviceVars, contexts, broken >>

\* mcr_standard_platform_initialize for the first one.
AllocateFirst(c) ==
  /\ Quiet /\ contexts[c] = "none" /\ initialize_count = 0
  /\ initialize_count' = 1
  /\ call' = [do |-> "initialize", ctx |-> c]
  /\ \E steps \in InitializingDevices :
       todo' = [todo EXCEPT ![App] = StepsOf(<< "set_bits" >>, Gen) \o StepsOf(<< "set_bits" >>, Abs) \o steps]
  /\ failed' = FALSE
  /\ UNCHANGED << devices, lock, cwd, wd, astray, clung, contexts, broken >>

\* The context gets the keys of modifiers. If that fails, or the devices did, the
\* count and the devices stay as they are.
PlatformInitialized ==
  /\ call.do = "initialize" /\ Idle(App)
  /\ \/ ~ failed /\ call' = [call EXCEPT !.do = "load"] /\ UNCHANGED << contexts, broken >>
     \/ Ends(call.ctx, "none") /\ broken' = TRUE
  /\ UNCHANGED << deviceVars, initialize_count >>

\* Intercepting is initialized, contracts are loaded, and memory is trimmed.
Loaded ==
  /\ call.do = "load"
  /\ Ends(call.ctx, "live")
  /\ UNCHANGED << deviceVars, initialize_count, broken >>

\* Fault: the first context that goes takes the devices along.
FirstOne(count) == TRUE

\* mcr_standard_platform_deinitialize goes on for the last context only.
IsLast(count) == count = 1

DeinitializePlatform(c) ==
  /\ initialize_count' = initialize_count - 1
  /\ IF IsLast(initialize_count)
     THEN /\ todo' = [todo EXCEPT ![App] = mcr_Device_deinit(Gen) \o mcr_Device_deinit(Abs)]
          /\ call' = [do |-> "deinitialize", ctx |-> c]
          /\ contexts' = contexts
     ELSE Ends(c, "none") /\ todo' = todo
  /\ UNCHANGED << devices, lock, cwd, wd, astray, clung, failed, broken >>

\* mcr_intercept_initialize or mcr_load_contracts fails. (The memory of a context
\* whose contracts were not loaded is not freed.)
LoadFails == call.do = "load" /\ DeinitializePlatform(call.ctx)

Deallocate(c) == Quiet /\ contexts[c] = "live" /\ DeinitializePlatform(c)

PlatformDeinitialized ==
  /\ call.do = "deinitialize" /\ Idle(App)
  /\ Ends(call.ctx, "none")
  /\ UNCHANGED << deviceVars, initialize_count, broken >>

-----------------------------------------------------------------------------
ChangeDevices(t) ==
  /\ call = NoCall /\ Live # {}
  /\ EnableDevice(t) \/ EnableAll(t) \/ SetResolution(t)
  /\ UNCHANGED lifeVars

Goes(t) == DeviceStep(t) /\ UNCHANGED lifeVars

Allocate(c) == AllocateNext(c) \/ AllocateFirst(c)

LifecycleNext ==
  \/ \E c \in Contexts : Allocate(c) \/ Deallocate(c)
  \/ PlatformInitialized \/ Loaded \/ LoadFails \/ PlatformDeinitialized
  \/ \E t \in Threads : ChangeDevices(t) \/ Goes(t)

-----------------------------------------------------------------------------
(* Properties *)

LifecycleTypeOK ==
  /\ devices \in [Devs -> [fd : {"none", "open", "created"}, event : {"none", "open"},
                           enabled : BOOLEAN, has_evbit : BOOLEAN]]
  /\ todo \in [Threads -> Seq(Step)]
  /\ lock \in Threads \union {NoThread}
  /\ cwd \in {"home", "events"} /\ wd \in [Threads -> {"home", "events"}]
  /\ astray \in BOOLEAN /\ broken \in BOOLEAN
  /\ clung \subseteq Devs \X {"fd", "event"} /\ failed \in BOOLEAN
  /\ contexts \in [Contexts -> {"none", "live"}]
  /\ initialize_count \in 0..Cardinality(Contexts) + 1
  /\ call \in [do : {"none", "initialize", "load", "deinitialize"}, ctx : Contexts \union {NoContext}]

\* "false disabled, otherwise can write events to fd": whatever fails, and wherever
\* a call stands, an enabled device was created and is open.
EnabledCanWrite == \A d \in Devs : devices[d].enabled => devices[d].fd = "created"

\* The devices are there as long as a context is, however contexts come and go:
\* every context is counted, and the devices are given up when the last one goes.
ReadyWhileUsed ==
  call = NoCall =>
    /\ initialize_count = Cardinality(Live) + (IF broken THEN 1 ELSE 0)
    /\ Live # {} /\ ~ broken => devices[Gen].has_evbit
    /\ Live = {} /\ ~ broken => \A d \in Devs : devices[d] = Fresh

\* When a device is reset, its event file is forgotten open only if this call could not
\* close it, and its uinput file only if this call could not close one of the two:
\* device_close is not tried after a failed device_close_event, and what it would
\* have closed is forgotten with the rest.
NothingForgotten ==
  \A t \in Threads : At(t, "reset") =>
    LET d == Dev(t)
    IN  /\ devices[d].event # "none" => << d, "event" >> \in clung
        /\ devices[d].fd # "none" => << d, "fd" >> \in clung \/ << d, "event" >> \in clung

\* A thread holds the lock of the devices exactly where it opens, creates or looks for
\* one: never two threads at once, and no call returns with it, whatever failed. So
\* threads that look for event files do not lose the working directory of the
\* process: it is left when nobody holds the lock, unless a way back failed.
LockProtects ==
  /\ \A t \in Threads :
       lock = t <=> todo[t] # << >> /\ Head(todo[t]).do \in {"open", "create", "enter", "search"}
  /\ lock = NoThread /\ ~ astray => cwd = "home"
=============================================================================
