------------------------------ MODULE Devices ------------------------------
(***************************************************************************)
(* src/standard/linux/p_device.c: the devices that send input. Enabling    *)
(* one opens uinput, describes the device, creates it, and looks for its   *)
(* event file in a directory that the process enters for that. Every       *)
(* system call may fail. The calls of a thread are kept as the steps that  *)
(* they have left; a step that fails ends the call.                        *)
(***************************************************************************)
EXTENDS Integers, Sequences, SequencesExt

CONSTANTS
  Threads,
  App,       \* the thread that makes and removes contexts
  NoThread,
  Gen, Abs,  \* mcr_genDev, mcr_absDev
  Shared     \* two threads may change one device at once

ASSUME DevicesAssumption == App \in Threads /\ NoThread \notin Threads /\ Gen # Abs /\ Shared \in BOOLEAN

Devs == {Gen, Abs}
Descriptors(d) == {<< d, "fd" >>, << d, "event" >>}

VARIABLES
  devices,   \* the fields of both devices
  todo,      \* the steps that every thread has left
  lock,      \* who holds _deviceLock
  cwd,       \* the working directory of the process
  wd,        \* the directory that a thread returns to
  astray,    \* a thread left the event directory the wrong way, or not at all
  clung,     \* descriptors of devices that could not be closed when it was last tried
  failed     \* the last call of App failed

deviceVars == << devices, todo, lock, cwd, wd, astray, clung, failed >>

\* Fault: the descriptors are zero.
Zeroed == [fd |-> "stdin", event |-> "stdin", enabled |-> FALSE, has_evbit |-> FALSE]

\* mcr_Device_init: what was open is forgotten.
Fresh == [fd |-> "none", event |-> "none", enabled |-> FALSE, has_evbit |-> FALSE]

-----------------------------------------------------------------------------
(* The steps of calls *)

StepNames == {"disable", "close_event", "close", "lock", "open", "create", "enter", "search",
              "reset", "set_bits"}
Step == [do : StepNames, dev : Devs]

StepsOf(names, d) == [i \in DOMAIN names |-> [do |-> names[i], dev |-> d]]
Disabling(d) == StepsOf(<< "disable", "close_event", "close" >>, d)
Enabling(d) == Disabling(d) \o StepsOf(<< "lock", "open", "create", "enter", "search" >>, d)

\* Fault: a device is reset without being closed.
ResetsOnly(d) == StepsOf(<< "reset" >>, d)
mcr_Device_deinit(d) == Disabling(d) \o StepsOf(<< "reset" >>, d)
mcr_Device_enable(d, on) == IF on THEN Enabling(d) ELSE Disabling(d)

\* A failed mcr_Device_enable is ignored by mcr_Device_deinit, and ends any other caller.
AfterFailure(steps) ==
  IF \E i \in DOMAIN steps : steps[i].do = "reset"
  THEN SubSeq(steps, SelectInSeq(steps, LAMBDA s : s.do = "reset"), Len(steps)) ELSE << >>

At(t, step) == todo[t] # << >> /\ Head(todo[t]).do = step
Dev(t) == Head(todo[t]).dev
Unlocked(t) == IF lock = t THEN NoThread ELSE lock

GoesOn(t) == todo' = [todo EXCEPT ![t] = Tail(@)] /\ UNCHANGED failed

\* Fault: a step that fails keeps the lock.
FailsLocked(t) ==
  /\ todo' = [todo EXCEPT ![t] = AfterFailure(Tail(@))]
  /\ failed' = IF t = App /\ todo'[t] = << >> THEN TRUE ELSE failed
  /\ UNCHANGED lock

Fails(t) ==
  /\ todo' = [todo EXCEPT ![t] = AfterFailure(Tail(@))]
  /\ failed' = IF t = App /\ todo'[t] = << >> THEN TRUE ELSE failed
  /\ lock' = Unlocked(t)

-----------------------------------------------------------------------------
(* mcr_Device_enable *)

\* Fault: the device counts as enabled until it is enabled again.
StaysEnabled(t) == At(t, "disable") /\ clung' = clung \ Descriptors(Dev(t)) /\ GoesOn(t) /\ UNCHANGED << devices, lock, cwd, wd, astray >>

Disable(t) ==
  /\ At(t, "disable")
  /\ devices' = [devices EXCEPT ![Dev(t)].enabled = FALSE]
  /\ clung' = clung \ Descriptors(Dev(t))
  /\ GoesOn(t)
  /\ UNCHANGED << lock, cwd, wd, astray >>

\* A descriptor that is not open is not closed.
CloseField(t, field, none) ==
  \/ /\ devices' = [devices EXCEPT ![Dev(t)][field] = none]
     /\ GoesOn(t)
     /\ UNCHANGED << lock, clung >>
  \/ /\ devices[Dev(t)][field] # none
     /\ clung' = clung \union {<< Dev(t), field >>}
     /\ Fails(t)
     /\ UNCHANGED devices

\* device_close_event
CloseEvent(t) == At(t, "close_event") /\ CloseField(t, "event", "none") /\ UNCHANGED << cwd, wd, astray >>
\* device_close
Close(t) == At(t, "close") /\ CloseField(t, "fd", "none") /\ UNCHANGED << cwd, wd, astray >>

\* Fault: the lock is not waited for.
Unlocking(t) == TRUE
MayLock(t) == lock = NoThread

\* A device without a bit of events is refused before.
LockDevices(t) ==
  /\ At(t, "lock")
  /\ \/ /\ devices[Dev(t)].has_evbit /\ MayLock(t)
        /\ lock' = t
        /\ GoesOn(t)
     \/ Fails(t)
  /\ UNCHANGED << devices, cwd, wd, astray, clung >>

\* device_open: a device that another thread opened meanwhile is closed, and one
\* that cannot be written to may be left open.
Open(t) ==
  /\ At(t, "open")
  /\ \/ devices' = [devices EXCEPT ![Dev(t)].fd = "open"] /\ GoesOn(t) /\ UNCHANGED << lock, clung >>
     \/ \E fd \in {"none", "open", devices[Dev(t)].fd} :
          /\ devices' = [devices EXCEPT ![Dev(t)].fd = fd]
          /\ clung' = IF fd # "none" THEN clung \union {<< Dev(t), "fd" >>} ELSE clung
          /\ Fails(t)
  /\ UNCHANGED << cwd, wd, astray >>

\* device_write_evbit, device_write_non_evbit, device_create: any of their ioctls
\* may fail, and the descriptor stays open then.
Create(t) ==
  /\ At(t, "create")
  /\ \/ /\ devices' = [devices EXCEPT ![Dev(t)].fd = "created", ![Dev(t)].enabled = TRUE]
        /\ GoesOn(t) /\ UNCHANGED lock
     \/ Fails(t) /\ UNCHANGED devices
  /\ UNCHANGED << cwd, wd, astray, clung >>

\* device_open_event: the device stays enabled if this fails.
Enter(t) ==
  /\ At(t, "enter")
  /\ \/ /\ wd' = [wd EXCEPT ![t] = cwd] /\ cwd' = "events"
        /\ GoesOn(t) /\ UNCHANGED lock
     \/ Fails(t) /\ UNCHANGED << wd, cwd >>
  /\ UNCHANGED << devices, astray, clung >>

\* device_open_event_wd, and the way back that a failed search does not take. The
\* event file is the device's own, or none has its name. A file
\* whose name is not told is taken for it if it cannot be closed.
Search(t) ==
  /\ At(t, "search")
  /\ \/ /\ \E event \in {"open", "none"} : devices' = [devices EXCEPT ![Dev(t)].event = event]
        /\ cwd' = wd[t] /\ lock' = Unlocked(t)
        /\ GoesOn(t) /\ UNCHANGED astray
     \/ /\ \E event \in {"open", "none"} : devices' = [devices EXCEPT ![Dev(t)].event = event]
        /\ astray' = TRUE
        /\ Fails(t) /\ UNCHANGED cwd
  /\ wd' = [wd EXCEPT ![t] = "home"]
  /\ UNCHANGED clung

-----------------------------------------------------------------------------
(* mcr_Device_deinit, genDevice_init, absDevice_init *)

Reset(t) ==
  /\ At(t, "reset")
  /\ devices' = [devices EXCEPT ![Dev(t)] = Fresh]
  /\ GoesOn(t)
  /\ UNCHANGED << lock, cwd, wd, astray, clung >>

\* The bits of events are set first.
SetBits(t) ==
  /\ At(t, "set_bits")
  /\ \/ devices' = [devices EXCEPT ![Dev(t)] = [Fresh EXCEPT !.has_evbit = TRUE]] /\ GoesOn(t) /\ UNCHANGED lock
     \/ /\ \E some \in BOOLEAN : devices' = [devices EXCEPT ![Dev(t)] = [Fresh EXCEPT !.has_evbit = some]]
        /\ Fails(t)
  /\ UNCHANGED << cwd, wd, astray, clung >>

DeviceStep(t) ==
  \/ Disable(t) \/ CloseEvent(t) \/ Close(t) \/ LockDevices(t) \/ Open(t) \/ Create(t)
  \/ Enter(t) \/ Search(t) \/ Reset(t) \/ SetBits(t)

-----------------------------------------------------------------------------
(* Calls *)

Idle(t) == todo[t] = << >>
InUse(d) == \E t \in Threads : \E i \in DOMAIN todo[t] : todo[t][i].dev = d

Calls(t, steps) ==
  /\ Idle(t)
  /\ Shared \/ \A i \in DOMAIN steps : ~ InUse(steps[i].dev)
  /\ todo' = [todo EXCEPT ![t] = steps]
  /\ failed' = IF t = App THEN FALSE ELSE failed
  /\ UNCHANGED << devices, lock, cwd, wd, astray, clung >>

EnableDevice(t) == \E d \in Devs, on \in BOOLEAN : Calls(t, mcr_Device_enable(d, on))
mcr_Device_enable_all(on) == mcr_Device_enable(Gen, on) \o mcr_Device_enable(Abs, on)
EnableAll(t) == \E on \in BOOLEAN : Calls(t, mcr_Device_enable_all(on))

\* mcr_Device_set_absolute_resolution: the device is enabled again if it was.
SetResolution(t) ==
  Calls(t, mcr_Device_deinit(Abs) \o StepsOf(<< "set_bits" >>, Abs)
             \o IF devices[Abs].enabled THEN Enabling(Abs) ELSE << >>)

DeviceInit ==
  /\ devices = [d \in Devs |-> Fresh]
  /\ todo = [t \in Threads |-> << >>] /\ failed = FALSE
  /\ lock = NoThread /\ cwd = "home" /\ wd = [t \in Threads |-> "home"] /\ astray = FALSE
  /\ clung = {}
=============================================================================
