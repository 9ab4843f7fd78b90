# Libmacro: specifications and proofs

Libmacro is a C library of macros and hotkeys. An application registers macros;
signals (keys, cursor movements, pauses) that are intercepted from the hardware or
sent by a macro are dispatched to receivers, a receiver may be a trigger, and a
trigger starts a macro, whose threads send signals in turn. Almost nothing in the
library is locked, so what it promises rests on the order of single reads and
writes. Below that are containers which every part relies on, and which fail half-way
when memory runs out. That is what these modules are about.

Paths below are relative to the repository (`src/macro/macro.c`); `PROJECT.json`
writes them as `src/src/macro/macro.c`. The repository also holds an older copy of the
library in `macro/` and `extras/`, which `CMakeLists.txt` and `lib.pro` do not build;
the modules follow the sources that are built. They describe the release build
(`MCR_DEBUG` undefined), where `dassert`, `dmsg`, `dexit`, `ddo` and `onErr` do nothing.

## 1. Inventory

| Component | State | Operations | Interacts through |
|---|---|---|---|
| **Macro** (`src/macro/macro.c`) | interruptor, queued, thread_count, sticky, thread_max, signal set, condition variable | receive (trigger), send, interrupt, edit the signal set, copy, set_all, deinit; the threads `thread_macro` and `thread_wait_reset` | shared fields, `critical_section` of the context, broadcasts |
| **Intercept, Linux** (`src/intercept/intercept.c`, `linux/p_intercept.c`, `linux/p_grabber.c`) | grab paths, grab contexts, file descriptors, blockable; the events of a batch | set_enabled, reset, set/add/remove grabs, deinitialize; the threads `thread_enable` and `intercept_start` | a mutex, descriptors, memory that one thread frees and another reads, the devices |
| **Intercept, Windows** (`src/intercept/windows/`) | hooks of a grabber and the thread that has one | enable, disable, deinitialize; the threads `thread_receive_hooking` and `thread_disable` | a mutex with a time-out, hooks called by the system |
| **Signals and dispatch** (`src/signal/signal.c`, `dispatcher.c`, `generic_dispatcher.c`, dispatcher of `src/standard/key.c`) | arrays of receivers by key, by signal and for all; which dispatchers are enabled; internal_modifiers | send, dispatch, add, remove, clear, enable | callbacks that may change the arrays |
| **Staged triggers** (`src/standard/staged.c`, `stage.c`, `src/macro/trigger.c`) | stages and their activated flags | receive, deactivate, clear, copy | a callback into the application or a macro |
| **Modifiers, standard signals** (`src/standard/`) | names and keys of modifiers, names of keys and echoes, cursor position | send, set, map, rename, trim | the devices, maps and string indices |
| **Linux devices, library context** (`src/standard/linux/`, `src/libmacro.c`) | uinput and event descriptors, enabled, the count of contexts | enable, set resolution, allocate, deallocate | a mutex, the working directory |
| **Containers** (`src/util/array.c`, `map.c`, `mcrstring.c`, `string_set.c`, `string_index.c`) | cells and how many are used | insert, remove, move, fill, resize, map, unmap, remap | each is built from the one before |
| **Registry, instances** (`src/util/registry.c`, `interface.c`, `instance.c`) | interfaces by id and by name; data of instances | register, rename, init, copy, deinit | functions that interfaces provide |
| **Extras** (`src/extras/`) | C++ macros and their receivers, encrypted strings, characters | enable, interrupt, edit, copy; set text, key, vector; set, remove, trim characters, type a text | the C interface, OpenSSL |

What is hard, and what correct means:

* **Macro**: thread_count, queued and interruptor are plain fields which all threads
  read and write. An edit of the signal set disables the macro and waits until
  thread_count is zero; a thread that has been created but has not counted itself is
  invisible to it. The wait can lose its wake-up and can time out.
  Correct means: the signal set is not changed while a worker reads it; the count is the
  number of registered workers; an interrupt cancels one pass; waits end.
* **Intercept, Linux**: reading threads own contexts that other threads close, delist or free;
  descriptors are closed under a reader and reused by the operating system. Correct means:
  one thread per context, nothing freed is listed, no device left open, only events of a
  reader's own device are dispatched, enabling and deinitialization end. A grabbed device
  reaches nobody else, so every event must become a signal once and, unless blocked, be
  written to a device.
* **Intercept, Windows**: enabling starts a thread that hooks, disabling a thread that
  unhooks, and both overlap with those of other calls. Correct means: no hook is installed that
  the grabber does not know, and threads of grabbers that stay disabled end.
* **Dispatch**: a receiver may add or remove receivers while an array is walked; one send can
  be two passes; modifiers are changed by several threads. Correct means: everybody whom
  a signal is for is called, nobody else, a block is heeded, modifiers change once.
* **Staged**: the walk changes the flags that it reads, and may call itself. Correct
  means: it acts as if all stages were compared with the state before the signal, and stages
  are activated in order.
* **Containers**: sorted data searched by bisection, cells that were never written, steps that
  allocate and fail in the middle. Correct means: they hold what their caller put there.
* **Names, keys of modifiers, registry**: two structures that must agree and are changed one after
  the other.
* **Devices, contexts**: many system calls, each may fail, under one lock and one working directory.
* **Extras**: objects whose addresses the dispatchers keep move, are copied and die.

The hazards of each, line by line, are in `PROJECT.json`.

## 2. Modules

| Module | Models | Composed of |
|---|---|---|
| `Macro` | all operations and threads of a macro | |
| `SetAccess` | abstract: a signal set that readers share and a writer changes alone | |
| `MacroProperties` | properties, inductive invariant, fairness, refinement | `Macro`, `SetAccess` |
| `MacroProofs` | theorems | `MacroProperties` |
| `Intercept`, `InterceptProperties` | enabling, disabling and reading threads, and what is claimed of them | |
| `StageMatching` | abstract: the effect of a signal on a staged trigger, in one step | |
| `Staged`, `StagedProperties` | the walk of `mcr_Staged_receive`, nested calls, the owner | `StageMatching` |
| `Dispatch`, `DispatchProperties` | `mcr_send`, `mcr_dispatch`, the receivers and the modifiers | |
| `Events` | the batches of a reading thread: signals, blocking, writing | |
| `Reception` | the ways of a signal: events, dispatchers, trigger | `Events`, `Dispatch`, `Staged` |
| `Arrays`, `ArrayCalls` | the functions of `array.c` as operators, and a caller | |
| `Strings` | `mcrstring.c` on one string and a caller | `ArrayCalls` (whose array it is) |
| `Maps` | `map.c` and a caller | `Arrays` |
| `StringSets` | `string_set.c` and a caller | `Arrays` |
| `Names` | `string_index.c` with the names of keys and echoes | |
| `KeyModifiers` | the keys of modifiers in `key.c` | |
| `Registry` | `registry.c` | |
| `Instances` | `interface.c`, `instance.c` | |
| `Wrappers` | C++ macros of `model.cpp` and what interrupts them | |
| `SafeStrings` | encrypted strings of `safe_string.cpp` | |
| `Typing` | the characters of `extras.cpp` and the texts typed with them | |
| `Library` | parts that run in their caller's thread, mostly alone | the eleven above |
| `Devices` | `p_device.c`, from several threads | |
| `Lifecycle` | contexts from `libmacro.c` down to the devices they share | `Devices` |
| `Grabbers` | grabbers of Windows | |
| `Platform` | what the library builds on | `Lifecycle`, `Grabbers` |
| `InterceptProofs` | theorems | `InterceptProperties` |
| `PlatformProofs` | theorems | `Platform` |
| `ReceptionProofs` | theorems | `Reception` |
| `FoldProofs` | lemmas about folds of the community modules, for any operator that is folded | |
| `ArraysProofs` | lemmas: what each function of `Arrays` makes of the elements | `Arrays`; `FoldProofs` for its folds |
| `TableProofs` | lemmas for the theorems of `Library` | `KeyModifiers`, `Registry`, `Instances`, `Names`, `Wrappers`, `Typing`, `SafeStrings`, `StringSets`, `Maps`; `ArraysProofs` for the arrays of the last two |
| `LibraryProofs` | theorems, and the lemmas about `ArrayCalls` and `Strings` | `Library`, `TableProofs`, `ArraysProofs` |
| `MCMacro`, `MCIntercept`, `MCReception`, `MCLibrary`, `MCPlatform` | instances for TLC | the above |

Definitions headed "Fault:" in a module are the bodies that an error in that code would
have; no specification uses them. They serve to test that each property can fail.

`Reception`, `Library` and `Platform` put parts next to each other that share no state:
a variable chooses the part of a behaviour, and the others keep still. So one run checks several
parts without multiplying their states.

### Macro

Each read or write of a shared field that another thread can come between is one step.
`wpc[w]` is the position of a worker in `thread_macro`: `start` (the first test of
the interruptor), `count` (`++thread_count`), `recheck` (the immediate disable check),
`capture` (`sigArr`, `end`), `canPause`, `pausing`, `loop` (condition of the `while`),
`take` and `decrement` (`queued && --queued == 0`), `overdraw`, `signal` (condition of the
`for`), `acquire`, `critical`, `cancel` (the critical section), `send`, `leave`
(`--thread_count`), `clamp` (`nonneg` and broadcast). With `Racy`, `++` and `--` of
thread_count are a load and a store. `cpc[p]` is the position of a client or of a reset
thread, `size` and `left` are what a worker has captured of the signal set.

The operations of the owner follow one scheme (disable, wait, change, enable again if it
was enabled); `op` says which one it is. `indirect` and `copy` nest a second such call,
`inner` is its memory of the old state. The model has **one owner**: the fields have no
protection against two editors and the interface does not offer any. Other clients trigger,
interrupt and send at any time.

History variables, on which no step depends: `lost` collects the incidents after
which the disable protocol promises nothing: `timeout` (a wait has timed out and declared
all threads gone), `override` (someone has overwritten the `MCR_DISABLE` of an operation in
progress), `count` (an update of thread_count was lost). `unreset` says that nobody was made to lift the last
`MCR_INTERRUPT_ALL`, `stale` are the threads that hold pointers into a replaced set, `credit` counts interrupts not yet used up, `owed`
accepted triggers not yet sent.

### Intercept

A section under the mutex is one step, what is read outside is a step of its own. The
heap is a set of addresses (`memory`), and freed memory reads as any value. The operating system
gives the lowest free descriptor and refuses a second exclusive use of a
device. `Faults` says which system calls can fail. `broken` records `freed` (a free-all of
contexts whose threads run), `stale` (grab paths used after they were changed) and `early`
(deinitialization while an enabling thread runs); the library cannot prevent the
last one, since enabling threads are detached. The grab paths are distinct.

### Events

What `Intercept` calls `Dispatch`, the body of `read_grabber_loop` between two reads. `pending`
has, for every kind of signal and axis, the event that was collected and not yet dispatched; an event
that would overwrite one is preceded by a dispatch, and what is left is dispatched after the
batch. `writegen` and `writeabs` are the fields of the code: a blocked signal keeps the batch
from the generic device until the next batch, while for the absolute device the last position
decides, also for later batches. A device emits the events of a batch it has bits for
(`GenericEvents`, `AbsoluteEvents`). `sent` and `emitted` remember what became of the batch.

### Staged

A call is at the last stage, walks to the first, or waits for the function of the trigger,
from which signals can be sent to the same trigger, or its stages reset or replaced.
`chain[1]` and `chain[2]` count the longest run of stages, from the first or the second on,
that signals have matched in order. A stage matches with the default functions
(`mcr_Stage_equals`, `mcr_Stage_resembles`): nothing in the library installs another. A copied
array starts with no stage activated.

### Dispatch

An array is `Cells` of memory of which `used` count, so that a walk past the end meets what
was left there. A receiver may add or remove receivers (itself too) from within; the owner may
do so while no thread dispatches, because the arrays have no lock. `th[t]` is the send or dispatch in
progress: `plan` are the arrays that are still to be walked, `pass` tells the first
pass of `mcr_send` from the second, in `mcr_dispatch`. A change of internal_modifiers is
one load and one store. Both dispatchers are enabled at first and can be disabled at any time.

### Containers

The functions of `array.c` are operators on a record of cells and of how many are used; each
gives the array it leaves behind and whether it failed. A cell that nobody wrote holds `Garbage`. The
allocator grants at most `Limit` cells, so every call can be refused, at the boundary where the
code doubles or grows. `ArrayCalls`, `Strings`, `Maps` and `StringSets` are callers, with a
history variable (`content`, `text`, `mapping`, `strings`) of what the caller expects. Calls
which the code mishandles are made only when a constant says so: `Misfills`,
`Mistreats`, `RemapsGrow`, `Mishandled`. All are off in `MCLibrary`, and section 3 says what happens
when they are on.

### Names, KeyModifiers, Registry, Instances

Each operation is the sequence of changes that the code makes to two structures, and an allocation may
end it after any of them (`unsure`, `torn`, `halfNamed` are what a failure left different). The caller gives one name to one code at a time, and one key to
one modifier, for the code does not withdraw old associations. `MovesInPlace` lifts that for a key or a
modifier that is moved to itself. In `Instances` the functions of an
interface may fail and `misused` records those called on data that is not theirs, was not made or was freed.
`LoadNames` fills the names of a new context from the tables of `p_standard.c`: keys from the last
one down with their further names at the end, echoes upwards with theirs at once. The tables are any
that give each code a name of its own or none (checked by reading: no Linux table repeats a name, and
its last key has one), and the load may fail after any step, which leaves what was named before.

### Wrappers

Triggers live in vectors, at places in blocks of memory; the dispatchers have pairs of a receiver and what
it starts. `reshaped` records that triggers were replaced while they were registered, after
which their addresses dangle, and `drifted` the macros that were not enabled, disabled and edited in the
order that keeps their receivers right (by `setEnabled` alone, and edited while disabled).
`KeyActivators` go to a dispatcher that accepts a receiver several times.

### SafeStrings

A text is a phrase, and what is stored of it is the phrase with the key, the vector and
the tag it was encrypted with; anything else reads as `Garbled`. `upset` records that a call threw half-way.

### Typing

A character is the sequence of strokes that types it, and `StringKey` sends them one by one in the thread of a
macro, from memory that the owner may replace between two of them. `torn` marks a typist whose
character was changed under it, which reads on in anything; `meant` is what was asked for each character, and
`stuck` the keys that such a typist, or one whose send failed, left down. The keys of the platform are
the first calls of `setCharacterKey`. Delays have no length.

### Devices and Lifecycle

A call of a thread is the sequence of steps that it has left, each a system call that may
fail and end it. `Lifecycle` adds the counted initialization of the platform around it, with the
failures between. `Shared` lets two threads change one device at once, which the code
does not survive (below). `broken` and `astray` record that an initialization failed, and
that the way back to the working directory failed.

### Grabbers

A thread knows the hook it has installed; `id` is the thread whose hook the grabber knows.
`installed` are the hooks Windows calls, `stuck` those it refused to remove. A
thread that is `Impatient` may go on without the mutex after its five seconds; `late` records
that. A receiver calls the library from within a hook.

## 3. Runs

Each configuration is small enough for minutes and large enough for the case it is about.

| Run | Instance | Shows |
|---|---|---|
| `MCMacroSafety` | 2 workers, a resetter, the owner and another client, 3 calls, split counting | `TypeOK`, `NoStaleSend`, and that the protocol implements `SetAccess` |
| `MCMacroOwner` | 2 workers, all six kinds of owner operations, failing insertions, interrupts, 4 calls | the inductive invariant `IInv`, with one cancelled pass per interrupt in it |
| `MCMacroLive` | 2 workers, sticky or not, 3 calls, with fairness | edits return, `MCR_INTERRUPT_ALL` ends unless the thread that lifts it could not be made, threads of a disabled macro drain |
| `MCMacroTrigger` | violation | a trigger that is accepted is not always sent |
| `MCInterceptSafety` | 2 enabling and 2 reading threads, 2 addresses, 2 descriptors, opens that fail, 3 calls | one thread per context, nothing listed is freed and nothing open forgotten, no foreign events |
| `MCInterceptLive` | 1 enabling thread; open, read and grab fail, paths change, deinitialization, with fairness | nothing is grabbed twice, disabling is complete, calls end and leave no reader |
| `MCInterceptReset` | violation | a reset can leave everything disabled |
| `MCReception` | all arrays of up to 4 of 5 kinds of stages, 5 kinds of signals, 4 calls nested up to 2 deep; or 2 threads, 2 receivers, 2 keys, a modifier signal, 3 sends or changes; or 2 batches of up to 3 of 8 kinds of events | triggers implement `StageMatching` and complete in order; who is called, blocking, and that modifiers change once; events become signals once and reach a device unless blocked |
| `MCStagedFirst` | violation | the first stage need not match |
| `MCLibrary` | arrays of up to 5 cells of 3 elements, maps of 3 keys, sets of up to 5 strings; 3 names for 2 codes; 3 keys and modifiers; 2 interfaces with 3 names; 2 instances of 3 objects; 2 C++ macros with up to 2 triggers; encrypted strings with 2 keys and vectors; 2 typists, 2 characters, 3 texts or edits | containers hold what was put there, names and codes agree, data has one owner, enabled macros are dispatched, characters are typed as they were asked for and no key stays down |
| `MCStringSetAdd` | violation, with `Mishandled = {"add"}` | a text added to a set of strings is lost |
| `MCPlatform` | 2 contexts and 2 threads over the devices; or a client, receivers, 2 hooking threads and a disabling one, with fairness | enabled devices can be written, are there while a context is, no descriptor is forgotten while closing works, the lock protects; hooks are known and their threads end |

Why the bounds are enough. In `Macro` the races are between two workers, or a worker and
one who waits; a third worker adds no new pair. Three calls are a trigger, an
edit and an interrupt; four let an operation follow a failed one. `QueueWidth` 4 (or 5) replaces
2^32 so that wrapping happens, `MaxPause` 1 lets a pause run out. In `Intercept` two
enabling threads meet every overlap of a clearing with a grabbing one, two descriptors
suffice for one to be closed and reused, and `MaxTries` 1 or 2 (50 in the code) lets a
wait succeed and fail. In `Staged` four stages are the least with two
consecutive inner ones. In `Dispatch` four `Cells` hold two receivers twice each; two
receivers suffice for one to be moved over the other during a walk. In `Events` three events
let two of a kind be collected with a third of another between or after them, and two batches show what is carried
over. Containers start at 2 cells (8 in the code): 5 pass the first
doubling and are refused the second; a map of 3 pairs passes the first and has a pair on either side
of another. Two codes with three names allow every exchange. Two typists share the shift key, and three calls are two texts and
a change, or two changes and a text. In `Grabbers` two hooking threads
are the least of which one can hook over the other; the theorems cover more.
Symmetry is used over workers, threads, addresses, paths, C++ macros and blocks of memory, which no
property names; never in a run with a liveness property. `Budget` bounds the calls where they are counted;
when everything has come to rest a step `Done` stutters, so that a deadlock is an error.

Fairness. Threads that run are scheduled (weak fairness of each thread's steps), a wait ends
at the latest by its time-out (`cnd_timedwait`), and a call that has begun goes on. No call
has to begin, no particular branch has to be taken, and a receiver (`Dispatch` in
`Intercept`) need not return: there is no fairness on it, and `CallersEnd` holds all the same
because clearing is bounded. Threads that wait for the mutex of a grabber get it some time
(strong fairness): it is held for a few system calls, never while waiting.

### Where the code differs from its documentation

* `MCMacroTrigger`: `mcrPt->queued && --mcrPt->queued == 0` (`macro.c:473`) breaks out
  before sending when the last trigger is taken. One trigger of a macro that is not
  sticky sends nothing; `mcr/macro/macro.h:20` says that the signals are sent.
* `MCInterceptReset`: `mcr_intercept_reset` starts two detached threads, one that disables
  and one that enables, in no order (`intercept.c:42`); `mcr/intercept/intercept.h:38` says that it
  will reset all intercepts.
* `MCStagedFirst`: both branches at `staged.c:157-166` activate the first stage;
  `mcr/standard/staged.h:32` says a trigger is triggered after activating all stages.
* `MCStringSetAdd`: `mcr_StringSet_add` sets the string at the position behind the last
  (`string_set.c:261`), and `mcr_StringSet_set` (200) makes one string too few: the text is written
  behind the set. `mcr_intercept_add_grab` loses paths in this way.

The models show more behaviour of this kind, and reading the code for them showed some that is
outside them. No document rules it out plainly, or it takes an assumption the interface may
intend, so there is no run for it.

Macros:

* `macro.c:473`: two workers can both find `queued` at 1; the second wraps it to the
  largest unsigned value and goes on sending until another worker resets it.
* `macro.c:394`: clients that read the same thread_count all start a thread; the
  check the comment at 377 announces in the thread function does not exist, so more than
  thread_max threads can run.
* `macro.c:427`: the loop leaves `pauseIter` at its largest value when the pause has run out,
  so the macro is not continued; the thread goes on and the macro stays paused.
* `macro.c:83`: when the thread that lifts `MCR_INTERRUPT_ALL` cannot be created, the interruptor stays at it, and
  a second request for it does nothing (172): the macro is interrupted until another interruptor is set, although
  `mcr/macro/macro.h:46` says that `MCR_CONTINUE` is set. `InterruptAllEnds` is claimed unless that happened (`unreset`).
* `macro.c:471`: the last thread of a sticky macro does not test the interruptor in the loop
  condition, so a disabled or interrupted sticky macro spins without sending, and every edit
  waits for its time-out. `DisableDrains` is therefore claimed of macros that are not sticky.
* `macro.c:559`: after a time-out the count is set to zero while threads still run; the next
  edit does not wait for them. The safety properties hold until then (`lost = {}`).
* `macro.c:530`: the two seconds of the wait are passed as they are to `cnd_timedwait`, which on Linux takes
  an absolute time: they are two seconds into 1970, so a wait that begins has timed out already. In the model a
  wait may end at any time, which covers both; `OwnerReturns` does not depend on it.
* On Windows (`cppthread.cpp`) the time is a duration, but `mtx_destroy` locks the mutex before it destroys it (258):
  `clear_threads` destroys a mutex that it still holds when the last thread left before its wait, and stops
  there. The wait itself returns without the mutex, so a second round adopts one that is not held. The
  model has the functions of Linux.

Interception on Linux:

* `p_intercept.c:274`, `680`: with two enabling threads at once the same device is grabbed
  twice, and the free-all can free contexts that the other thread has just added;
  `NoDoubleGrab` is checked, and proved, for one at a time.
* `p_intercept.c:210`: disabling is skipped if the devices are not open yet, although an
  enabling thread is about to open them: the last call does not decide.
* `p_intercept.c:268`: a change of the grab paths while an enabling thread waits makes it read
  strings that have been moved or freed.
* `p_intercept.c:593`: what one receiver blocks keeps every event of the batch from the generic
  device, a press that was not blocked too. `UnblockedPasses` is claimed of batches without
  a blocked signal.
* `p_intercept.c:421`: a blocked position is written if a later one in the batch is not blocked; a
  blocked BTN_LEFT reaches the absolute device after a position that was not blocked, and one
  that is not blocked is emitted by both devices. `BlockedStays` says what remains.
* `p_intercept.c:333`, `347`: any other axis gives the position behind the arrays of three (undefined, not
  modelled). A key of code 0 is never dispatched.

Interception on Windows:

* A disable that follows an enable is ignored until the hook is installed. The hooking thread
  of an earlier call can remove the hook of a later one; a second disabling thread undoes a
  later enable.
* `p_intercept.c:294` frees the grabbers after half a second, while a hooking thread may wait
  five; the comment at 293 says that it blocks.

Signals, triggers:

* `signal.c:64` and `75`: `is_dispatch` (`mcr/signal/signal.h:48`: "False to not dispatch")
  decides only whether a signal is dispatched a second time. The second pass toggles back
  a modifier that the first has toggled, and can block when modifiers have already changed.
* `key.c:392`: one of two concurrent changes of internal_modifiers can be lost;
  `AppliedOnce` speaks of signals nobody else interfered with.
* `generic_dispatcher.c:91`: a second function for the same receiver is dropped silently,
  because receivers are compared by address.
* `mcr_Dispatcher_register` in place of an enabled dispatcher leaves `isignal->dispatcher` on the old one.

Containers and names:

* Filling elements before the last one writes over those behind (`array.c:389`, with `Misfills`), and
  `mcr_StringSet_insert` relies on it. Filling with no element right behind the last one copies what it was given through a
  null pointer (`array.c:386-393`; in the model the array is `Wild` then, with `Misfills`). Inserting into a string without an end leaves no room
  for one, and copying ends the text at the length copied instead of behind it (`Mistreats`).
* `mcr_Map_remap` holds a pointer into an array that mapping may reallocate (`map.c:269`, with `RemapsGrow`).
* `mcr_Map_minused` (`map.c:120`) adds pairs without sorting them, although `mcr/util/map.h:40` says that all functions
  that add elements sort. `mcr_Map_remap` compares addresses of keys, so moving a pair to an equal key at another address
  removes it (`map.c:265`, `282`). Neither is modelled.
* `mcr_reg_name` tests only whether there are names at all (`registry.c:98`): for an id behind the last name, which an
  interface registered without one can have, it reads through a null pointer, and `mcr/util/registry.h:99` promises null.
  `IdsAndNamesAgree` is claimed of the ids that can be asked (`CanBeNamed`).
* `mcr_reg_rename` keeps the old name, as setting the name of an interface to NULL does nothing (`registry.c:181`);
  `mcr/util/registry.h:144` says that its mapping is removed. In the model it goes on leading to the interface.
* Moving a key or an echo to a lower one while nothing has a name (`mcr_Key_rekey`, `mcr_HidEcho_reecho`) gives the lower one the
  name of any, and then takes the name of a code behind the set, which `MCR_ARR_ELEMENT` does not check. `Reecho` leaves it out.
* `mcr_StringIndex_sort` sorts the names and leaves the indices; nothing calls it.
* A key moved to the modifier it has, or a modifier to its key, loses one direction (`MovesInPlace`).
* The keys of modifiers are loaded for the first context only (`p_standard.c:170`); a second one has none.
  `mcr_signal_load_contract` maps every additional name to `MCR_MOD_ANY`, and never the second names.
* Commas are missing at `p_standard.c:351` and `389`, so later keys have the names of their neighbours.
* `mcr_Instance_compare` compares the instances instead of their data.
* When the echoes of a key are set again, `mcr_keyToEcho` keeps the old ones.

Devices and contexts:

* A failed initialization of the platform leaves its count at one (`p_standard.c:172`), so the next
  context takes the devices for initialized (`broken`). `mcr_allocate` leaks the context when contracts fail
  to load (`libmacro.c:41`).
* `MCR_DEV_SEND` gives the positive `ENXIO` for a closed device (`p_device.h:128`), which callers take
  for success, and `mcr_cursor` moves.
* `device_open_event_wd` leaves `mcr_err` set when a file does not fit, and then skips the way back
  to the working directory (`astray`).
* When the event file of a device cannot be closed, closing its uinput file is not tried (`p_device.c:151`), and `mcr_Device_deinit`
  resets both all the same (132): the uinput file stays open and nobody knows it. `NothingForgotten` excepts that (`clung`
  holds the descriptors that could not be closed).
* A device is closed before the lock is taken (`p_device.c:151`): with `Shared`, two threads close one descriptor.

Extras:

* A C++ macro that is copy-constructed, or made from a C macro, has no context, and
  enabling it with activators and triggers dereferences that (`MayAdd`).
* Two triggers without an interface are two receivers that call the macro twice per key.
  Enabling it anew after an interruptor registers key receivers twice. `setInterruptor(MCR_DISABLE)`
  makes `copy` skip the removal. `setTriggers` while enabled moves the memory
  of receivers (`reshaped`). `MacrosInterrupted` keeps pointers to macros that were destroyed.
* A failure after `Libmacro` has registered itself leaves it in `_registry` (`extras.cpp:233`).
* When a send fails, `StringKey::send` throws with keys down (`string_key.cpp:57`), and the shift key is down for everybody;
  a character that the owner changes is read on in memory that may be gone (53).
* In a second context no modifier has a key, so characters with shift type without it. The table of Linux
  types `+` for `=` and `_` for `~`, because both are in ranges with shift and have the plain key (`p_extras.cpp`).
* `setCharacter` with a vector takes the address of its first element, of an empty one too.
* `Alarm::compare` gives 0 for a later alarm (`alarm.h:205`).
* `SafeString` promises "Current text will be preserved", and does not when a call throws
  half-way (`upset`). The check of the plain buffer forgets the byte that ends the text; 1.5 times the
  length is too short for a text of one character and for padding; the length returned by `text(char *)`
  is that of the last block; a provider of keys that was replaced stays registered.

## 4. Proofs

All theorems are checked by TLAPS; TLC evaluates the assumptions in the runs.

**Macro.** `MacroProofs` holds for every number of workers, resetters
and clients, every `Budget`, `QueueWidth`, `MaxPause` and `ThreadLimit`, and for counting in
one step or two. They rest on `MacroAssumption` alone: the workers are finitely many
and none is called `NoOne`, clients are neither workers nor resetters, and the numbers are
natural ones.

* `TypeCorrect`: `Spec => []TypeOK`.
* `Invariant`: `Spec => []IInv`.
* `CountIsAccurate`, `NothingStaleIsSent`, `InterruptCancelsOnce`: consequences.
* `ImplementsSetAccess`: `Spec => Access!Spec`, the refinement.

The argument. The owner writes `MCR_DISABLE` and then waits for thread_count to be zero. That nobody
uses the set then (`Exclusion`) needs that the count is right (`CountAccurate`), and
that a worker that counts itself later turns back at the recheck, that is, that
the macro is still disabled (`DisableHolds`). Neither survives an incident, so all are
stated for `lost = {}`. `FailedTimedOut` says that an operation fails only after an incident, so
that the deinitialization that goes on regardless is covered. `NoBlip` says that the correction of a
negative count in `mcr_Macro_receive`, which would destroy `CountAccurate`, does not
happen. `SetCurrent` carries the result to the time after the edit: no worker keeps old pointers.
For interrupts, `MutualExclusion` (who holds `critical_section`) and `CreditLeft` (an interrupt
that is set has not been used up) give `OneCancel`. Each step of a worker keeps all others where they are
(`WorkerFrame`), each step of a client keeps all workers but at most a new one
(`WaiterFrame`, `ReceiveFrame`), which reduces the proof to one position at a time.

**Intercept.** `InterceptProofs` holds for every number of enabling and reading threads, devices, contexts and
descriptors, whatever system calls fail and whatever the application calls, from `InterceptAssumption` and
`OutsideAssumption` (free memory and closed files are no values of the others).

* `InterceptInvariant`: `Spec => []InterceptInv`; `InterceptTypes`: `Spec => []TypeOK`.
* `EachHasItsContext`: `Spec => []OneThreadEach`; `ListedIsOwned`: `Spec => []OwnsContexts`.
* `OwnEventsDispatched`: `Spec => []DispatchesOwn`; `DeinitializedAlone`: `Spec => []NobodyLeft`.
* `GrabbedOnce`: `Spec /\ []OneAtATime => []NoDoubleGrab`, where `OneAtATime` says that no two threads of
  `thread_enable` run at once; without it the property fails (section 3). `DisablesAll`: `Spec => DisableComplete`.

The argument. `OwnsContexts` needs that all that is allocated is listed (`Listed`), for a reading thread that
opens its device must be in the list. That holds even after a free-all; what relates threads to
contexts holds until then (`Apart`). For `DispatchesOwn` it takes two steps: the open descriptor in a context is
open for its device and in no other context (`OwnFiles`), so that a descriptor that is closed and
opened again is in the new context only; and a reader polls the descriptor of its context unless that was closed, after
which it is never opened again (`OwnEvents`). The check after the read then tells the two apart. `NobodyLeft`
needs that no enabling thread moves once deinitialization has begun (`Ending`), that grabbing
is done under the mutex (`Locked`), and `Apart`, by which an empty list means that no reader runs. `NoDoubleGrab` and `DisableComplete` are about the course of
an enabling thread (`Course`): it comes to the mutex with an empty list, takes each path off its own list when it
grabs it, and every step but `Grab` only closes and frees (`Shrinks`), so that the paths of contexts
stay apart from each other and from those still to be grabbed (`GrabbedApart`).

**Grabbers of Windows.** `PlatformProofs` holds for every number of clients, hooking and
disabling threads, impatient or not, from `NoOneAssumption` (no thread is called `NoOne`).

* `HooksAreKnown`: `Spec => []HooksKnown`.
* `OneInside`: at most one thread is inside the mutex, until one has given up waiting for it.

The argument. `HooksKnown` is not inductive: whether a thread may install a hook depends on what it
tested before, and the hook of a thread that ends is removed by nobody else. The inductive `GrabberInv` adds that the
thread inside is the one that holds the mutex (`HoldsMutex`), that what it tested under the mutex is
still so when it acts (`StepsAgree`), and that the thread whose hook the grabber knows is in its message
loop, or in a call from there to which it returns (`OwnerLoops`), so it does not end with its hook in place. All this is claimed until a
thread goes on without the mutex (`late`).

**Devices and contexts.** The rest of `PlatformProofs` holds for every number of threads, contexts and devices, and whichever
system calls fail, from `DevicesAssumption` (the application is a thread, `NoThread` is none, the two devices differ) and
`ContextsAssumption` (finitely many contexts, `NoContext` is none).

* `PlatformTyped`: `Spec => []TypeOK`, for both parts of `Platform`.
* `LockIsHeldWhereNeeded`: `Spec => []LockProtects`; `DevicesAreReady`: `Spec => []ReadyWhileUsed`.
* `EnabledIsWritable`, `ClosedBeforeReset`: `Spec => []EnabledCanWrite` and `Spec => []NothingForgotten` if no two threads
  change one device at once (`~ Shared`); otherwise the code does not keep them (section 3), and TLC shows it.

The argument. What a thread has left to do is a sequence of steps, and the calls make it by joining
those of the calls that they make. `Formed` says what such sequences look like, so that a lemma for each call says
that its own is formed, and one for the steps that what is left after one of them, or after the clean-up of one that failed, is
formed again (`StepForm`). From that follows where the lock can be held (`Guarded`): a lock step is followed by the
steps that need it and then by the unlocking one. `Alone` and `Counted` relate the count to the contexts and the call in
progress, `Ready` and `GivenUp` the devices to what that call has still to do. `Apart`, `Cautious` and `EnabledCanWrite` say for threads with a device
each that a device is disabled before its descriptor is closed. A first-order induction over the numbers
is needed for the least step of a sequence (`LeastNumber`), and is had from the library's theorem that `<` on
the natural numbers is well-founded.

**Dispatch.** `ReceptionProofs` holds, for dispatch, for every number of threads, receivers, keys, signals and cells, whatever is
registered at first and later, and whoever blocks, from `DispatchAssumption` (addresses are numbers, unwritten memory is
none, signals are made of the keys and flags) and `RegistrationAssumption` (an array fits its memory and is sorted at first).

* `DispatchInvariant`: `Spec => []DispatchInv`; `DispatchTyped`: `Spec => []DispatchTypeOK`.
* `NobodyElseIsCalled`: `Spec => []CalledWasRegistered`; `NobodyIsLeftOut`: `Spec => []AllCalled`.
* `BlocksAreHeeded`: `Spec => []BlockersHeeded`; `ModifiersChangeOnce`: `Spec => []AppliedOnce`.

The argument. First the arrays: bisection finds the border of the elements below a receiver (`Found`), so adding and
removing keep an array sorted (`WithGood`, `WithoutGood`), and what is in its memory afterwards was in
it before, was listed before, or is listed now (`Kept`). Therefore all that a walk still has before it was
registered since its pass began (`Safe`), though the walk ends behind the array when a receiver removes some.
That nobody is left out needs that the plan of a pass reaches every array somebody can wait in
(`PlansReachAll`), and that who is listed and not yet called is still before the walk (`Thorough`), until somebody
registers. `Heeds` says that nobody who was called has blocked; with `Thorough` that is a block heeded
up to the call of the interface. For the modifiers, `Changes` says at each point of a thread what they are as long as nobody else
has stored any: the second pass changes what the first has changed, which is the same unless it toggles
(`ChangedTwice`). A step of one thread leaves to the others what they see (`Aside`, `Frame`).

**Staged triggers and events.** It holds for every stage array, signal and depth of calls, and for batches
of every length and number, from `StagedAssumption` (stages are stages) and `EventsAssumption` (an
event has a kind and an axis).

* `WalkIsMatching`: `Spec => MatchingSpec`, the refinement. `StagesInOrder`: `Spec => CompletesInOrder`.
* `EventsReach`: `Spec => []EventsArrive`. `ReceptionTyped`: `Spec => []TypeOK`, with `DispatchTyped`.

The argument. The walk changes the flags that it reads, but from the end: so a call knows that the stages it has passed are
as one comparison with the flags before the signal would leave them, and that the others are untouched (`StagesPassed`), and
at the first stage that is all of the abstract step. For it the last stage must never be left activated, whatever the
function of the trigger did. Nested calls are on top of a call that no longer reads any flag. `Chained` bounds the activated
stages, and those that are about to be, by the run of matched stages. For events, `Placed` says of each that was read that it
either waits or is in one signal, after those of its axis; as its place is its own (`InPlace`), a signal takes what waits for its kind
and no more. `Writable` says what the two fields are in terms of all the signals so far, which `WriteBatch` turns into
what is emitted; that the fields are set anew before the next batch is in `Phases`.

**Library.** `LibraryProofs` states the theorems of `Library`; a behaviour of it is one of each part (`EachPart`), and what
a part does by itself is shown before, mostly in `TableProofs`, by lemmas that know nothing of the other parts.

* `LibraryTyped`: `Spec => []TypeOK`, from the assumptions of all parts and with the calls left out that the containers mishandle
  (below). For most parts the types are part of the invariant that the next theorems need; those of the registry
  and of the modifiers take a small induction of their own (`RegistryTyped`, `KeysTyped`).

**Folds.** A fold of the community modules is a `CHOOSE` of a function that recurses over sets of numbers. `FoldProofs`
shows that such a function exists and is the only one (`FoldExists`, `FoldUnique`, by counting up with the well-foundedness of `<`),
so that a fold over a sequence takes its elements one after the other (`FoldInTurn`). `FoldSteps` says it for an operator that is a
constant of the module, which an instance gives for each operator that the code's model folds: if that leads from a set
into it, the fold is the last of the elements of the set that it visits.

**Names of codes.** For every number of codes and names, every table that a context is loaded with, and allocations that
fail anywhere, from `LabelsAssumption` and `CodesAssumption` (codes are the numbers below how many there are):

* `CodesAreFound`: `Spec => []FoundByName`.

The argument. `GoodTable` says of one table, up to the codes whose naming is in doubt, what `FoundByName` says of the state, so
that a lemma for each function of `string_index.c` says that it leads from a good table to a good one. The doubt
does the work: forgetting the names of a code puts it in doubt until its own name is taken away as well (`UnmapIs`); moving
a name puts the old code in doubt while the name leads to the new one (`RekeyIs`); a call that failed between its two changes
leaves its code in doubt (`NameMapped`). While a context is loaded, every name leads to the code that the tables give it
(`Loaded`), which keeps a later code from taking it; that the further names of keys, added at the end, lead into the
table needs that the last code is named first (`KeysFold`).

**Keys of modifiers.** For every number of keys and modifiers, and calls that move nothing to itself (`~ MovesInPlace`):

* `KeysAlwaysAgree`: `Spec => []KeysAgree`.

The argument. `KeysAgree` is inductive as it stands, one lemma per call. A call changes the entries of one
modifier and of keys that are its own or nobody's (`OtherKeys`), so it leaves what other modifiers have; for the
modifier itself either both maps were changed, or the failure put it in `torn`.

**Registry.** For every number of interfaces and names, and allocations that fail anywhere:

* `RegistryAgrees`: `Spec => []IdsAndNamesAgree`.

The argument. `RegistryInv` adds that no more names were set than there are interfaces: ids
grow by one and outlive `mcr_reg_clear`, so an interface could otherwise be born with the name of an earlier one.
Names are set by id and mapped by text; a call changes the name of one id (`NamingOne`), and maps only
names that no other interface has (`SetNamesKeeps`); one that fails may leave a place for the name, which names nobody
(`PlacesOnly`). Names lead to registered interfaces (`LeadToRegistered`), for nothing but `mcr_reg_clear` takes any of these out.
A name is asked for only where `mcr_reg_name` can answer (`CanBeNamed`).

**Instances.** For every number of instances, objects and interfaces, and functions of interfaces that fail in any
call, from `InstancesAssumption`:

* `DataIsOwned`: `Spec => []OwnsData`.

The argument. Calls of the code call each other, so each is an operator from a world (instances and objects) to a world, and
a lemma says that it leads from a good world to a good one. `Good` adds to `OwnsData`
that an object was made by the interface of the instance that has it, and completely unless its init failed
(`Ready`); without that the deinit of a later call would be one of a foreign interface. The lemmas of
freeing and clearing need it of the other instances only, for the one that is cleared may be half made.

**Macros of C++.** For every number of macros, receivers and blocks of memory, from
`WrapAssumption` (`Nowhere` is no block, the bounds are natural numbers):

* `WrapsAreHeard`: `Spec => []HeardWhileEnabled`.

The argument. Dispatchers keep addresses, so the inductive `WrapInv` is about memory first: a block is of one macro
at a time and its triggers start that macro (`OwnBlocks`), so that a receiver is of one macro (`OneOwner`) and what is
removed for one macro is nothing of another. Then, as long as no triggers were replaced under the dispatchers, signals go to
macros that live (`Started`), and to the triggers of a macro without drift as often as enabling it would
have them go (`Exact`). What a signal is dispatched to is a matter of its own pair only (`Anew`), which is the same for a macro that
is enabled anew and for the copy that moved into other memory.

**Typing.** For every number of typists and characters, and every text, from `TypingAssumption` (an application gives
signals that release again what they press; the platform gives keys to characters that there are):

* `TextsAreTyped`: `Spec => []TypesCleanly`.

The argument. `TypesCleanly` says that what is down at the end of a character is nothing; `OnTheWay` says what is down
on the way: what the signals sent so far leave down (`LeftDown`), and those are the first of the signals that were asked for,
unless the character was changed. `LeftDown` of a sequence that releases what it presses is empty at its
end, and for the sequences that `setCharacterKey` computes from indices, that is shown by cases
(`KeysAsMeant`). `Pressed` adds that each key that is down is some typist's. Removing characters
trims the vector to the last that has signals, the greatest of the numbers below its length that do, for
which well-foundedness is needed (`GreatestNumber`).

**Arrays.** `ArraysProofs` says of each function of `array.c` what it makes of the elements of an array, for elements of any set,
any limit of the allocator and any first size, and whichever allocation is refused. `IsArray` is what the code relies on (the cells used are
within the memory, the memory within the limit), `Holds` that the array has the elements of a given sequence. Each function has
a lemma of one form: from an array that holds `s` it leads to one that holds what the function is for, such as
`Over(s, pos, src)` or `Without(s, pos, n)`, or it fails and the array still holds `s` (the cells behind may have moved).
The lemmas about order ask that `<` is one on the elements (`Ordering`), which whole numbers and pairs with such
keys satisfy: bisection meets an element if there is an equal one (`FindFinds`), sorting gives an ordered
arrangement of the same elements (`ArrangedIs`), and removing an element removes each that is equal to it (`RemoveAllLeaves`).

* `ArraysHold`: `Spec => []HoldsContent`, from `ArrayAssumption` (elements are integers, 0 is one, the sizes are natural
  numbers), when no call fills elements before the last one, or none behind it (`~ Misfills`, section 3).

The argument. The inductive `CallsInv` is the types, `IsArray` and `Holds` of the elements that the caller expects. What a call does to them is
written in `ArrayCalls` with other words (first, after, sorted, counted) than the operators of
`Arrays`, and the lemmas show that both are the same sequence; for removal the elements below
and equal to one are counted, which are those before it and at it in an ordered sequence.

**Strings.** For every number of characters and cells, and allocations that fail anywhere:

* `StringsHold`: `Spec => []HoldsStrings`, from `TextAssumption` (the first allocation has room for a character and the end),
  `StringSetAssumption`, `SafeAssumption` (the empty text is a text), and without the calls that the code mishandles (`Mishandled = {}`, `~ Mistreats`).

The argument has three parts. A string (`TextInv`) has its text and the end behind it, so a function is followed through the moment in
which there is no end, or two: what is inserted behind the end, or moved over it, is put right by a later
step of the same call (`Ended`). A set of strings (`SetInv`) is an array of texts some of which are unknown for a while: cells are first made, with what the
memory had, then initialized, then set; at the end of a call none that is used is unknown. For encrypted strings
`HoldsSafe` is inductive with the types: whatever a call comes to, the text is read with the key, the vector and the tag that it was
encrypted with, before one of them changes.

**Maps.** For every number of keys and values, and allocations that fail anywhere, from `MapAssumption` (keys are integers, 0 is a key and a value),
when no pair is moved to a key that needs memory (`~ RemapsGrow`):

* `MapsHold`: `Spec => []HoldsMapping`, for the calls that are modelled (section 5).

The argument. `PairLists` says that a sequence of pairs is strictly ordered by key and lists the graph of the function that the caller built
(`IsMap` that the array holds such a sequence). A pair is found where it is by its key, whatever
its value is; so adding one keeps the others, replacing a value keeps the order, and removing one leaves the function without its key.
Values are removed from the last pair to the first, and `UnmappedTo` says that the pairs before the walk are as they were.

**Folds over arrays.** Bisection, sorted insertion and the removal of all that is equal are loops whose
number of turns the code does not fix. They are modelled by folds over as many turns as there can be, which change nothing
once the loop has ended, and so they come under `FoldProofs` without an induction over data.

Only model-checked: the liveness properties (`OwnerReturns`, `InterruptAllEnds`, `DisableDrains`, `CallersEnd`, `GrabThreadsEnd`), for
reasoning with fairness takes ENABLED, which is beyond the prover, and what the violation runs show. Every invariant and action property
of the passing runs is stated by a theorem. What the theorems leave out is what their hypotheses name: the calls that the code
mishandles, and the cases of section 3 in which it does not keep the property.

## 5. Not modelled

Windows signals and the empty platforms (tables of names, calls of the system, functions that do
nothing), privileges (system calls without state), the older copies. In `Events`: the bits and modifiers read
from a device, values and times of events. In `Dispatch`: arrays that grow during a
walk (the walk would go on in freed memory), registration and trimming, a second thread that
registers during a dispatch, `mcr_send(NULL)`. In `Staged`: several threads in one
trigger, and copies of a trigger that is partly activated. In `Macro`: a second editing thread. In `Maps`: `mcr_Map_minused`, and moving a pair to an equal
key at another address. In `Lifecycle`: what
the parts other than the platform register in a new context, which no later step disturbs. In
`Grabbers`: what a thread does with a grabber freed under it. In `Typing`: delays, and keys that a receiver blocks. Of the extras: references to C
structures with typed getters and setters, serializers of Qt, signals that run a program; and sizes of buffers and
the cryptography of encrypted strings.

Most of the lines of the repository are those: the older copies are a third of it; typed wrappers of one
field each, tables of names, tests and the documentation in headers are most of the rest.

## 6. Plan

Done: Macro, Intercept, Dispatch, Events and Staged with proofs, containers, names, keys of modifiers, instances and
registry with proofs, wrappers and typing with proofs, encrypted strings, devices, contexts and grabbers of Windows with proofs.

What could follow: staged triggers called by several reading threads, and dispatch of arrays that grow; a
second editor of a macro.
