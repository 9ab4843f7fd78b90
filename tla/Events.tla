------------------------------- MODULE Events -------------------------------
(***************************************************************************)
(* How a reading thread makes signals of events: read_grabber_loop of      *)
(* src/intercept/linux/p_intercept.c between two reads. The events of a    *)
(* batch are collected into signals, which receivers may block; then the   *)
(* batch is written to the devices of src/standard/linux/p_device.c, for a *)
(* grabbed device reaches nobody else. A batch goes to a device whole or   *)
(* not at all, and each device emits the events that it has bits for.      *)
(***************************************************************************)
EXTENDS Naturals, Sequences

CONSTANTS
  HardEvents,  \* of [kind : Kinds, axis : Axes, code : Codes]: keys have no axis, others no code
  BatchLength, \* bound on the events of a batch
  Batches,     \* bound on how many are read
  Echoing,     \* codes of keys that have an echo
  Click        \* BTN_LEFT, the key that the absolute device has

Axes == 0..2
Kinds == {"key", "abs", "rel", "wheel", "other"}

ASSUME EventsAssumption ==
  /\ \A e \in HardEvents : e.kind \in Kinds /\ e.axis \in Axes
  /\ BatchLength \in Nat /\ Batches \in Nat

VARIABLES
  blocking,  \* read from the grabber once
  reading,   \* what the thread does: "poll", "read", "collect", "rest", "write", "ended"
  batch,     \* the events that were read last
  next,      \* the event it is at
  pending,   \* for every kind and axis, the event not yet dispatched, 0 if none
  writegen, writeabs,
  sent,      \* history: the signals made of the batch, in order, and whether they were blocked
  emitted,   \* history: the events of the batch that each device emitted
  batches    \* how many were read

eventVars == << blocking, reading, batch, next, pending, writegen, writeabs, sent, emitted, batches >>

Nothing == [a \in Axes |-> 0]
NothingPending == [k \in {"key", "abs", "rel", "wheel"} |-> Nothing]
NothingEmitted == [gen |-> {}, abs |-> {}]

\* The signals that can wait at the end of a batch are dispatched in this order.
Order == << "key", "abs", "rel", "wheel" >>

EventsInit ==
  /\ blocking \in BOOLEAN
  /\ reading = "poll" /\ batch = << >> /\ next = 1 /\ pending = NothingPending
  /\ writegen = TRUE /\ writeabs = FALSE
  /\ sent = << >> /\ emitted = NothingEmitted /\ batches = 0

\* No events are read.
NoEvents ==
  /\ blocking = FALSE
  /\ reading = "ended" /\ batch = << >> /\ next = 1 /\ pending = NothingPending
  /\ writegen = TRUE /\ writeabs = FALSE
  /\ sent = << >> /\ emitted = NothingEmitted /\ batches = 0

\* It waits for events, or finds the grabber closed.
Poll ==
  /\ reading = "poll" /\ batches < Batches
  /\ reading' \in {"read", "ended"}
  /\ batch' = << >> /\ next' = 1 /\ sent' = << >> /\ emitted' = NothingEmitted
  /\ UNCHANGED << blocking, pending, writegen, writeabs, batches >>

\* The grabber may be closed here too, or the read fail.
ReadBatch ==
  /\ reading = "read"
  /\ \/ /\ \E n \in 1..BatchLength : batch' \in [1..n -> HardEvents]
        /\ reading' = "collect" /\ batches' = batches + 1
     \/ reading' = "ended" /\ UNCHANGED << batch, batches >>
  /\ UNCHANGED << blocking, next, pending, writegen, writeabs, sent, emitted >>

-----------------------------------------------------------------------------
(* Signals *)

Waiting(kind) == {pending[kind][a] : a \in Axes} \ {0}
SignalOf(type, kind, blocked) == [kind |-> type, of |-> Waiting(kind), blocked |-> blocked]

\* An echo is dispatched before its key, and each of them may be blocked.
SignalsFor(kind) ==
  IF kind = "key" /\ \E i \in Waiting(kind) : batch[i].code \in Echoing
  THEN {<< SignalOf("echo", kind, e), SignalOf(kind, kind, b) >> : e, b \in BOOLEAN}
  ELSE {<< SignalOf(kind, kind, b) >> : b \in BOOLEAN}

\* Fault: what was not blocked is written, whatever was before it.
LastGeneric(blocked) == ~ blocking \/ ~ blocked

\* DISP_WRITEMEM: one that is blocked keeps back the batch.
Generic(blocked) == writegen /\ ~ (blocking /\ blocked)

\* DISP_WRITEMEM_ABS: the last one decides, for later batches too.
Absolute(blocked) == blocking /\ ~ blocked

Dispatch(kind) ==
  \E signals \in SignalsFor(kind) :
    LET blocked == \E i \in DOMAIN signals : signals[i].blocked
    IN /\ sent' = sent \o signals
       /\ IF kind = "abs"
          THEN writeabs' = Absolute(blocked) /\ UNCHANGED writegen
          ELSE writegen' = Generic(blocked) /\ UNCHANGED writeabs

-----------------------------------------------------------------------------
(* One event after the other *)

\* The axis is the place of a key in its array of one.
Axis(e) == IF e.kind = "key" THEN 0 ELSE e.axis

\* A signal is dispatched when an event would overwrite one of its events.
Collect ==
  /\ reading = "collect" /\ next <= Len(batch)
  /\ LET e == batch[next]
     IN IF e.kind = "other" THEN UNCHANGED << pending, sent, writegen, writeabs >>
        ELSE IF pending[e.kind][Axis(e)] # 0
        THEN /\ Dispatch(e.kind)
             /\ pending' = [pending EXCEPT ![e.kind] = [Nothing EXCEPT ![Axis(e)] = next]]
        ELSE /\ pending' = [pending EXCEPT ![e.kind][Axis(e)] = next]
             /\ UNCHANGED << sent, writegen, writeabs >>
  /\ next' = next + 1
  /\ UNCHANGED << blocking, reading, batch, emitted, batches >>

Collected ==
  /\ reading = "collect" /\ next > Len(batch)
  /\ reading' = "rest"
  /\ UNCHANGED << blocking, batch, next, pending, writegen, writeabs, sent, emitted, batches >>

\* What is left is dispatched.
Rest ==
  /\ reading = "rest"
  /\ \E k \in DOMAIN Order :
       /\ Waiting(Order[k]) # {}
       /\ \A j \in 1..k-1 : Waiting(Order[j]) = {}
       /\ Dispatch(Order[k])
       /\ pending' = [pending EXCEPT ![Order[k]] = Nothing]
  /\ UNCHANGED << blocking, reading, batch, next, emitted, batches >>

Rested ==
  /\ reading = "rest" /\ \A k \in DOMAIN pending : Waiting(k) = {}
  /\ reading' = "write"
  /\ UNCHANGED << blocking, batch, next, pending, writegen, writeabs, sent, emitted, batches >>

-----------------------------------------------------------------------------
(* The devices *)

\* genDevice_init and absDevice_init
GenericEvents == {i \in DOMAIN batch : batch[i].kind \in {"key", "rel", "wheel"}}
AbsoluteEvents == {i \in DOMAIN batch : batch[i].kind = "abs" \/ (batch[i].kind = "key" /\ batch[i].code = Click)}

\* Both writes may fail, and end the thread.
WriteBatch ==
  /\ reading = "write"
  /\ \/ /\ emitted' = [gen |-> IF blocking /\ writegen THEN GenericEvents ELSE {},
                       abs |-> IF blocking /\ writeabs THEN AbsoluteEvents ELSE {}]
        /\ writegen' = TRUE /\ reading' = "poll"
     \/ /\ blocking /\ (writegen \/ writeabs)
        /\ emitted' \in {NothingEmitted} \union (IF writegen /\ writeabs THEN {[gen |-> GenericEvents, abs |-> {}]} ELSE {})
        /\ reading' = "ended" /\ UNCHANGED writegen
  /\ UNCHANGED << blocking, batch, next, pending, writeabs, sent, batches >>

EventsDone == (reading = "ended" \/ (reading = "poll" /\ batches = Batches)) /\ UNCHANGED eventVars

EventsNext == Poll \/ ReadBatch \/ Collect \/ Collected \/ Rest \/ Rested \/ WriteBatch \/ EventsDone

EventsSpec == EventsInit /\ [][EventsNext]_eventVars

-----------------------------------------------------------------------------
EventsTypeOK ==
  /\ blocking \in BOOLEAN /\ reading \in {"poll", "read", "collect", "rest", "write", "ended"}
  /\ batch \in Seq(HardEvents) /\ next \in 1..Len(batch) + 1 /\ batches \in 0..Batches
  /\ \A k \in DOMAIN pending : Waiting(k) \subseteq DOMAIN batch
  /\ writegen \in BOOLEAN /\ writeabs \in BOOLEAN
  /\ emitted.gen \union emitted.abs \subseteq DOMAIN batch

\* The signals an event is in, without echoes.
SignalsWith(i) == {n \in DOMAIN sent : sent[n].kind # "echo" /\ i \in sent[n].of}
BlockedSignals == {n \in DOMAIN sent : sent[n].blocked}

SameAxis(i, j) == batch[i].kind = batch[j].kind /\ Axis(batch[i]) = Axis(batch[j])

\* Every event is in one signal, of its kind, with no other of its axis, and an event is
\* not dispatched before an earlier one of its kind and axis.
DispatchedOnce ==
  reading \in {"write", "poll"} =>
    \A i \in DOMAIN batch : batch[i].kind # "other" =>
      \E n \in DOMAIN sent :
        /\ SignalsWith(i) = {n} /\ sent[n].kind = batch[i].kind
        /\ \A j \in 1..i-1 : SameAxis(i, j) => \E m \in 1..n-1 : m \in SignalsWith(j)

\* What a receiver blocks reaches no device, but for absolute positions that a later one
\* follows unblocked, and the click that the absolute device emits too.
BlockedStays ==
  \A n \in BlockedSignals :
    /\ sent[n].kind # "abs" => emitted.gen = {}
    /\ sent[n].kind = "abs" /\ (\A m \in DOMAIN sent : m > n => sent[m].kind # "abs")
         => \A i \in emitted.abs : batch[i].kind # "abs"
    /\ sent[n].kind \in {"key", "echo"} => \A i \in sent[n].of \intersect emitted.abs : batch[i].code = Click

\* A batch of which nothing was blocked is passed on whole, by one device or the other.
UnblockedPasses ==
  reading = "poll" /\ blocking /\ BlockedSignals = {} =>
    \A i \in DOMAIN batch : batch[i].kind # "other" => i \in emitted.gen \union emitted.abs

\* Grabbed events take both ways to the end, to the receivers and, unless these block, to
\* the rest of the system.
EventsArrive == DispatchedOnce /\ BlockedStays /\ UnblockedPasses
=============================================================================
