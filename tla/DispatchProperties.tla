------------------------- MODULE DispatchProperties -------------------------
(* What is claimed of module Dispatch.                                     *)
EXTENDS Dispatch

Array == [cells : [1 .. Cells -> Receivers \cup {Nobody}], used : 0 .. Cells]

\* The arrays are sorted, in the generic dispatcher without duplicates, hold only
\* receivers, and every walk is inside its array's memory.
DispatchTypeOK ==
  /\ \A p \in Places :
       /\ arrays[p] \in Array
       /\ ToSet(Used(arrays[p])) \subseteq Receivers
       /\ \A i, j \in 1 .. arrays[p].used :
            i < j => IF Unique(p) THEN arrays[p].cells[i] < arrays[p].cells[j]
                     ELSE arrays[p].cells[i] <= arrays[p].cells[j]
  /\ blockers \subseteq Receivers
  /\ key_enabled \in BOOLEAN /\ generic_enabled \in BOOLEAN
  /\ internal_modifiers \subseteq Flags
  /\ \A t \in Threads : th[t] # Idle =>
       /\ th[t].at \in {"walk", "store", "passed", "send", "sent"}
       /\ th[t].s \in Signals /\ th[t].op \in {"send", "dispatch"} /\ th[t].pass \in {1, 2}
       /\ ToSet(th[t].plan) \subseteq Places /\ th[t].place \in Places
       /\ th[t].end \in 0 .. Cells /\ th[t].it \in 1 .. th[t].end + 1
       /\ th[t].mods \subseteq Flags /\ th[t].next \in {"passed", "sent"}
  /\ begun \in 0 .. Budget

\* Although receivers come and go while an array is walked, and what is behind the end
\* keeps old elements, only such receivers are called from it as were registered there
\* since the pass began.
CalledWasRegistered == \A t \in Threads : hist[t].called \subseteq hist[t].was

\* The receivers that a signal is for: those of the enabled dispatchers that were added
\* for its key or any key, pressed or released like the signal, for its address, or for
\* every signal.
For(p, s) ==
  \/ p[1] \in {"set", "unset"} /\ p[2] \in {s.key, AnyKey} /\ s.apply \in {p[1], "both", "toggle"}
  \/ p = <<"signal", s>> \/ p = <<"all">>

Reached(t) ==
  {x[2] : x \in {y \in Listed(arrays) :
                   /\ For(y[1], th[t].s)
                   /\ IF Unique(y[1]) THEN generic_enabled ELSE th[t].keys}}

\* When nobody has blocked a pass, all of them were called, unless receivers were
\* added or removed, or a dispatcher enabled or disabled, meanwhile.
AllCalled ==
  \A t \in Threads :
    At(t, "passed") /\ ~ hist[t].disturbed => Reached(t) \subseteq {x[2] : x \in hist[t].called}

\* "If dispatch blocks, the interface send function will not be called."
BlockersHeeded ==
  \A t \in Threads : At(t, "send") /\ ~ hist[t].disturbed => Reached(t) \cap blockers = {}

Expected(t) ==
  LET s == th[t].s
  IN IF Modifies(t) THEN Changed(hist[t].before, KeyModifier[s.key], s.apply)
     ELSE IF s.type = "modifier" /\ At(t, "sent") THEN Changed(hist[t].before, s.flags, s.apply)
     ELSE hist[t].before

Returning(t) == At(t, "sent") \/ (At(t, "passed") /\ th[t].op = "dispatch")

Undone(t) == th[t].op = "send" /\ th[t].s.is_dispatch /\ th[t].s.type = "key" /\ th[t].s.apply = "toggle"

\* A signal that nobody blocks changes the modifiers once, although mcr_send lets it do so
\* in each of two passes; but one that toggles is undone.
AppliedOnce ==
  \A t \in Threads :
    Returning(t) /\ hist[t].alone /\ ~ Undone(t) => internal_modifiers = Expected(t)
=============================================================================
