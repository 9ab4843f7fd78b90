------------------------------ MODULE Dispatch ------------------------------
(***************************************************************************)
(* Signals on their way to the receivers (src/signal/signal.c,             *)
(* dispatcher.c, generic_dispatcher.c, the dispatcher of src/standard/     *)
(* key.c and the sorted arrays of src/util/array.c).  A signal is          *)
(* dispatched to the receivers that were added for it, which may block it, *)
(* then it changes the modifiers, and mcr_send gives it to its interface.  *)
(* A receiver may add and remove receivers; the arrays have no lock, so    *)
(* that is done while no other thread dispatches.                          *)
(***************************************************************************)
EXTENDS Naturals, Sequences, SequencesExt

CONSTANTS
  Threads,       \* the macros and the intercept threads
  Receivers,     \* their addresses, by which arrays are sorted
  Nobody,        \* memory of an array that was never written
  Cells,         \* how many elements an array has memory for; it is not outgrown
  Keys, AnyKey,  \* MCR_KEY_ANY = 0
  Flags,         \* modifiers
  KeyModifier,   \* map_key_modifier: the flags of some keys
  Signals,       \* what is sent and dispatched
  Registered,    \* receivers added in the beginning: for every place a sequence
  Additions,     \* where they can be added later
  Budget         \* bound on what the threads and the owner begin

Applies == {"set", "unset", "both", "toggle"}

ASSUME DispatchAssumption ==
  /\ Receivers \subseteq Nat /\ Nobody \notin Receivers
  /\ AnyKey \in Keys
  /\ DOMAIN KeyModifier \subseteq Keys /\ \A k \in DOMAIN KeyModifier : KeyModifier[k] \subseteq Flags
  /\ Signals \subseteq [type : {"key", "modifier"}, key : Keys, flags : SUBSET Flags,
                        apply : Applies, is_dispatch : BOOLEAN]
  /\ Cells \in Nat /\ Budget \in Nat

VARIABLES
  arrays,              \* the receivers: cells, of which the first "used" count
  blockers,            \* the receivers that block what they are called with
  key_enabled,         \* isignal->dispatcher of keys is set
  generic_enabled,     \* is_generic_dispatcher
  internal_modifiers,
  th,                  \* what each thread is doing
  begun,               \* how much was begun
  hist                 \* history of the signal that each thread has

shared  == <<arrays, blockers, key_enabled, generic_enabled>>
dispatchVars    == <<shared, internal_modifiers, th, begun, hist>>

-----------------------------------------------------------------------------
(* Where receivers are kept.                                               *)

\* key_dispatcher_maps[0] and [1], the map signal_receivers by the address of a signal,
\* and the array receivers.
Places == ({"set", "unset"} \X Keys) \cup ({"signal"} \X Signals) \cup {<<"all">>}

KeyMaps(apply) == IF apply \in {"set", "unset"} THEN {apply} ELSE {"set", "unset"}

\* Fault: a signal for both goes to one map.
SetOnly(s) == IF s.key = AnyKey THEN <<>> ELSE <<(<<"set", s.key>>)>>
\* The places for the key of a signal, then those for any key.
Specific(s) ==
  IF s.apply \in {"set", "unset"}
  THEN (IF s.key = AnyKey THEN <<>> ELSE <<(<<s.apply, s.key>>)>>) \o <<(<<s.apply, AnyKey>>)>>
  ELSE IF s.key = AnyKey THEN <<>> ELSE <<(<<"set", s.key>>), (<<"unset", s.key>>)>>

\* mcr_Key_Dispatcher_dispatch, gendisp_dispatch
KeyPlaces(s)     == Specific(s) \o <<(<<"set", AnyKey>>), (<<"unset", AnyKey>>)>>
GenericPlaces(s) == <<(<<"signal", s>>), <<"all">> >>

Used(arr) == SubSeq(arr.cells, 1, arr.used)

\* How many elements come before the first that is not smaller than r, or is greater.
Below(arr, r) == Min({n \in 0 .. arr.used : n < arr.used => arr.cells[n + 1] >= r})
UpTo(arr, r)  == Min({n \in 0 .. arr.used : n < arr.used => arr.cells[n + 1] > r})

\* mcr_Array_remove: all that are found are removed one by one. Those after them move
\* down, and the memory behind the end keeps the last one.
Without(arr, r) ==
  LET n == UpTo(arr, r) - Below(arr, r)
  IN [cells |-> [j \in 1 .. Cells |-> IF j <= Below(arr, r) \/ j > arr.used THEN arr.cells[j]
                                      ELSE IF j + n <= arr.used THEN arr.cells[j + n]
                                      ELSE arr.cells[arr.used]],
      used  |-> arr.used - n]

\* Fault: the array is not sorted again.
Appended(arr, r, unique) ==
  [cells |-> [arr.cells EXCEPT ![arr.used + 1] = r], used |-> arr.used + 1]

\* mcr_Array_add: appended and sorted; in the generic dispatcher a receiver is unique.
With(arr, r, unique) ==
  LET i == UpTo(arr, r) + 1
  IN IF unique /\ r \in ToSet(Used(arr)) THEN arr
     ELSE [cells |-> [j \in 1 .. Cells |-> IF j = i THEN r
                                           ELSE IF j \in i + 1 .. arr.used + 1 THEN arr.cells[j - 1]
                                           ELSE arr.cells[j]],
           used  |-> arr.used + 1]

Unique(place) == place[1] \in {"signal", "all"}

\* mcr_Key_Dispatcher_add, gendisp_add
AddTo(arrs, r, places) ==
  [p \in DOMAIN arrs |-> IF p \in places THEN With(arrs[p], r, Unique(p)) ELSE arrs[p]]

\* mcr_Dispatcher_remove_all
RemoveFrom(arrs, r) == [p \in DOMAIN arrs |-> Without(arrs[p], r)]

Empty == [p \in Places |-> [cells |-> [j \in 1 .. Cells |-> Nobody], used |-> 0]]

Listed(arrs) == {x \in Places \X Receivers : x[2] \in ToSet(Used(arrs[x[1]]))}

\* Where mcr_Dispatcher_add and mcr_Dispatcher_add_generic put a receiver: for a key
\* signal, for every key signal, for the address of a signal, for every signal.
Patterns ==
  {KeyMaps(s.apply) \X {s.key} : s \in {x \in Signals : x.type = "key"}}
  \cup {{"set", "unset"} \X {AnyKey}}
  \cup {{<<"signal", s>>} : s \in Signals} \cup {{<<"all">>}}

\* Adding sorts, and twice the same only what need not be unique.
Ascending(s, unique) ==
  \A i, j \in DOMAIN s : i < j => s[i] < s[j] \/ (~ unique /\ s[i] = s[j])

ASSUME RegistrationAssumption ==
  /\ Additions \subseteq Patterns
  /\ Registered \subseteq [Places -> Seq(Receivers)]
  /\ \A reg \in Registered, p \in Places : Len(reg[p]) <= Cells /\ Ascending(reg[p], Unique(p))

-----------------------------------------------------------------------------
(* Modifiers.                                                              *)

\* The switch of mcr_Key_Dispatcher_modifier and of mcr_Modifier_send.
Changed(mods, flags, apply) ==
  IF apply = "set" \/ (apply = "toggle" /\ ~ flags \subseteq mods) THEN mods \cup flags
  ELSE mods \ flags

-----------------------------------------------------------------------------
(* mcr_send and mcr_dispatch.                                              *)

Idle == [at |-> "idle"]

\* Which dispatchers are enabled is read once in a pass.
Pass(s, op, n) ==
  LET keys == key_enabled /\ s.type = "key"
  IN [at |-> "walk", s |-> s, op |-> op, pass |-> n, keys |-> keys,
      plan |-> (IF keys THEN KeyPlaces(s) ELSE <<>>)
               \o (IF generic_enabled THEN GenericPlaces(s) ELSE <<>>),
      place |-> <<"all">>, it |-> 1, end |-> 0, mods |-> {}, next |-> "passed"]

\* Which <<place, receiver>> were called in the pass, and registered since it began;
\* whether these or what is enabled changed; the modifiers when the signal began, and
\* whether nobody else has changed them, or what is enabled, since.
History(mods, alone) ==
  [called |-> {}, was |-> Listed(arrays), disturbed |-> FALSE, before |-> mods, alone |-> alone]
NoHistory == [called |-> {}, was |-> {}, disturbed |-> TRUE, before |-> {}, alone |-> FALSE]

\* The owner has added some receivers and enabled both dispatchers.
Filled(s) == [cells |-> [j \in 1 .. Cells |-> IF j <= Len(s) THEN s[j] ELSE Nobody], used |-> Len(s)]

Prepared(reg, blocking) ==
  /\ arrays = [p \in Places |-> Filled(reg[p])]
  /\ blockers = blocking
  /\ key_enabled = TRUE /\ generic_enabled = TRUE
  /\ internal_modifiers = {}
  /\ th = [t \in Threads |-> Idle] /\ hist = [t \in Threads |-> NoHistory]
  /\ begun = 0

DispatchInit == \E reg \in Registered, blocking \in SUBSET Receivers : Prepared(reg, blocking)

At(t, point) == th[t].at = point

Begin(t) ==
  /\ At(t, "idle") /\ begun < Budget
  /\ begun' = begun + 1
  /\ \E s \in Signals :
       th' = [th EXCEPT ![t] = Pass(s, "send", 1)] \/ th' = [th EXCEPT ![t] = Pass(s, "dispatch", 2)]
  /\ hist' = [hist EXCEPT ![t] = History(internal_modifiers, TRUE)]
  /\ UNCHANGED <<shared, internal_modifiers>>

Returns(t) == th' = [th EXCEPT ![t] = Idle] /\ hist' = [hist EXCEPT ![t] = NoHistory]

-----------------------------------------------------------------------------
(* The arrays are walked.                                                  *)

\* Fault: the element behind the end is visited.
PastEnd(t) == th[t].it <= th[t].end + 1
Inside(t) == th[t].it <= th[t].end

\* The next array that is not empty; nothing fills one on the way to it.
Ahead(t) == SelectInSeq(th[t].plan, LAMBDA p : arrays[p].used > 0)

\* MCR_ARR_FOR_EACH reads where the array ends before it calls anyone.
NextArray(t) ==
  /\ At(t, "walk") /\ ~ Inside(t) /\ Ahead(t) > 0
  /\ LET place == th[t].plan[Ahead(t)]
     IN th' = [th EXCEPT ![t].plan = SubSeq(@, Ahead(t) + 1, Len(@)), ![t].place = place,
                         ![t].it = 1, ![t].end = arrays[place].used]
  /\ UNCHANGED <<shared, internal_modifiers, begun, hist>>

Dispatching == {t \in Threads : At(t, "walk")}

Disturbed(h) == [t \in Threads |-> [h[t] EXCEPT !.disturbed = TRUE]]

\* Receivers are added or removed.
Register ==
  /\ begun < Budget /\ begun' = begun + 1
  /\ \E r \in Receivers :
       \/ arrays' = RemoveFrom(arrays, r)
       \/ \E places \in Additions :
            (\A p \in places : arrays[p].used < Cells) /\ arrays' = AddTo(arrays, r, places)
  /\ UNCHANGED <<blockers, key_enabled, generic_enabled, internal_modifiers>>

Called(t) == arrays[th[t].place].cells[th[t].it]

Noted(t) == [hist[t] EXCEPT !.called = @ \cup {<<th[t].place, Called(t)>>}]

\* Fault: mcr_send does not heed a block of mcr_dispatch.
OnlyFirst(t) == IF th[t].pass = 1 THEN Idle ELSE [th[t] EXCEPT !.at = "send"]
Blocked(t) == Idle

Receive(t) ==
  /\ At(t, "walk") /\ Inside(t) /\ Called(t) \notin blockers
  /\ th' = [th EXCEPT ![t].it = @ + 1]
  /\ \/ UNCHANGED <<shared, internal_modifiers, begun>>
        /\ hist' = [hist EXCEPT ![t] = Noted(t)]
     \/ Dispatching = {t} /\ Register
        /\ hist' = Disturbed([hist EXCEPT ![t] = [Noted(t) EXCEPT !.was = @ \cup Listed(arrays')]])

\* What a receiver that blocks does to the arrays can as well be done by the owner next.
ReceiveBlocks(t) ==
  /\ At(t, "walk") /\ Inside(t) /\ Called(t) \in blockers
  /\ th' = [th EXCEPT ![t] = Blocked(t)]
  /\ hist' = [hist EXCEPT ![t] = IF th'[t] = Idle THEN NoHistory ELSE Noted(t)]
  /\ UNCHANGED <<shared, internal_modifiers, begun>>

-----------------------------------------------------------------------------
(* Nobody has blocked.                                                     *)

\* Fault: mcr_dispatch leaves the modifiers to mcr_send.
FirstPass(t) == th[t].pass = 1 /\ th[t].keys /\ th[t].s.key \in DOMAIN KeyModifier
Modifies(t) == th[t].keys /\ th[t].s.key \in DOMAIN KeyModifier

\* The modifiers are loaded, changed and stored, with no lock.
Load(t, flags, next) ==
  /\ th' = [th EXCEPT ![t].at = "store", ![t].next = next,
                      ![t].mods = Changed(internal_modifiers, flags, th[t].s.apply)]
  /\ UNCHANGED <<shared, internal_modifiers, begun, hist>>

Store(t) ==
  /\ At(t, "store")
  /\ internal_modifiers' = th[t].mods
  /\ th' = [th EXCEPT ![t].at = th[t].next]
  /\ hist' = [u \in Threads |-> IF u = t THEN hist[u] ELSE [hist[u] EXCEPT !.alone = FALSE]]
  /\ UNCHANGED <<shared, begun>>

\* mcr_Key_Dispatcher_modifier; gendisp_modifier does nothing.
PassEnds(t) ==
  /\ At(t, "walk") /\ ~ Inside(t) /\ Ahead(t) = 0
  /\ \/ Modifies(t) /\ Load(t, KeyModifier[th[t].s.key], "passed")
     \/ ~ Modifies(t) /\ th' = [th EXCEPT ![t].at = "passed"]
        /\ UNCHANGED <<shared, internal_modifiers, begun, hist>>

Again(t) == th[t].op = "send" /\ th[t].pass = 1 /\ th[t].s.is_dispatch

\* mcr_dispatch returns; mcr_send dispatches again or calls the interface.
Passed(t) ==
  /\ At(t, "passed")
  /\ \/ th[t].op = "dispatch" /\ Returns(t)
     \/ /\ Again(t)
        /\ th' = [th EXCEPT ![t] = Pass(th[t].s, "send", 2)]
        /\ hist' = [hist EXCEPT ![t] = History(@.before, @.alone)]
     \/ /\ th[t].op = "send" /\ ~ Again(t)
        /\ th' = [th EXCEPT ![t].at = "send"]
        /\ UNCHANGED hist
  /\ UNCHANGED <<shared, internal_modifiers, begun>>

\* The send function of the interface: mcr_Modifier_send changes the modifiers.
Send(t) ==
  /\ At(t, "send")
  /\ \/ th[t].s.type = "modifier" /\ Load(t, th[t].s.flags, "sent")
     \/ th[t].s.type = "key" /\ th' = [th EXCEPT ![t].at = "sent"]
        /\ UNCHANGED <<shared, internal_modifiers, begun, hist>>

Sent(t) == At(t, "sent") /\ Returns(t) /\ UNCHANGED <<shared, internal_modifiers, begun>>

mcr_send(t) ==
  \/ Begin(t) \/ NextArray(t) \/ Receive(t) \/ ReceiveBlocks(t)
  \/ PassEnds(t) \/ Store(t) \/ Passed(t) \/ Send(t) \/ Sent(t)

-----------------------------------------------------------------------------
(* The owner.                                                              *)

OwnerRegisters == Dispatching = {} /\ Register /\ hist' = Disturbed(hist) /\ UNCHANGED th

\* mcr_Dispatcher_clear_all frees the arrays of the maps; "all" keeps its memory.
Clear ==
  /\ begun < Budget /\ begun' = begun + 1
  /\ Dispatching = {}
  /\ arrays' = [Empty EXCEPT ![<<"all">>] = [arrays[<<"all">>] EXCEPT !.used = 0]]
  /\ UNCHANGED <<blockers, key_enabled, generic_enabled, internal_modifiers, th>>
  /\ hist' = Disturbed(hist)

\* mcr_Dispatcher_set_enabled
SetEnabled ==
  /\ begun < Budget /\ begun' = begun + 1
  /\ \/ key_enabled' = ~ key_enabled /\ UNCHANGED generic_enabled
     \/ generic_enabled' = ~ generic_enabled /\ UNCHANGED key_enabled
  /\ hist' = [t \in Threads |-> [hist[t] EXCEPT !.disturbed = TRUE, !.alone = FALSE]]
  /\ UNCHANGED <<arrays, blockers, internal_modifiers, th>>

\* The bound is reached and every thread has returned.
DispatchDone == begun = Budget /\ (\A t \in Threads : At(t, "idle")) /\ UNCHANGED dispatchVars

DispatchNext == (\E t \in Threads : mcr_send(t)) \/ OwnerRegisters \/ Clear \/ SetEnabled \/ DispatchDone
=============================================================================
