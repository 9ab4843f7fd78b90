------------------------------ MODULE Wrappers ------------------------------
(***************************************************************************)
(* src/extras/model.cpp and mcr/extras/model.h: macros of C++, which       *)
(* dispatch the signals of their activators to their triggers as long as   *)
(* they are enabled. The dispatchers keep the addresses of triggers that   *)
(* live in a std::vector, and of macros that applications make, copy and   *)
(* destroy. All of this is called by one thread.                           *)
(***************************************************************************)
EXTENDS Integers, Sequences, FiniteSets

CONSTANTS
  Wrapped,        \* macros
  Blocks,         \* memory for vectors of triggers
  Nowhere,        \* the place of a vector without memory
  Activators,     \* signals
  KeyActivators,  \* those whose dispatcher accepts a receiver more than once
  MostTriggers,
  MostTimes       \* bound on how often a receiver is accepted

ASSUME WrapAssumption == Nowhere \notin Blocks /\ MostTriggers \in Nat /\ MostTimes \in Nat

VARIABLES
  wrapped,     \* the fields of every macro
  memory,      \* the triggers in every block, and for how many it has room
  dispatched,  \* how often every signal goes to every receiver
  drifted,     \* macros of which more or less is dispatched than they have, see below
  reshaped     \* triggers were replaced while they were receivers

wrapVars == << wrapped, memory, dispatched, drifted, reshaped >>

Free == [room |-> 0, cells |-> << >>]
NotMade == [live |-> FALSE, enabled |-> FALSE, ctx |-> FALSE, activators |-> {}, block |-> Nowhere]

\* A receiver is a trigger in a block or, at place 0, a macro.
Receivers == (Blocks \X (1..MostTriggers)) \union (Wrapped \X {0})
Cells(m) == IF wrapped[m].block = Nowhere THEN << >> ELSE memory[wrapped[m].block].cells
Own(m) == {<< m, 0 >>} \union {<< wrapped[m].block, i >> : i \in DOMAIN Cells(m)}

\* Triggers with or without an interface, as an application gives them.
TriggerLists == UNION {[1..n -> BOOLEAN] : n \in 0..MostTriggers}
Starting(m, kinds) == [i \in DOMAIN kinds |-> [itrigger |-> kinds[i], actor |-> m]]
Kinds(m) == [i \in DOMAIN Cells(m) |-> Cells(m)[i].itrigger]

-----------------------------------------------------------------------------
(* std::vector: it moves when its memory has no room, and else stays. *)

Room(m) == IF wrapped[m].block = Nowhere THEN 0 ELSE memory[wrapped[m].block].room
Places(m, n) == IF n <= Room(m) THEN {wrapped[m].block} ELSE {b \in Blocks : memory[b] = Free}

Holding(m, cells, place) ==
  [b \in Blocks |->
    IF b = place THEN [room |-> IF b = wrapped[m].block THEN Room(m) ELSE Len(cells), cells |-> cells]
    ELSE IF b = wrapped[m].block THEN Free ELSE memory[b]]

-----------------------------------------------------------------------------
(* Macro::enableDispatch, addDispatch and removeDispatch *)

\* mcr_Macro_dispatcher: triggers without an interface stand for their macro.
Receiver(m, block, kinds, i) == IF kinds[i] THEN << block, i >> ELSE << m, 0 >>
Times(m, block, kinds, r) == Cardinality({i \in DOMAIN kinds : Receiver(m, block, kinds, i) = r})

Listed(p, times, before) == IF p[1] \in KeyActivators THEN before + times ELSE 1

\* Every activator is dispatched to every trigger.
Added(d, m, activators, block, kinds) ==
  [p \in DOMAIN d |->
    LET times == Times(m, block, kinds, p[2])
    IN IF p[1] \in activators /\ times > 0 THEN Listed(p, times, d[p]) ELSE d[p]]

\* Fault: the macro itself stays a receiver.
KeepsMacro(d, m) == [p \in DOMAIN d |-> IF p[2] \in Own(m) \ {<< m, 0 >>} THEN 0 ELSE d[p]]

Unlisted(d, m) == [p \in DOMAIN d |-> IF p[2] \in Own(m) THEN 0 ELSE d[p]]

\* A macro without the context of its C structure has no dispatchers to add to: the
\* program ends there if there is something to add.
MayAdd(ctx, activators, kinds) == ctx \/ activators = {} \/ kinds = << >>

\* The macro is dispatched; what is left is dropped when adding fails.
Enlists(d, drift, m, activators, block, kinds) ==
  LET all == Added(d, m, activators, block, kinds)
      changed == {p \in DOMAIN d : all[p] # d[p]}
  IN \E part \in SUBSET changed :
       /\ dispatched' = [p \in DOMAIN d |-> IF p \in part THEN all[p] ELSE d[p]]
       /\ \A p \in part : all[p] <= MostTimes
       /\ drifted' = IF part = changed THEN drift ELSE drift \union {m}

\* Nothing is done any more once a receiver may have been lost in memory.
Alive(m) == wrapped[m].live /\ ~ reshaped

-----------------------------------------------------------------------------
(* Construction and destruction *)

WrapInit ==
  /\ wrapped = [m \in Wrapped |-> NotMade]
  /\ memory = [b \in Blocks |-> Free]
  /\ dispatched = [p \in Activators \X Receivers |-> 0]
  /\ drifted = {} /\ reshaped = FALSE

\* Of its own, or from a C macro, whose context is not copied.
Construct == \E m \in Wrapped, enable \in BOOLEAN, ctx \in BOOLEAN :
  /\ ~ wrapped[m].live /\ ~ reshaped
  /\ wrapped' = [wrapped EXCEPT ![m] = [NotMade EXCEPT !.live = TRUE, !.enabled = enable, !.ctx = ctx]]
  /\ UNCHANGED << memory, dispatched, drifted, reshaped >>

\* mcr_Macro_copy does not copy the context.
ConstructCopy == \E m \in Wrapped, n \in Wrapped :
  /\ ~ wrapped[m].live /\ Alive(n)
  /\ wrapped[n].enabled => MayAdd(FALSE, wrapped[n].activators, Kinds(n))
  /\ \E place \in Places(m, Len(Cells(n))) :
       /\ wrapped' = [wrapped EXCEPT ![m] = [wrapped[n] EXCEPT !.ctx = FALSE, !.block = place]]
       /\ memory' = Holding(m, Starting(m, Kinds(n)), place)
  /\ UNCHANGED << dispatched, drifted, reshaped >>

Destruct == \E m \in Wrapped :
  /\ Alive(m)
  /\ dispatched' = Unlisted(dispatched, m)
  /\ wrapped' = [wrapped EXCEPT ![m] = NotMade]
  /\ memory' = [b \in Blocks |-> IF b = wrapped[m].block THEN Free ELSE memory[b]]
  /\ drifted' = drifted \ {m}
  /\ UNCHANGED reshaped

-----------------------------------------------------------------------------
(* Members *)

SetWrapEnabled == \E m \in Wrapped :
  /\ Alive(m)
  /\ wrapped' = [wrapped EXCEPT ![m].enabled = ~ @]
  /\ IF wrapped[m].enabled
     THEN dispatched' = Unlisted(dispatched, m) /\ drifted' = drifted \ {m}
     ELSE /\ MayAdd(wrapped[m].ctx, wrapped[m].activators, Kinds(m))
          /\ Enlists(dispatched, drifted, m, wrapped[m].activators, wrapped[m].block, Kinds(m))
  /\ UNCHANGED << memory, reshaped >>

\* Macro::setInterruptor, MacrosInterrupted::interrupt for all macros it maps, and the
\* copy of a C macro enable and disable macros without telling the dispatchers.
SetInterruptors == \E ms \in SUBSET Wrapped, enable \in BOOLEAN :
  /\ \A m \in ms : Alive(m)
  /\ wrapped' = [m \in Wrapped |-> IF m \in ms THEN [wrapped[m] EXCEPT !.enabled = enable] ELSE wrapped[m]]
  /\ drifted' = drifted \union {m \in ms : wrapped[m].enabled # enable}
  /\ UNCHANGED << memory, dispatched, reshaped >>

IsReceiver(m) == \E p \in DOMAIN dispatched : dispatched[p] > 0 /\ p[2] \in Own(m)

Activate(m, activators) ==
  /\ wrapped' = [wrapped EXCEPT ![m].activators = activators]
  /\ drifted' = IF wrapped[m].enabled THEN drifted \union {m} ELSE drifted

SetActivators == \E m \in Wrapped, activators \in SUBSET Activators :
  /\ Alive(m) /\ Activate(m, activators)
  /\ UNCHANGED << memory, dispatched, reshaped >>

SetTriggers == \E m \in Wrapped, kinds \in TriggerLists :
  /\ Alive(m)
  /\ \E place \in Places(m, Len(kinds)) :
       /\ memory' = Holding(m, Starting(m, kinds), place)
       /\ wrapped' = [wrapped EXCEPT ![m].block = place]
  /\ reshaped' = IsReceiver(m)
  /\ drifted' = IF wrapped[m].enabled THEN drifted \union {m} ELSE drifted
  /\ UNCHANGED dispatched

\* The signals of the macro are none of this module.
ClearWrapped == \E m \in Wrapped :
  /\ Alive(m) /\ Activate(m, {})
  /\ memory' = [b \in Blocks |-> IF b = wrapped[m].block THEN [memory[b] EXCEPT !.cells = << >>] ELSE memory[b]]
  /\ reshaped' = IsReceiver(m)
  /\ UNCHANGED dispatched

RemoveDispatch == \E m \in Wrapped :
  /\ Alive(m)
  /\ dispatched' = Unlisted(dispatched, m)
  /\ drifted' = IF wrapped[m].enabled THEN drifted \union {m} ELSE drifted
  /\ UNCHANGED << wrapped, memory, reshaped >>

\* For a trigger of its own.
AddDispatch == \E m \in Wrapped, s \in Activators : \E i \in DOMAIN Cells(m) :
  LET p == << s, Receiver(m, wrapped[m].block, Kinds(m), i) >>
      times == Listed(p, 1, dispatched[p])
  IN /\ Alive(m) /\ wrapped[m].ctx /\ times <= MostTimes
     /\ dispatched' = [dispatched EXCEPT ![p] = times]
     /\ drifted' = drifted \union {m}
     /\ UNCHANGED << wrapped, memory, reshaped >>

\* Macro::copy. The macro of C may fail to be copied, and is disabled then. Nothing is
\* removed from the dispatchers before the triggers are replaced if an interruptor has
\* disabled the macro.
CopyWrapped == \E m, n \in Wrapped :
  LET before == IF wrapped[m].enabled THEN Unlisted(dispatched, m) ELSE dispatched
      drift == IF wrapped[m].enabled THEN drifted \ {m} ELSE drifted
  IN /\ Alive(m) /\ Alive(n) /\ m # n
     /\ \/ /\ \E place \in Places(m, Len(Cells(n))) :
                /\ memory' = Holding(m, Starting(m, Kinds(n)), place)
                /\ wrapped' = [wrapped EXCEPT ![m].activators = wrapped[n].activators,
                                              ![m].enabled = wrapped[n].enabled, ![m].block = place]
                /\ IF wrapped[n].enabled
                   THEN /\ MayAdd(wrapped[m].ctx, wrapped[n].activators, Kinds(n))
                        /\ Enlists(before, drift, m, wrapped[n].activators, place, Kinds(n))
                   ELSE dispatched' = Unlisted(dispatched, m) /\ drifted' = drifted \ {m}
           /\ reshaped' = (~ wrapped[m].enabled /\ IsReceiver(m))
        \/ /\ wrapped' = [wrapped EXCEPT ![m].enabled = FALSE]
           /\ dispatched' = before /\ drifted' = drift
           /\ UNCHANGED << memory, reshaped >>

WrapNext ==
  \/ Construct \/ ConstructCopy \/ Destruct
  \/ SetWrapEnabled \/ SetInterruptors \/ SetActivators \/ SetTriggers \/ ClearWrapped
  \/ RemoveDispatch \/ AddDispatch \/ CopyWrapped

WrapSpec == WrapInit /\ [][WrapNext]_wrapVars

-----------------------------------------------------------------------------
WrapTypeOK ==
  /\ wrapped \in [Wrapped -> [live : BOOLEAN, enabled : BOOLEAN, ctx : BOOLEAN,
                              activators : SUBSET Activators, block : Blocks \union {Nowhere}]]
  /\ \A b \in Blocks :
       /\ memory[b].room \in 0..MostTriggers
       /\ Len(memory[b].cells) <= memory[b].room
  /\ dispatched \in [Activators \X Receivers -> 0..MostTimes]
  /\ drifted \subseteq Wrapped /\ reshaped \in BOOLEAN

\* What signals are dispatched to exists, and starts the macro that it belongs to, as long as no
\* triggers were replaced under the dispatchers. And of every macro whose owner enables
\* and disables it with setEnabled alone, and changes it while it is disabled, exactly
\* its activators go to exactly its triggers if it is enabled, and none if not.
HeardWhileEnabled ==
  ~ reshaped =>
    /\ \A p \in DOMAIN dispatched : dispatched[p] > 0 =>
         \E m \in Wrapped :
           /\ wrapped[m].live /\ p[2] \in Own(m)
           /\ p[2][2] # 0 => Cells(m)[p[2][2]].actor = m
    /\ \A m \in Wrapped \ drifted : wrapped[m].live =>
         \A p \in DOMAIN dispatched : p[2] \in Own(m) =>
           dispatched[p] = IF wrapped[m].enabled
                           THEN Added([q \in {p} |-> 0], m, wrapped[m].activators, wrapped[m].block, Kinds(m))[p]
                           ELSE 0
=============================================================================
