---------------------------- MODULE MCReception ----------------------------
(* Small instances of Reception for TLC: see the .cfg files.               *)
EXTENDS Reception, TLC

CONSTANTS k1, k2, v1, v2, f

-----------------------------------------------------------------------------
(* The trigger.                                                            *)

StageOf(type, value, mods, flags, blocks) ==
  [type |-> type, value |-> value, modifiers |-> mods, trigger_flags |-> flags,
   blocking |-> blocks]

\* Values v1 and v2 whatever the modifiers, blocking or not, v1 with modifier f, a scroll,
\* and a stage that any signal resembles.
MCStage ==
  {StageOf(k1, v1, {}, 7, FALSE), StageOf(k1, v2, {}, 7, TRUE),
   StageOf(k1, v1, {f}, 4, TRUE), StageOf(k2, v1, {}, 1, FALSE),
   StageOf(NoType, v1, {}, 7, TRUE)}

\* All arrays of up to three of them, and of four that only keys match.
MCSources ==
  UNION {[1 .. n -> MCStage] : n \in 0 .. 3}
  \cup [1 .. 4 -> {s \in MCStage : s.type = k1}]

MCCopies == {<<StageOf(k1, v2, {}, 7, TRUE), StageOf(k1, v1, {}, 7, FALSE)>>}

MCInterceptions ==
  {[signal |-> [type |-> k1, value |-> v1], mods |-> {}],
   [signal |-> [type |-> k1, value |-> v1], mods |-> {f}],
   [signal |-> [type |-> k1, value |-> v2], mods |-> {}],
   [signal |-> [type |-> k2, value |-> v1], mods |-> {}],
   [signal |-> NoSignal, mods |-> {}]}

-----------------------------------------------------------------------------
(* The dispatchers.                                                        *)

K(key, apply, is_dispatch) ==
  [type |-> "key", key |-> key, flags |-> {}, apply |-> apply, is_dispatch |-> is_dispatch]

\* Key 1 changes modifier f; a modifier signal.
MCKeyModifier == [k \in {1} |-> {f}]

MCSignals ==
  {K(1, "set", TRUE), K(1, "toggle", FALSE), K(0, "unset", FALSE),
   [type |-> "modifier", key |-> 0, flags |-> {f}, apply |-> "both", is_dispatch |-> TRUE]}

\* Receivers for one key, any key, a signal and everything; twice for the same.
MCRegistered ==
  LET Nowhere == [p \in Places |-> <<>>]
  IN {<<"unset", 1>> :> <<1>> @@ <<"set", 1>> :> <<2, 2>> @@ Nowhere,
      <<"set", 0>> :> <<2>> @@ <<"unset", 0>> :> <<2>> @@ <<"signal", K(1, "set", TRUE)>> :> <<2>>
        @@ <<"all">> :> <<1, 2>> @@ Nowhere}

MCAdditions == {{<<"set", 0>>, <<"unset", 0>>}, {<<"all">>}}
-----------------------------------------------------------------------------
(* The reading thread.                                                     *)

E(kind, axis, code) == [kind |-> kind, axis |-> axis, code |-> code]

\* A key that is echoed, one that is not, two axes of a position, movements, a scroll and
\* what makes no signal.
MCHardEvents ==
  {E("key", 0, 1), E("key", 0, 2), E("abs", 0, 0), E("abs", 1, 0), E("rel", 0, 0), E("rel", 1, 0),
   E("wheel", 1, 0), E("other", 0, 0)}

Symmetry == Permutations(Threads)
=============================================================================
