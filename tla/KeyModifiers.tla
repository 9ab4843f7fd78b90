---------------------------- MODULE KeyModifiers ----------------------------
(***************************************************************************)
(* The modifiers of keys in src/standard/key.c: the modifier that every    *)
(* key sets when it is pressed, and the key that stands for a modifier.    *)
(* Two maps (see Maps) hold the two directions. A map needs memory only    *)
(* for a new pair, and is refused it or not. The caller gives a key to one *)
(* modifier at a time.                                                     *)
(***************************************************************************)
EXTENDS Functions

CONSTANTS
  Keys,
  Modifiers,
  MovesInPlace  \* a key or a modifier may be moved to itself

VARIABLES
  keyModifier,  \* map_key_modifier: from keys to their modifiers
  modifierKey,  \* map_modifier_key: from modifiers to their keys
  torn          \* modifiers whose two maps a failed call left different

modifierVars == << keyModifier, modifierKey, torn >>

Grants == {"key", "modifier"}  \* the maps that may grow
Fits(f, x, grants, name) == x \in DOMAIN f \/ name \in grants
Mapped(f, x, y) == [z \in DOMAIN f \union {x} |-> IF z = x THEN y ELSE f[z]]

\* mcr_Map_remap: the old pair goes after the new one is there, even if they are one.
Remapped(f, old, new) == LET g == Mapped(f, new, f[old]) IN Restrict(g, DOMAIN g \ {old})

\* The modifier may be given the key: no other one has it.
FreeKey(modifier, key) == key \in DOMAIN keyModifier => keyModifier[key] = modifier

ModifiersTypeOK ==
  /\ DOMAIN keyModifier \subseteq Keys /\ DOMAIN modifierKey \subseteq Modifiers
  /\ \A k \in DOMAIN keyModifier : keyModifier[k] \in Modifiers
  /\ \A m \in DOMAIN modifierKey : modifierKey[m] \in Keys
  /\ torn \subseteq Modifiers

NoMap == [x \in {} |-> x]
ModifiersInit == keyModifier = NoMap /\ modifierKey = NoMap /\ torn = {}

\* mcr_Key_modifier_set_key, and mcr_Key_modifier_map with further keys; those after the
\* first that needs memory are not added.
MapModifier(m, k, added, grants) ==
  LET fitsKey == Fits(keyModifier, k, grants, "key")
      both == fitsKey /\ Fits(modifierKey, m, grants, "modifier")
      given == (IF fitsKey THEN {k} ELSE {}) \union (IF both /\ "key" \in grants THEN added ELSE {})
  IN /\ \A l \in added \union {k} : FreeKey(m, l)
     /\ keyModifier' = [l \in given \union DOMAIN keyModifier |-> IF l \in given THEN m ELSE keyModifier[l]]
     /\ modifierKey' = IF both THEN Mapped(modifierKey, m, k) ELSE modifierKey
     /\ torn' = IF both THEN torn \ {m} ELSE torn

ModifierMap == \E m \in Modifiers, k \in Keys, added \in SUBSET Keys, grants \in SUBSET Grants :
  MapModifier(m, k, added, grants)

ModifierAdd == \E m \in Modifiers, k \in Keys :
  /\ FreeKey(m, k)
  /\ keyModifier' = Mapped(keyModifier, k, m)
  /\ UNCHANGED << modifierKey, torn >>

\* The key of the modifier is the new one before the pair of the old key moves.
RekeyFrom(old, new, grants) ==
  LET m == keyModifier[old]
  IN /\ FreeKey(m, new) /\ (MovesInPlace \/ old # new)
     /\ Fits(modifierKey, m, grants, "modifier")
     /\ modifierKey' = Mapped(modifierKey, m, new)
     /\ IF Fits(keyModifier, new, grants, "key")
        THEN keyModifier' = Remapped(keyModifier, old, new) /\ torn' = torn \ {m}
        ELSE UNCHANGED keyModifier /\ torn' = torn \union {m}

Rekey == \E old \in DOMAIN keyModifier, new \in Keys, grants \in SUBSET Grants : RekeyFrom(old, new, grants)

\* Fault: only the pair of the modifier moves.
RemodOneMap == \E m \in DOMAIN modifierKey, new \in Modifiers :
  m # new /\ modifierKey' = Remapped(modifierKey, m, new) /\ UNCHANGED << keyModifier, torn >>

\* The modifier's key sets the new one before the pair of the modifier moves;
\* its other keys still set the old one.
RemodFrom(m, new, grants) ==
  LET k == modifierKey[m]
  IN /\ FreeKey(m, k) /\ (MovesInPlace \/ m # new)
     /\ Fits(keyModifier, k, grants, "key")
     /\ keyModifier' = Mapped(keyModifier, k, new)
     /\ IF Fits(modifierKey, new, grants, "modifier")
        THEN modifierKey' = Remapped(modifierKey, m, new) /\ torn' = torn \ {m, new}
        ELSE UNCHANGED modifierKey /\ torn' = torn \union {m}

Remod == \E m \in DOMAIN modifierKey, new \in Modifiers, grants \in SUBSET Grants : RemodFrom(m, new, grants)

ModifierClear == keyModifier' = NoMap /\ modifierKey' = NoMap /\ torn' = {}

ModifiersNext == ModifierMap \/ ModifierAdd \/ Rekey \/ Remod \/ ModifierClear

ModifiersSpec == ModifiersInit /\ [][ModifiersNext]_modifierVars

-----------------------------------------------------------------------------
\* The key that stands for a modifier sets that modifier when it is pressed
\* (mcr_Key_Dispatcher_modifier reads the other map), unless the last call that
\* moved one of the two failed half-way.
KeysAgree ==
  \A m \in DOMAIN modifierKey \ torn :
    modifierKey[m] \in DOMAIN keyModifier /\ keyModifier[modifierKey[m]] = m
=============================================================================
