------------------------------ MODULE Library ------------------------------
(***************************************************************************)
(* The parts of the library that run in the thread of their caller, next   *)
(* to each other: the containers, the tables of names, the modifiers of    *)
(* keys, the registry, the instances, the macros of C++, and the           *)
(* characters that texts are typed with. They share no state, and one      *)
(* behaviour calls the functions of one of them: the others rest.          *)
(***************************************************************************)
EXTENDS ArrayCalls, Maps, StringSets, Strings, Names, KeyModifiers, Registry, Instances, Wrappers, SafeStrings, Typing

VARIABLE part

vars == << part, arrayVars, mapVars, setVars, textVars, nameVars, modifierVars, registryVars, instVars,
           wrapVars, safeVars, typingVars >>

Parts == {"array", "map", "set", "string", "names", "modifiers", "registry", "instances",
          "wrappers", "safe", "typing"}

TypeOK ==
  /\ part \in Parts
  /\ ArrayTypeOK /\ MapTypeOK /\ StringTypeOK /\ TextTypeOK
  /\ NamesTypeOK /\ ModifiersTypeOK /\ RegistryTypeOK /\ InstancesTypeOK /\ WrapTypeOK /\ SafeTypeOK /\ TypingTypeOK

Init ==
  /\ part \in Parts
  /\ ArrayInit /\ MapInit /\ StringInit /\ TextInit
  /\ NamesInit /\ ModifiersInit /\ RegistryInit /\ InstancesInit /\ WrapInit /\ SafeInit /\ TypingInit

Only(one, others) == part = one /\ UNCHANGED << part, others >>

Next ==
  \/ Only("array", << mapVars, textVars, setVars, nameVars, modifierVars,
                registryVars, instVars, wrapVars, safeVars, typingVars >>) /\ ArrayNext
  \/ Only("map", << arrayVars, textVars, setVars, nameVars, modifierVars,
                registryVars, instVars, wrapVars, safeVars, typingVars >>) /\ MapNext
  \/ Only("string", << arrayVars, mapVars, setVars, nameVars, modifierVars,
                registryVars, instVars, wrapVars, safeVars, typingVars >>) /\ TextNext
  \/ Only("set", << arrayVars, mapVars, textVars, nameVars, modifierVars,
                registryVars, instVars, wrapVars, safeVars, typingVars >>) /\ StringNext
  \/ Only("names", << arrayVars, mapVars, textVars, setVars, modifierVars,
                registryVars, instVars, wrapVars, safeVars, typingVars >>) /\ NamesNext
  \/ Only("modifiers", << arrayVars, mapVars, textVars, setVars, nameVars,
                registryVars, instVars, wrapVars, safeVars, typingVars >>) /\ ModifiersNext
  \/ Only("registry", << arrayVars, mapVars, textVars, setVars, nameVars,
                modifierVars, instVars, wrapVars, safeVars, typingVars >>) /\ RegistryNext
  \/ Only("instances", << arrayVars, mapVars, textVars, setVars, nameVars,
                modifierVars, registryVars, wrapVars, safeVars, typingVars >>) /\ InstancesNext
  \/ Only("wrappers", << arrayVars, mapVars, textVars, setVars, nameVars,
                modifierVars, registryVars, instVars, safeVars, typingVars >>) /\ WrapNext
  \/ Only("safe", << arrayVars, mapVars, textVars, setVars, nameVars,
                modifierVars, registryVars, instVars, wrapVars, typingVars >>) /\ SafeNext
  \/ Only("typing", << arrayVars, mapVars, textVars, setVars, nameVars,
                modifierVars, registryVars, instVars, wrapVars, safeVars >>) /\ TypingNext

Spec == Init /\ [][Next]_vars

-----------------------------------------------------------------------------
\* The texts of a set of strings, the characters of a string and the text of an encrypted
\* one are those that their caller put there, whatever was inserted, moved, removed,
\* encrypted anew or refused before.
HoldsStrings == HoldsSet /\ HoldsText /\ HoldsSafe
=============================================================================
