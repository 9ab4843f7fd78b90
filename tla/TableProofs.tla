---------------------------- MODULE TableProofs ----------------------------
(***************************************************************************)
(* Lemmas about the tables that the library keeps, the data of its         *)
(* instances, the macros of C++, typing, encrypted strings, string sets    *)
(* and maps, each part by itself: LibraryProofs has the theorems.          *)
(***************************************************************************)
EXTENDS KeyModifiers, Registry, Instances, Names, Wrappers, Typing, SafeStrings, StringSets, Maps,
        SequenceTheorems, FiniteSetTheorems, WellFoundedInduction, TLAPS

-----------------------------------------------------------------------------
(* The two maps of keys and modifiers: agreement is inductive as it        *)
(* stands, for the key of another modifier is none that a call may change. *)

\* A key that one modifier may have does not stand for another one.
LEMMA OtherKeys ==
  ASSUME KeysAgree, NEW m, NEW l, FreeKey(m, l), NEW other \in DOMAIN modifierKey \ torn, other # m
  PROVE  modifierKey[other] # l
BY DEF KeysAgree, FreeKey

LEMMA MapAgrees ==
  ASSUME KeysAgree, NEW m, NEW k, NEW added, NEW grants, MapModifier(m, k, added, grants)
  PROVE  KeysAgree'
<1> DEFINE fitsKey == Fits(keyModifier, k, grants, "key")
           both == fitsKey /\ Fits(modifierKey, m, grants, "modifier")
           given == (IF fitsKey THEN {k} ELSE {}) \union (IF both /\ "key" \in grants THEN added ELSE {})
<1>1. /\ \A l \in added \union {k} : FreeKey(m, l)
      /\ keyModifier' = [l \in given \union DOMAIN keyModifier |-> IF l \in given THEN m ELSE keyModifier[l]]
      /\ modifierKey' = IF both THEN Mapped(modifierKey, m, k) ELSE modifierKey
      /\ torn' = IF both THEN torn \ {m} ELSE torn
  BY DEF MapModifier
<1>2. given \subseteq added \union {k}
  OBVIOUS
<1>3. both => k \in given
  OBVIOUS
<1> HIDE DEF fitsKey, both, given
<1> SUFFICES ASSUME NEW other \in DOMAIN modifierKey' \ torn'
             PROVE  modifierKey'[other] \in DOMAIN keyModifier' /\ keyModifier'[modifierKey'[other]] = other
  BY DEF KeysAgree
<1>4. CASE other = m /\ both
  BY <1>1, <1>3, <1>4 DEF Mapped
<1>5. CASE ~ (other = m /\ both)
  <2>1. other \in DOMAIN modifierKey \ torn /\ modifierKey'[other] = modifierKey[other]
    BY <1>1, <1>5 DEF Mapped
  <2>2. modifierKey[other] \in DOMAIN keyModifier /\ keyModifier[modifierKey[other]] = other
    BY <2>1 DEF KeysAgree
  <2>3. modifierKey[other] \in given => other = m
    BY <1>1, <1>2, <2>1, OtherKeys
  <2> QED BY <1>1, <2>1, <2>2, <2>3
<1> QED BY <1>4, <1>5

LEMMA AddAgrees == KeysAgree /\ ModifierAdd => KeysAgree'
BY DEF KeysAgree, ModifierAdd, FreeKey, Mapped

LEMMA RekeyAgrees ==
  ASSUME KeysAgree, ~ MovesInPlace, NEW old \in DOMAIN keyModifier, NEW new, NEW grants, RekeyFrom(old, new, grants)
  PROVE  KeysAgree'
<1> DEFINE m == keyModifier[old]
<1> SUFFICES ASSUME NEW other \in DOMAIN modifierKey' \ torn'
             PROVE  modifierKey'[other] \in DOMAIN keyModifier' /\ keyModifier'[modifierKey'[other]] = other
  BY DEF KeysAgree
<1>1. /\ FreeKey(m, new) /\ old # new
      /\ modifierKey' = Mapped(modifierKey, m, new)
      /\ \/ keyModifier' = Remapped(keyModifier, old, new)
         \/ keyModifier' = keyModifier /\ torn' = torn \union {m}
      /\ torn \ {m} \subseteq torn'
  BY DEF RekeyFrom
<1>2. CASE other = m
  BY <1>1, <1>2 DEF Mapped, Remapped, Restrict
<1>3. CASE other # m
  <2>1. other \in DOMAIN modifierKey \ torn /\ modifierKey'[other] = modifierKey[other]
    BY <1>1, <1>3 DEF Mapped
  <2>2. modifierKey[other] \in DOMAIN keyModifier /\ keyModifier[modifierKey[other]] = other
    BY <2>1 DEF KeysAgree
  <2>3. modifierKey[other] # old /\ modifierKey[other] # new
    BY <1>1, <1>3, <2>1, <2>2, OtherKeys
  <2> QED BY <1>1, <2>1, <2>2, <2>3 DEF Mapped, Remapped, Restrict
<1> QED BY <1>2, <1>3

LEMMA RemodAgrees ==
  ASSUME KeysAgree, ~ MovesInPlace, NEW m \in DOMAIN modifierKey, NEW new, NEW grants, RemodFrom(m, new, grants)
  PROVE  KeysAgree'
<1> DEFINE k == modifierKey[m]
<1> SUFFICES ASSUME NEW other \in DOMAIN modifierKey' \ torn'
             PROVE  modifierKey'[other] \in DOMAIN keyModifier' /\ keyModifier'[modifierKey'[other]] = other
  BY DEF KeysAgree
<1>1. /\ FreeKey(m, k) /\ m # new
      /\ keyModifier' = Mapped(keyModifier, k, new)
      /\ \/ modifierKey' = Remapped(modifierKey, m, new) /\ torn' = torn \ {m, new}
         \/ new \notin DOMAIN modifierKey /\ modifierKey' = modifierKey /\ torn' = torn \union {m}
  BY DEF RemodFrom, Fits
<1>2. CASE other = new
  BY <1>1, <1>2 DEF Mapped, Remapped, Restrict
<1>3. CASE other # new
  <2>1. other \in DOMAIN modifierKey \ torn /\ modifierKey'[other] = modifierKey[other] /\ other # m
    BY <1>1, <1>3 DEF Mapped, Remapped, Restrict
  <2>2. modifierKey[other] \in DOMAIN keyModifier /\ keyModifier[modifierKey[other]] = other
    BY <2>1 DEF KeysAgree
  <2>3. modifierKey[other] # k
    BY <1>1, <2>1, OtherKeys
  <2> QED BY <1>1, <2>1, <2>2, <2>3 DEF Mapped
<1> QED BY <1>2, <1>3

LEMMA StepAgrees == ~ MovesInPlace /\ KeysAgree /\ [ModifiersNext]_modifierVars => KeysAgree'
<1> SUFFICES ASSUME ~ MovesInPlace, KeysAgree, [ModifiersNext]_modifierVars
             PROVE  KeysAgree'
  OBVIOUS
<1>1. CASE ModifierMap
  BY <1>1, MapAgrees DEF ModifierMap
<1>2. CASE ModifierAdd
  BY <1>2, AddAgrees
<1>3. CASE Rekey
  BY <1>3, RekeyAgrees DEF Rekey
<1>4. CASE Remod
  BY <1>4, RemodAgrees DEF Remod
<1>5. CASE ModifierClear
  BY <1>5 DEF ModifierClear, NoMap, KeysAgree
<1>6. CASE UNCHANGED modifierVars
  BY <1>6 DEF modifierVars, KeysAgree
<1> QED BY <1>1, <1>2, <1>3, <1>4, <1>5, <1>6 DEF ModifiersNext

LEMMA KeysStay ==
  ASSUME ~ MovesInPlace
  PROVE  ModifiersSpec => []KeysAgree
<1>1. ModifiersInit => KeysAgree
  BY DEF ModifiersInit, NoMap, KeysAgree
<1>2. KeysAgree /\ [ModifiersNext]_modifierVars => KeysAgree'
  BY StepAgrees
<1> QED BY <1>1, <1>2, PTL DEF ModifiersSpec

\* Keys and modifiers lead to each other alone.
LEMMA KeysTyped == ModifiersSpec => []ModifiersTypeOK
<1>1. ModifiersInit => ModifiersTypeOK
  BY DEF ModifiersInit, NoMap, ModifiersTypeOK
<1>2. ModifiersTypeOK /\ [ModifiersNext]_modifierVars => ModifiersTypeOK'
  <2> SUFFICES ASSUME ModifiersTypeOK, [ModifiersNext]_modifierVars PROVE ModifiersTypeOK'
    OBVIOUS
  <2>1. CASE ModifierMap
    <3>1. PICK m \in Modifiers, k \in Keys, added \in SUBSET Keys, grants \in SUBSET Grants :
            MapModifier(m, k, added, grants)
      BY <2>1 DEF ModifierMap
    <3> DEFINE fitsKey == Fits(keyModifier, k, grants, "key")
               both == fitsKey /\ Fits(modifierKey, m, grants, "modifier")
               given == (IF fitsKey THEN {k} ELSE {}) \union (IF both /\ "key" \in grants THEN added ELSE {})
    <3>2. /\ keyModifier' = [l \in given \union DOMAIN keyModifier |-> IF l \in given THEN m ELSE keyModifier[l]]
          /\ modifierKey' = Mapped(modifierKey, m, k) \/ modifierKey' = modifierKey
          /\ torn' \subseteq torn
      BY <3>1 DEF MapModifier
    <3>3. given \subseteq Keys
      OBVIOUS
    <3> HIDE DEF given
    <3> QED BY <3>2, <3>3 DEF ModifiersTypeOK, Mapped
  <2>2. CASE ModifierAdd
    BY <2>2 DEF ModifierAdd, Mapped, ModifiersTypeOK
  <2>3. CASE Rekey
    <3>1. PICK old \in DOMAIN keyModifier, new \in Keys, grants \in SUBSET Grants : RekeyFrom(old, new, grants)
      BY <2>3 DEF Rekey
    <3>2. /\ modifierKey' = Mapped(modifierKey, keyModifier[old], new)
          /\ keyModifier' = Remapped(keyModifier, old, new) \/ keyModifier' = keyModifier
          /\ torn' \subseteq torn \union {keyModifier[old]}
      BY <3>1 DEF RekeyFrom
    <3> QED BY <3>2 DEF Mapped, Remapped, Restrict, ModifiersTypeOK
  <2>4. CASE Remod
    <3>1. PICK m \in DOMAIN modifierKey, new \in Modifiers, grants \in SUBSET Grants : RemodFrom(m, new, grants)
      BY <2>4 DEF Remod
    <3>2. /\ keyModifier' = Mapped(keyModifier, modifierKey[m], new)
          /\ modifierKey' = Remapped(modifierKey, m, new) \/ modifierKey' = modifierKey
          /\ torn' \subseteq torn \union {m}
      BY <3>1 DEF RemodFrom
    <3> QED BY <3>2 DEF Mapped, Remapped, Restrict, ModifiersTypeOK
  <2>5. CASE ModifierClear
    BY <2>5 DEF ModifierClear, NoMap, ModifiersTypeOK
  <2>6. CASE UNCHANGED modifierVars
    BY <2>6 DEF modifierVars, ModifiersTypeOK
  <2> QED BY <2>1, <2>2, <2>3, <2>4, <2>5, <2>6 DEF ModifiersNext
<1> QED BY <1>1, <1>2, PTL DEF ModifiersSpec

-----------------------------------------------------------------------------
(* The registry: names that were set end with the interfaces, or an        *)
(* interface would be born with a name.                                    *)

SomeNames == TypeNames \union {NoName}

\* The name of an id in names n, NoName where there is no place for one.
NameOf(n, id) == IF id < Len(n) THEN n[id + 1] ELSE NoName

\* Every registered interface is at its id.
AtTheirIds ==
  \A x \in Interfaces : IsRegistered(x) => ids[x] \in 0..Len(iset) - 1 /\ iset[ids[x] + 1] = x

\* An interface that has a name is found by it, unless naming it failed.
FoundByTheirNames ==
  \A x \in Interfaces : IsRegistered(x) /\ NameOf(names, ids[x]) # NoName /\ x \notin halfNamed =>
    NameOf(names, ids[x]) \in DOMAIN name_map /\ name_map[NameOf(names, ids[x])] = x

\* No name leads to an interface that is not registered.
LeadToRegistered == \A name \in DOMAIN name_map : IsRegistered(name_map[name])

RegistryInv ==
  /\ iset \in Seq(Interfaces) /\ ids \in [Interfaces -> Nat \union {NoId}]
  /\ names \in Seq(SomeNames) /\ Len(names) <= Len(iset)
  /\ AtTheirIds /\ FoundByTheirNames /\ LeadToRegistered

\* Making a place for a name gives no id one.
LEMMA PlacesOnly ==
  ASSUME NEW n \in Seq(SomeNames), NEW id \in Nat
  PROVE  /\ Stretched(n, id) \in Seq(SomeNames)
         /\ Len(Stretched(n, id)) <= Len(n) \/ Len(Stretched(n, id)) = id + 1
         /\ \A j \in Nat : NameOf(Stretched(n, id), j) = NameOf(n, j)
<1> DEFINE more == id + 1 - Len(n)
           pad == [i \in 1..more |-> NoName]
<1>1. Len(n) \in Nat /\ more \in Int
  OBVIOUS
<1>2. Stretched(n, id) = n \o pad
  BY DEF Stretched
<1>3. CASE more <= 0
  <2>1. pad = << >>
    BY <1>1, <1>3
  <2>2. Stretched(n, id) = n
    BY <1>2, <2>1, ConcatEmptySeq
  <2> QED BY <2>2
<1>4. CASE more > 0
  <2>1. pad \in Seq(SomeNames) /\ Len(pad) = more
    BY <1>1, <1>4 DEF SomeNames
  <2> DEFINE all == n \o pad
  <2>2. /\ all \in Seq(SomeNames) /\ Len(all) = id + 1
        /\ \A i \in 1..id + 1 : all[i] = IF i <= Len(n) THEN n[i] ELSE NoName
    BY <1>1, <1>4, <2>1
  <2>3. Stretched(n, id) = all
    BY <1>2
  <2> HIDE DEF all
  <2>4. \A j \in Nat : NameOf(all, j) = NameOf(n, j)
    BY <1>1, <1>4, <2>2 DEF NameOf
  <2> QED BY <2>2, <2>3, <2>4
<1> HIDE DEF more, pad
<1> QED BY <1>1, <1>3, <1>4

\* Setting a name changes the name of that id alone.
LEMMA NamingOne ==
  ASSUME NEW n \in Seq(SomeNames), NEW id \in Nat, NEW name \in SomeNames
  PROVE  /\ mcr_reg_set_name(n, id, name) \in Seq(SomeNames)
         /\ Len(mcr_reg_set_name(n, id, name)) <= Len(n) \/ Len(mcr_reg_set_name(n, id, name)) = id + 1
         /\ \A j \in Nat :
              /\ j = id /\ name # NoName => NameOf(mcr_reg_set_name(n, id, name), j) = name
              /\ j # id \/ name = NoName => NameOf(mcr_reg_set_name(n, id, name), j) = NameOf(n, j)
<1>1. CASE name = NoName
  BY <1>1 DEF mcr_reg_set_name, Naming, Stretched
<1>2. CASE name # NoName
  <2> DEFINE more == id + 1 - Len(n)
             pad == [i \in 1..more |-> NoName]
  <2>1. Len(n) \in Nat /\ more \in Int
    OBVIOUS
  <2>2. CASE more <= 0
    <3>1. pad = << >>
      BY <2>1, <2>2
    <3>2. n \o pad = n
      BY <3>1, ConcatEmptySeq
    <3>3. mcr_reg_set_name(n, id, name) = [n EXCEPT ![id + 1] = name]
      BY <1>2, <3>2 DEF mcr_reg_set_name, Naming, Stretched
    <3>4. id + 1 \in 1..Len(n)
      BY <2>1, <2>2
    <3>5. [n EXCEPT ![id + 1] = name] \in Seq(SomeNames) /\ Len([n EXCEPT ![id + 1] = name]) = Len(n)
      BY <3>4
    <3>6. \A j \in Nat : j < Len(n) => [n EXCEPT ![id + 1] = name][j + 1] = IF j = id THEN name ELSE n[j + 1]
      BY <3>4
    <3> QED BY <1>2, <2>1, <2>2, <3>3, <3>4, <3>5, <3>6 DEF NameOf
  <2>3. CASE more > 0
    <3>1. pad \in Seq(SomeNames) /\ Len(pad) = more
      BY <2>1, <2>3 DEF SomeNames
    <3> DEFINE all == n \o pad
    <3>2. /\ all \in Seq(SomeNames) /\ Len(all) = id + 1
          /\ \A i \in 1..id + 1 : all[i] = IF i <= Len(n) THEN n[i] ELSE NoName
      BY <2>1, <2>3, <3>1
    <3>3. mcr_reg_set_name(n, id, name) = [all EXCEPT ![id + 1] = name]
      BY <1>2 DEF mcr_reg_set_name, Naming, Stretched
    <3> HIDE DEF all
    <3>4. [all EXCEPT ![id + 1] = name] \in Seq(SomeNames) /\ Len([all EXCEPT ![id + 1] = name]) = id + 1
      BY <3>2
    <3>5. \A j \in Nat : j < id + 1 => [all EXCEPT ![id + 1] = name][j + 1] =
                           IF j = id THEN name ELSE IF j < Len(n) THEN n[j + 1] ELSE NoName
      BY <2>1, <3>2
    <3>6. Len(n) <= id
      BY <2>1, <2>3
    <3> QED BY <1>2, <2>1, <3>3, <3>4, <3>5, <3>6 DEF NameOf
  <2> QED BY <2>1, <2>2, <2>3
<1> QED BY <1>1, <1>2

\* SetNames gives interface x, which has the id and whose names no other one has, its
\* names, and leaves those of the others.
LEMMA SetNamesKeeps ==
  ASSUME RegistryInv, NEW x \in Interfaces, NEW id \in Nat, id <= Len(iset),
         id < Len(iset) => iset[id + 1] = x,
         NEW name \in SomeNames, NEW added \in SUBSET TypeNames,
         \A m \in added \union {name} : FreeName(m, x),
         SetNames(id, x, name, added)
  PROVE  /\ names' \in Seq(SomeNames)
         /\ Len(names') <= Len(names) \/ Len(names') = id + 1
         /\ \A y \in Interfaces : IsRegistered(y) /\ y # x /\ NameOf(names', ids[y]) # NoName /\ y \notin halfNamed' =>
              NameOf(names', ids[y]) \in DOMAIN name_map' /\ name_map'[NameOf(names', ids[y])] = y
         /\ /\ id < Len(iset) => ids[x] = id
            /\ NameOf(names', id) # NoName /\ x \notin halfNamed'
            => NameOf(names', id) \in DOMAIN name_map' /\ name_map'[NameOf(names', id)] = x
         /\ \A m \in DOMAIN name_map' : name_map'[m] = x \/ (m \in DOMAIN name_map /\ name_map'[m] = name_map[m])
<1> DEFINE given == (added \union {name}) \ {NoName}
<1>1. PICK sets \in BOOLEAN, mapped \in SUBSET given :
       /\ name \in mapped \union {NoName} \/ mapped = {}
       /\ ~ sets => name # NoName /\ mapped = {}
       /\ names' \in IF sets THEN {mcr_reg_set_name(names, id, name)} ELSE {names, Stretched(names, id)}
       /\ name_map' = [m \in mapped \union DOMAIN name_map |-> IF m \in mapped THEN x ELSE name_map[m]]
       /\ halfNamed' = IF ~ sets \/ name = NoName THEN halfNamed
                       ELSE IF name \in mapped THEN halfNamed \ {x} ELSE halfNamed \union {x}
  BY Zenon DEF SetNames
<1>2. \A m \in mapped : m \in DOMAIN name_map => name_map[m] = x
  BY DEF FreeName
<1>3. /\ names \in Seq(SomeNames)
      /\ \A y \in Interfaces : IsRegistered(y) => ids[y] \in Nat /\ ids[y] < Len(iset) /\ iset[ids[y] + 1] = y
      /\ Len(iset) \in Nat
  BY DEF RegistryInv, AtTheirIds
<1>4. /\ names' \in Seq(SomeNames)
      /\ Len(names') <= Len(names) \/ Len(names') = id + 1
      /\ \A j \in Nat : /\ sets /\ j = id /\ name # NoName => NameOf(names', j) = name
                        /\ ~ sets \/ j # id \/ name = NoName => NameOf(names', j) = NameOf(names, j)
  <2>1. CASE sets
    <3>1. PICK n : n = names
      OBVIOUS
    <3>2. PICK r : r = mcr_reg_set_name(n, id, name)
      OBVIOUS
    <3>3. n \in Seq(SomeNames)
      BY <1>3, <3>1
    <3>4. /\ r \in Seq(SomeNames)
          /\ Len(r) <= Len(n) \/ Len(r) = id + 1
      BY <3>2, <3>3, NamingOne
    <3>6. ASSUME NEW k \in Nat
          PROVE  /\ k = id /\ name # NoName => NameOf(r, k) = name
                 /\ k # id \/ name = NoName => NameOf(r, k) = NameOf(n, k)
      BY <3>2, <3>3, NamingOne DEF NameOf
    <3>5. names' = r
      BY <1>1, <2>1, <3>1, <3>2
    <3> QED BY <2>1, <3>1, <3>4, <3>5, <3>6
  <2>2. CASE ~ sets
    <3>1. CASE names' = names
      BY <1>3, <2>2, <3>1
    <3>2. CASE names' = Stretched(names, id)
      BY <1>3, <2>2, <3>2, PlacesOnly
    <3> QED BY <1>1, <2>2, <3>1, <3>2
  <2> QED BY <2>1, <2>2
<1>7. \A m \in DOMAIN name_map' : name_map'[m] = x \/ (m \in DOMAIN name_map /\ name_map'[m] = name_map[m])
  BY <1>1
<1>5. ASSUME NEW y \in Interfaces, IsRegistered(y), y # x, NameOf(names', ids[y]) # NoName, y \notin halfNamed'
      PROVE  NameOf(names', ids[y]) \in DOMAIN name_map' /\ name_map'[NameOf(names', ids[y])] = y
  <2>1. ids[y] # id
    BY <1>3, <1>5
  <2>2. NameOf(names', ids[y]) = NameOf(names, ids[y])
    BY <1>3, <1>4, <1>5, <2>1
  <2>3. y \notin halfNamed
    BY <1>1, <1>5
  <2>4. NameOf(names, ids[y]) \in DOMAIN name_map /\ name_map[NameOf(names, ids[y])] = y
    BY <1>5, <2>2, <2>3 DEF RegistryInv, FoundByTheirNames
  <2>5. NameOf(names, ids[y]) \notin mapped
    BY <1>2, <1>5, <2>4
  <2> QED BY <1>1, <2>2, <2>4, <2>5
<1>6. ASSUME id < Len(iset) => ids[x] = id, NameOf(names', id) # NoName, x \notin halfNamed'
      PROVE  NameOf(names', id) \in DOMAIN name_map' /\ name_map'[NameOf(names', id)] = x
  <2>1. CASE sets /\ name # NoName
    <3>1. NameOf(names', id) = name
      BY <1>4, <2>1
    <3>2. halfNamed' = IF name \in mapped THEN halfNamed \ {x} ELSE halfNamed \union {x}
      BY <1>1, <2>1
    <3>3. name \in mapped
      BY <1>6, <3>2
    <3> QED BY <1>1, <3>1, <3>3
  <2>2. CASE ~ (sets /\ name # NoName)
    <3>1. NameOf(names, id) # NoName /\ NameOf(names', id) = NameOf(names, id) /\ x \notin halfNamed
      BY <1>1, <1>4, <1>6, <2>2
    <3>2. id < Len(iset)
      BY <1>3, <3>1 DEF RegistryInv, NameOf
    <3>3. IsRegistered(x)
      BY <1>3, <3>2 DEF IsRegistered
    <3>4. NameOf(names, id) \in DOMAIN name_map /\ name_map[NameOf(names, id)] = x
      BY <1>6, <3>1, <3>2, <3>3 DEF RegistryInv, FoundByTheirNames
    <3> QED BY <1>1, <3>1, <3>4
  <2> QED BY <2>1, <2>2
<1> QED BY <1>4, <1>5, <1>6, <1>7

LEMMA RegistryBegins == RegistryInit => RegistryInv
BY DEF RegistryInit, RegistryInv, AtTheirIds, FoundByTheirNames, LeadToRegistered, IsRegistered, NameOf, SomeNames

\* A new interface has the id behind the last, which has no name yet.
LEMMA RegisterKeeps == RegistryInv /\ Register => RegistryInv'
<1> SUFFICES ASSUME RegistryInv, Register PROVE RegistryInv'
  OBVIOUS
<1>1. PICK x \in Interfaces, name \in SomeNames, added \in SUBSET TypeNames :
        /\ ~ IsRegistered(x) /\ \A m \in added \union {name} : FreeName(m, x)
        /\ iset' = Append(iset, x)
        /\ ids' = [ids EXCEPT ![x] = Len(iset)]
        /\ SetNames(Len(iset), x, name, added)
  BY DEF Register, SomeNames
<1>2. /\ iset \in Seq(Interfaces) /\ ids \in [Interfaces -> Nat \union {NoId}] /\ Len(iset) \in Nat
      /\ names \in Seq(SomeNames) /\ Len(names) <= Len(iset)
  BY DEF RegistryInv
<1>3. PICK id \in Nat : id = Len(iset)
  BY <1>2
<1>4. /\ iset' \in Seq(Interfaces) /\ Len(iset') = id + 1 /\ iset'[id + 1] = x
      /\ \A i \in 1..id : iset'[i] = iset[i]
      /\ DOMAIN iset = 1..id /\ DOMAIN iset' = 1..id + 1
  BY <1>1, <1>2, <1>3
<1>5. /\ ids' \in [Interfaces -> Nat \union {NoId}] /\ ids'[x] = id
      /\ \A y \in Interfaces : y # x => ids'[y] = ids[y]
  BY <1>1, <1>2, <1>3
<1>6. SetNames(id, x, name, added) /\ id <= Len(iset) /\ ~ (id < Len(iset))
  BY <1>1, <1>3
<1>7. /\ names' \in Seq(SomeNames)
      /\ Len(names') <= Len(names) \/ Len(names') = id + 1
      /\ \A y \in Interfaces : IsRegistered(y) /\ y # x /\ NameOf(names', ids[y]) # NoName /\ y \notin halfNamed' =>
           NameOf(names', ids[y]) \in DOMAIN name_map' /\ name_map'[NameOf(names', ids[y])] = y
      /\ NameOf(names', id) # NoName /\ x \notin halfNamed' =>
           NameOf(names', id) \in DOMAIN name_map' /\ name_map'[NameOf(names', id)] = x
      /\ \A m \in DOMAIN name_map' : name_map'[m] = x \/ (m \in DOMAIN name_map /\ name_map'[m] = name_map[m])
  BY <1>1, <1>6, SetNamesKeeps
<1>8. \A y \in Interfaces : y # x => (IsRegistered(y)' <=> IsRegistered(y))
  BY <1>4 DEF IsRegistered
<1>9. AtTheirIds'
  BY <1>2, <1>3, <1>4, <1>5, <1>8 DEF AtTheirIds, RegistryInv
<1>10. FoundByTheirNames'
  BY <1>5, <1>7, <1>8 DEF FoundByTheirNames
<1>11. Len(names') <= Len(iset')
  BY <1>2, <1>3, <1>4, <1>7
<1>12. LeadToRegistered'
  <2>1. IsRegistered(x)'
    BY <1>4 DEF IsRegistered
  <2>2. \A y : IsRegistered(y) => IsRegistered(y)'
    BY <1>4 DEF IsRegistered
  <2>3. LeadToRegistered
    BY DEF RegistryInv
  <2> QED BY <1>7, <2>1, <2>2, <2>3 DEF LeadToRegistered
<1> QED BY <1>4, <1>5, <1>7, <1>9, <1>10, <1>11, <1>12 DEF RegistryInv

\* Naming an interface that is registered changes no id.
LEMMA NamingKeeps ==
  ASSUME RegistryInv, NEW x \in Interfaces, IsRegistered(x),
         NEW name \in SomeNames, NEW added \in SUBSET TypeNames,
         \A m \in added \union {name} : FreeName(m, x),
         SetNames(ids[x], x, name, added), UNCHANGED << iset, ids >>
  PROVE  RegistryInv'
<1>1. /\ iset \in Seq(Interfaces) /\ Len(iset) \in Nat /\ Len(names) \in Nat /\ Len(names) <= Len(iset)
      /\ ids[x] \in 0..Len(iset) - 1 /\ iset[ids[x] + 1] = x
  BY DEF RegistryInv, AtTheirIds
<1>2. PICK id \in Nat : id = ids[x]
  BY <1>1
<1>3. SetNames(id, x, name, added) /\ id < Len(iset) /\ iset[id + 1] = x
  BY <1>1, <1>2
<1>4. /\ names' \in Seq(SomeNames)
      /\ Len(names') <= Len(names) \/ Len(names') = id + 1
      /\ \A y \in Interfaces : IsRegistered(y) /\ y # x /\ NameOf(names', ids[y]) # NoName /\ y \notin halfNamed' =>
           NameOf(names', ids[y]) \in DOMAIN name_map' /\ name_map'[NameOf(names', ids[y])] = y
      /\ NameOf(names', id) # NoName /\ x \notin halfNamed' =>
           NameOf(names', id) \in DOMAIN name_map' /\ name_map'[NameOf(names', id)] = x
      /\ \A m \in DOMAIN name_map' : name_map'[m] = x \/ (m \in DOMAIN name_map /\ name_map'[m] = name_map[m])
  BY <1>1, <1>2, <1>3, SetNamesKeeps
<1>5. \A y \in Interfaces : IsRegistered(y)' <=> IsRegistered(y)
  BY DEF IsRegistered
<1>6. AtTheirIds'
  BY <1>5 DEF AtTheirIds, RegistryInv
<1>7. FoundByTheirNames'
  BY <1>2, <1>4, <1>5 DEF FoundByTheirNames
<1>8. Len(names') <= Len(iset)
  BY <1>1, <1>3, <1>4
<1>9. LeadToRegistered'
  <2>1. LeadToRegistered
    BY DEF RegistryInv
  <2>2. \A y : IsRegistered(y) => IsRegistered(y)'
    BY DEF IsRegistered
  <2> QED BY <1>4, <2>1, <2>2 DEF LeadToRegistered
<1> QED BY <1>4, <1>6, <1>7, <1>8, <1>9 DEF RegistryInv

LEMMA RegistryGoesOn == RegistryInv /\ [RegistryNext]_registryVars => RegistryInv'
<1> SUFFICES ASSUME RegistryInv, [RegistryNext]_registryVars PROVE RegistryInv'
  OBVIOUS
<1>1. CASE Register
  BY <1>1, RegisterKeeps
<1>2. CASE SetAndAddNames
  <2>1. PICK x \in Interfaces, name \in SomeNames, added \in SUBSET TypeNames :
          /\ IsRegistered(x) /\ \A m \in added \union {name} : FreeName(m, x)
          /\ SetNames(ids[x], x, name, added)
          /\ UNCHANGED << iset, ids >>
    BY <1>2 DEF SetAndAddNames, SomeNames
  <2> QED BY <2>1, NamingKeeps
<1>3. CASE RegRename
  <2>1. PICK old \in DOMAIN name_map, new \in TypeNames :
          /\ IsRegistered(name_map[old]) /\ FreeName(new, name_map[old])
          /\ SetNames(ids[name_map[old]], name_map[old], new, {})
          /\ UNCHANGED << iset, ids >>
    BY <1>3 DEF RegRename
  <2>2. PICK x : x = name_map[old]
    OBVIOUS
  <2>3. x \in Interfaces
    BY <2>1, <2>2 DEF IsRegistered, RegistryInv
  <2>4. /\ IsRegistered(x) /\ FreeName(new, x) /\ SetNames(ids[x], x, new, {})
        /\ new \in SomeNames /\ {} \in SUBSET TypeNames /\ {} \union {new} = {new}
    BY <2>1, <2>2 DEF SomeNames
  <2> QED BY <2>1, <2>3, <2>4, NamingKeeps
<1>4. CASE RegClear
  BY <1>4 DEF RegClear, RegistryInv, AtTheirIds, FoundByTheirNames, LeadToRegistered, IsRegistered, NameOf, SomeNames
<1>5. CASE UNCHANGED registryVars
  BY <1>5 DEF registryVars, RegistryInv, AtTheirIds, FoundByTheirNames, LeadToRegistered, IsRegistered, NameOf
<1> QED BY <1>1, <1>2, <1>3, <1>4, <1>5 DEF RegistryNext

LEMMA RegistryStays == RegistrySpec => []IdsAndNamesAgree
<1>1. RegistryInv => IdsAndNamesAgree
  <2> SUFFICES ASSUME RegistryInv PROVE IdsAndNamesAgree
    OBVIOUS
  <2>1. ASSUME NEW x \in Interfaces, IsRegistered(x)
        PROVE  mcr_reg_from_id(ids[x]) = x
    BY <2>1 DEF RegistryInv, AtTheirIds, mcr_reg_from_id
  <2>2. ASSUME NEW x \in Interfaces, IsRegistered(x), CanBeNamed(ids[x])
        PROVE  mcr_reg_name(ids[x]) = NameOf(names, ids[x])
    BY <2>2 DEF RegistryInv, AtTheirIds, CanBeNamed, mcr_reg_name, NameOf
  <2> QED BY <2>1, <2>2 DEF RegistryInv, FoundByTheirNames, LeadToRegistered, IdsAndNamesAgree
<1> QED BY <1>1, RegistryBegins, RegistryGoesOn, PTL DEF RegistrySpec

\* Names are mapped to interfaces, and interfaces are half named.
MapsNames == DOMAIN name_map \subseteq TypeNames /\ halfNamed \subseteq Interfaces

LEMMA SetNamesTyped ==
  ASSUME MapsNames, NEW x \in Interfaces, NEW id, NEW name \in SomeNames, NEW added \in SUBSET TypeNames,
         SetNames(id, x, name, added)
  PROVE  MapsNames'
<1> DEFINE given == (added \union {name}) \ {NoName}
<1>1. PICK sets \in BOOLEAN, mapped \in SUBSET given :
       /\ name \in mapped \union {NoName} \/ mapped = {}
       /\ ~ sets => name # NoName /\ mapped = {}
       /\ names' \in IF sets THEN {mcr_reg_set_name(names, id, name)} ELSE {names, Stretched(names, id)}
       /\ name_map' = [m \in mapped \union DOMAIN name_map |-> IF m \in mapped THEN x ELSE name_map[m]]
       /\ halfNamed' = IF ~ sets \/ name = NoName THEN halfNamed
                       ELSE IF name \in mapped THEN halfNamed \ {x} ELSE halfNamed \union {x}
  BY Zenon DEF SetNames
<1>2. mapped \subseteq TypeNames
  BY DEF SomeNames
<1>3. DOMAIN name_map' = mapped \union DOMAIN name_map
  BY <1>1
<1>4. halfNamed' \subseteq halfNamed \union {x}
  BY <1>1
<1> QED BY <1>2, <1>3, <1>4 DEF MapsNames

LEMMA RegistryTyped == RegistrySpec => []RegistryTypeOK
<1>1. RegistryInit => MapsNames
  BY DEF RegistryInit, MapsNames
<1>2. RegistryInv /\ MapsNames /\ [RegistryNext]_registryVars => MapsNames'
  <2> SUFFICES ASSUME RegistryInv, MapsNames, [RegistryNext]_registryVars PROVE MapsNames'
    OBVIOUS
  <2>1. CASE Register
    <3>1. PICK x \in Interfaces, name \in SomeNames, added \in SUBSET TypeNames : SetNames(Len(iset), x, name, added)
      BY <2>1 DEF Register, SomeNames
    <3> QED BY <3>1, SetNamesTyped
  <2>2. CASE SetAndAddNames
    <3>1. PICK x \in Interfaces, name \in SomeNames, added \in SUBSET TypeNames : SetNames(ids[x], x, name, added)
      BY <2>2 DEF SetAndAddNames, SomeNames
    <3> QED BY <3>1, SetNamesTyped
  <2>3. CASE RegRename
    <3>1. PICK old \in DOMAIN name_map, new \in TypeNames :
            IsRegistered(name_map[old]) /\ SetNames(ids[name_map[old]], name_map[old], new, {})
      BY <2>3 DEF RegRename
    <3>2. PICK x : x = name_map[old]
      OBVIOUS
    <3>3. x \in Interfaces /\ new \in SomeNames /\ {} \in SUBSET TypeNames
      BY <3>1, <3>2 DEF IsRegistered, RegistryInv, SomeNames
    <3>4. SetNames(ids[x], x, new, {})
      BY <3>1, <3>2
    <3> QED BY <3>3, <3>4, SetNamesTyped
  <2>4. CASE RegClear
    BY <2>4 DEF RegClear, MapsNames
  <2>5. CASE UNCHANGED registryVars
    BY <2>5 DEF registryVars, MapsNames
  <2> QED BY <2>1, <2>2, <2>3, <2>4, <2>5 DEF RegistryNext
<1>3. RegistryInv /\ MapsNames => RegistryTypeOK
  BY DEF RegistryInv, MapsNames, RegistryTypeOK, SomeNames
<1> QED BY <1>1, <1>2, <1>3, RegistryBegins, RegistryGoesOn, PTL DEF RegistrySpec

-----------------------------------------------------------------------------
(* The data of instances: calls are followed from world to world           *)
(* (Instances!World).                                                      *)

Fields == [interface : IFaces \union {Null}, data : Objects \union {Null}, heap : BOOLEAN]
States == [is : {"absent", "raw", "live"}, of : IFaces \union {Null}]

Worlds ==
  [insts : [Insts -> Fields], objects : [Objects -> States],
   half : SUBSET Objects, misused : SUBSET Objects, failed : BOOLEAN]

Holds(w, i, o) == w.insts[i].data = o

\* An object that exists has one holder, and one that does not has none.
OneHolder(w) ==
  /\ \A i, j \in Insts, o \in Objects : Holds(w, i, o) /\ Holds(w, j, o) => i = j
  /\ \A o \in Objects : w.objects[o] # Absent <=> \E i \in Insts : Holds(w, i, o)

\* Data was made by the interface of its instance, completely unless its init has failed.
Ready(w, i) ==
  LET o == w.insts[i].data
  IN o # Null => /\ w.objects[o].of = w.insts[i].interface
                 /\ w.objects[o].is # "live" => o \in w.half /\ w.objects[o].of # Null

Good(w) == w \in Worlds /\ OneHolder(w) /\ w.misused = {} /\ \A i \in Insts : Ready(w, i)

\* Instance i is given a new object.
Given(w, i, o, state, heap) == WithData([w EXCEPT !.objects[o] = Made(w.insts[i].interface, state)], i, o, heap)

\* What a call on i leaves of the others.
Others(w, v, i) ==
  /\ \A j \in Insts \ {i} : v.insts[j] = w.insts[j]
  /\ \A o \in Objects : w.objects[o] = Absent => v.objects[o] = Absent

LEMMA FreedGood ==
  ASSUME NEW w \in Worlds, OneHolder(w), w.misused = {}, NEW i \in Insts,
         \A j \in Insts \ {i} : Ready(w, j),
         \/ w.insts[i].data = Null
         \/ w.objects[w.insts[i].data].of = Null
         \/ w.objects[w.insts[i].data].is = "raw"
  PROVE  LET v == DataFreed(w, i)
         IN Good(v) /\ Others(w, v, i) /\ v.insts[i].data = Null /\ v.insts[i].interface = w.insts[i].interface
                    /\ v.failed = w.failed
<1> DEFINE o == w.insts[i].data
           v == DataFreed(w, i)
<1>1. CASE o = Null
  <2>1. v = w
    BY <1>1 DEF DataFreed
  <2>2. Ready(w, i)
    BY <1>1 DEF Ready
  <2> QED BY <1>1, <2>1, <2>2 DEF Good, Others
<1>2. CASE o # Null
  <2>1. o \in Objects
    BY <1>2 DEF Worlds, Fields, States
  <2>2. w.objects[o] # Absent
    BY <2>1 DEF OneHolder, Holds
  <2>3. w.objects[o].of # Null => Called(w, w.objects[o].of, o, "raw") = w
    BY <1>2, <2>1 DEF Called, Made, Worlds, Fields, States
  <2>4. v = [w EXCEPT !.objects[o] = Absent, !.half = @ \ {o},
                  !.insts[i] = [w.insts[i] EXCEPT !.data = Null, !.heap = FALSE]]
    BY <1>2, <2>1, <2>3 DEF DataFreed, WithData, Worlds
  <2>5. /\ v \in Worlds /\ v.misused = {} /\ v.failed = w.failed
        /\ v.insts[i].data = Null /\ v.insts[i].interface = w.insts[i].interface
        /\ \A j \in Insts \ {i} : v.insts[j] = w.insts[j]
        /\ \A p \in Objects \ {o} : v.objects[p] = w.objects[p]
        /\ v.objects[o] = Absent /\ v.half = w.half \ {o}
    <3>1. /\ v.objects = [w.objects EXCEPT ![o] = Absent] /\ v.half = w.half \ {o}
          /\ v.misused = {} /\ v.failed = w.failed
          /\ v.insts = [w.insts EXCEPT ![i] = [w.insts[i] EXCEPT !.data = Null, !.heap = FALSE]]
      <4>1. /\ w.insts[i] \in Fields
            /\ DOMAIN w.insts = Insts /\ DOMAIN w = {"insts", "objects", "half", "misused", "failed"}
        BY DEF Worlds
      <4>2. v.objects = [w.objects EXCEPT ![o] = Absent] /\ v.half = w.half \ {o}
        BY <2>4, <4>1
      <4>3. v.misused = {} /\ v.failed = w.failed
        BY <2>4, <4>1
      <4>4. v.insts = [w.insts EXCEPT ![i] = [w.insts[i] EXCEPT !.data = Null, !.heap = FALSE]]
        BY <2>4, <4>1
      <4> QED BY <4>2, <4>3, <4>4
    <3>2. v.objects \in [Objects -> States]
      BY <2>1, <3>1 DEF Worlds, Absent, States
    <3>3. v.insts \in [Insts -> Fields]
      <4>1. [w.insts[i] EXCEPT !.data = Null, !.heap = FALSE]
              \in Fields
        BY DEF Worlds, Fields
      <4> QED BY <3>1, <4>1 DEF Worlds
    <3>4. v \in Worlds
      BY <2>4, <3>1, <3>2, <3>3 DEF Worlds
    <3> HIDE DEF v
    <3> QED BY <2>1, <3>1, <3>4 DEF Worlds
  <2>6. OneHolder(v)
    BY <2>1, <2>2, <2>5, InstancesAssumption DEF OneHolder, Holds
  <2>7. ASSUME NEW j \in Insts, v.insts[j].data # Null PROVE Ready(v, j)
    <3>1. j # i /\ v.insts[j] = w.insts[j] /\ w.insts[j].data \in Objects
      BY <2>5, <2>7 DEF Worlds, Fields, States
    <3>2. w.insts[j].data # o
      BY <2>1, <3>1 DEF OneHolder, Holds
    <3>3. Ready(w, j)
      BY <3>1
    <3> HIDE DEF v
    <3> QED BY <2>5, <3>1, <3>2, <3>3 DEF Ready
  <2>8. \A j \in Insts : Ready(v, j)
    BY <2>7 DEF Ready
  <2> QED BY <2>5, <2>6, <2>8 DEF Good, Others
<1> QED BY <1>1, <1>2

\* The function that destroys data is called on what it may be called on.
LEMMA DestroyedInTurn ==
  ASSUME NEW w, Good(w), NEW i \in Insts, w.insts[i].interface # Null, NEW o, o = w.insts[i].data, o # Null
  PROVE  Called(w, w.insts[i].interface, o, "live") = w
<1>1. o \in Objects /\ Ready(w, i)
  BY DEF Good, Worlds, Fields, States
<1>2. w.objects[o] \in States
  BY <1>1 DEF Good, Worlds, States
<1> QED BY <1>1, <1>2 DEF States, Ready, Called, Made

\* What destroying data leaves: the same, or an object that is raw.
LEMMA DestroyedRaw ==
  ASSUME NEW w, Good(w), ~ w.failed, NEW i \in Insts, w.insts[i].interface # Null, NEW fails,
         NEW v, v = Deinitialized(w, i, fails)
  PROVE  \/ Good(v) /\ v = [w EXCEPT !.failed = TRUE]
         \/ Good(v) /\ v = w /\ w.insts[i].data = Null
         \/ /\ w.insts[i].data # Null /\ ~ v.failed
            /\ v = [w EXCEPT !.objects[w.insts[i].data] = [is |-> "raw", of |-> w.insts[i].interface]]
            /\ v \in Worlds /\ OneHolder(v)
            /\ \A j \in Insts \ {i} : Ready(v, j)
<1> DEFINE o == w.insts[i].data
<1>1. CASE o = Null
  BY <1>1 DEF Deinitialized
<1>2. CASE o # Null
  <2>1. o \in Objects /\ w.objects[o] # Absent /\ w \in Worlds
    BY <1>2 DEF Good, Worlds, OneHolder, Holds, Fields, States
  <2>2. Called(w, w.insts[i].interface, o, "live") = w
    BY <1>2, DestroyedInTurn
  <2>3. CASE "deinit" \in fails
    <3>1. v = [w EXCEPT !.failed = TRUE]
      BY <1>2, <2>2, <2>3 DEF Deinitialized, Failing
    <3>2. /\ v \in Worlds /\ v.insts = w.insts /\ v.half = w.half /\ v.objects = w.objects
          /\ v.misused = w.misused
      BY <2>1, <3>1 DEF Worlds
    <3> QED BY <3>1, <3>2 DEF Good, OneHolder, Holds, Ready
  <2>4. CASE "deinit" \notin fails
    <3>1. v = [w EXCEPT !.objects[o] = [is |-> "raw", of |-> w.insts[i].interface]]
      BY <1>2, <2>2, <2>4 DEF Deinitialized, Made
    <3>2. v \in Worlds /\ v.insts = w.insts /\ v.half = w.half /\ v.failed = w.failed
      <4>1. /\ v.objects = [w.objects EXCEPT ![o] = [is |-> "raw", of |-> w.insts[i].interface]]
            /\ v.insts = w.insts /\ v.half = w.half /\ v.failed = w.failed /\ v.misused = w.misused
        BY <2>1, <3>1 DEF Worlds
      <4>2. v.objects \in [Objects -> States]
        BY <2>1, <4>1 DEF Worlds, States, Fields
      <4> QED BY <2>1, <3>1, <4>1, <4>2 DEF Worlds
    <3>3. v.objects[o] # Absent /\ \A p \in Objects \ {o} : v.objects[p] = w.objects[p]
      BY <2>1, <3>1 DEF Worlds, Absent, States
    <3>4. OneHolder(v)
      BY <2>1, <3>2, <3>3 DEF Good, OneHolder, Holds
    <3>5. ASSUME NEW j \in Insts \ {i}, w.insts[j].data # Null PROVE Ready(v, j)
      <4>1. w.insts[j].data \in Objects \ {o} /\ Ready(w, j)
        BY <2>1, <3>5 DEF Good, Worlds, OneHolder, Holds, Fields, States
      <4> QED BY <3>2, <3>3, <4>1 DEF Ready
    <3>6. \A j \in Insts \ {i} : Ready(v, j)
      BY <3>2, <3>5 DEF Ready
    <3> QED BY <1>2, <3>1, <3>2, <3>4, <3>6
  <2> QED BY <2>3, <2>4
<1> QED BY <1>1, <1>2

\* Destroying what an instance has, and forgetting it.
LEMMA DeinitGood ==
  ASSUME NEW w, Good(w), ~ w.failed, NEW i \in Insts, NEW fails, NEW v, v = mcr_Instance_deinit(w, i, fails)
  PROVE  /\ Good(v) /\ Others(w, v, i) /\ v.insts[i].interface = w.insts[i].interface
         /\ ~ v.failed => v.insts[i].data = Null
<1>1. CASE w.insts[i].interface = Null
  <2>1. v = DataFreed(w, i)
    BY <1>1 DEF mcr_Instance_deinit
  <2>2. w \in Worlds /\ OneHolder(w) /\ w.misused = {} /\ \A j \in Insts : Ready(w, j)
    BY DEF Good
  <2>3. w.insts[i].data = Null \/ w.objects[w.insts[i].data].of = Null
    BY <1>1, <2>2 DEF Ready
  <2> QED BY <2>1, <2>2, <2>3, FreedGood
<1>2. CASE w.insts[i].interface # Null
  <2> DEFINE u == Deinitialized(w, i, fails)
  <2>1. v = IF u.failed THEN u ELSE DataFreed(u, i)
    BY <1>2 DEF mcr_Instance_deinit, Later
  <2> HIDE DEF u
  <2>2. CASE Good(u) /\ u = [w EXCEPT !.failed = TRUE]
    <3>1. u.failed /\ u.insts = w.insts /\ u.objects = w.objects
      BY <2>2 DEF Good, Worlds
    <3> QED BY <2>1, <2>2, <3>1 DEF Others
  <2>3. CASE Good(u) /\ u = w /\ w.insts[i].data = Null
    <3>1. v = DataFreed(w, i) /\ w \in Worlds /\ OneHolder(w) /\ w.misused = {} /\ \A j \in Insts : Ready(w, j)
      BY <2>1, <2>3 DEF Good
    <3> QED BY <2>3, <3>1, FreedGood
  <2>4. CASE /\ w.insts[i].data # Null /\ ~ u.failed
             /\ u = [w EXCEPT !.objects[w.insts[i].data] = [is |-> "raw", of |-> w.insts[i].interface]]
             /\ u \in Worlds /\ OneHolder(u)
             /\ \A j \in Insts \ {i} : Ready(u, j)
    <3> DEFINE o == w.insts[i].data
    <3>1. w \in Worlds /\ o \in Objects /\ w.objects[o] # Absent
      BY <2>4 DEF Good, Worlds, Fields, OneHolder, Holds
    <3>2. u.insts = w.insts /\ u.misused = {} /\ u.objects[o].is = "raw"
      BY <2>4, <3>1 DEF Good, Worlds, States
    <3>3. \A p \in Objects : w.objects[p] = Absent => u.objects[p] = Absent
      BY <2>4, <3>1 DEF Worlds
    <3>4. LET x == DataFreed(u, i)
          IN Good(x) /\ Others(u, x, i) /\ x.insts[i].data = Null /\ x.insts[i].interface = u.insts[i].interface
      BY <2>4, <3>1, <3>2, FreedGood
    <3> QED BY <2>1, <2>4, <3>2, <3>3, <3>4 DEF Others
  <2> QED BY <1>2, <2>2, <2>3, <2>4, DestroyedRaw DEF u
<1> QED BY <1>1, <1>2

\* The interface of an instance without data may be any.
LEMMA InterfaceGood ==
  ASSUME NEW w, Good(w), ~ w.failed, NEW i \in Insts, NEW f \in IFaces \union {Null}, NEW fails,
         NEW v, v = mcr_Instance_set_interface(w, i, f, fails)
  PROVE  /\ Good(v) /\ Others(w, v, i)
         /\ ~ v.failed => v.insts[i].data = Null /\ v.insts[i].interface = f
<1> DEFINE u == mcr_Instance_deinit(w, i, fails)
<1>1. v = IF u.failed THEN u ELSE [u EXCEPT !.insts[i].interface = f]
  BY DEF mcr_Instance_set_interface, Later
<1>2. Good(u) /\ Others(w, u, i) /\ (~ u.failed => u.insts[i].data = Null)
  BY DeinitGood
<1> HIDE DEF u
<1>3. CASE u.failed
  BY <1>1, <1>2, <1>3
<1>4. CASE ~ u.failed
  <2>1. u \in Worlds /\ u.insts[i] \in Fields
    BY <1>2 DEF Good, Worlds
  <2>2. /\ v.insts = [u.insts EXCEPT ![i] = [u.insts[i] EXCEPT !.interface = f]]
        /\ v.objects = u.objects /\ v.half = u.half /\ v.misused = u.misused /\ v.failed = u.failed
    BY <1>1, <1>4, <2>1 DEF Worlds
  <2>3. [u.insts[i] EXCEPT !.interface = f] \in Fields
    BY <2>1 DEF Fields
  <2>4. v \in Worlds
    BY <1>1, <1>4, <2>1, <2>2, <2>3 DEF Worlds
  <2>5. /\ \A j \in Insts : v.insts[j].data = u.insts[j].data
        /\ \A j \in Insts \ {i} : v.insts[j] = u.insts[j]
        /\ v.insts[i].interface = f /\ v.insts[i].data = Null
    BY <1>2, <1>4, <2>1, <2>2 DEF Worlds, Fields
  <2>6. OneHolder(v)
    BY <1>2, <2>2, <2>5 DEF Good, OneHolder, Holds
  <2>7. \A j \in Insts : Ready(v, j)
    BY <1>2, <2>2, <2>5 DEF Good, Ready
  <2> QED BY <1>2, <2>2, <2>4, <2>5, <2>6, <2>7 DEF Good, Others
<1> QED BY <1>3, <1>4

\* A new object given to an instance without data.
LEMMA GivenGood ==
  ASSUME NEW w, Good(w), NEW i \in Insts, w.insts[i].data = Null, NEW o \in Objects, w.objects[o] = Absent,
         NEW state \in {"raw", "live"}, NEW heap \in BOOLEAN,
         NEW v, v = Given(w, i, o, state, heap)
  PROVE  /\ v \in Worlds /\ OneHolder(v) /\ v.misused = {} /\ v.failed = w.failed
         /\ v.insts[i].data = o /\ v.insts[i].interface = w.insts[i].interface
         /\ v.objects[o] = Made(w.insts[i].interface, state)
         /\ \A j \in Insts \ {i} : v.insts[j] = w.insts[j] /\ Ready(v, j)
         /\ \A p \in Objects \ {o} : v.objects[p] = w.objects[p]
<1> DEFINE f == w.insts[i].interface
<1>1. w \in Worlds /\ w.insts[i] \in Fields /\ w.misused = {} /\ OneHolder(w) /\ o # Null
  BY InstancesAssumption DEF Good, Worlds
<1>2. Made(f, state) \in States /\ Made(f, state) # Absent
  BY <1>1 DEF Made, States, Absent, Fields
<1>3. /\ v.insts = [w.insts EXCEPT ![i] = [w.insts[i] EXCEPT !.data = o, !.heap = heap]]
      /\ v.objects = [w.objects EXCEPT ![o] = Made(f, state)]
      /\ v.half = w.half /\ v.misused = w.misused /\ v.failed = w.failed
  BY <1>1 DEF Given, WithData, Worlds
<1>4. [w.insts[i] EXCEPT !.data = o, !.heap = heap] \in Fields
  BY <1>1 DEF Fields
<1>5. v \in Worlds
  <2>1. v.insts \in [Insts -> Fields]
    BY <1>1, <1>3, <1>4 DEF Worlds
  <2>2. v.objects \in [Objects -> States]
    BY <1>1, <1>2, <1>3 DEF Worlds
  <2> QED BY <1>1, <1>3, <2>1, <2>2 DEF Worlds, Given, WithData
<1>6. /\ v.insts[i].data = o /\ v.insts[i].interface = f
      /\ \A j \in Insts \ {i} : v.insts[j] = w.insts[j]
      /\ v.objects[o] = Made(f, state)
      /\ \A p \in Objects \ {o} : v.objects[p] = w.objects[p]
      /\ v.half = w.half
  <2>1. DOMAIN w.insts = Insts /\ DOMAIN w.objects = Objects
    BY <1>1 DEF Worlds
  <2>2. v.insts[i] = [w.insts[i] EXCEPT !.data = o, !.heap = heap] /\ \A j \in Insts \ {i} : v.insts[j] = w.insts[j]
    BY <1>3, <2>1
  <2>3. v.objects[o] = Made(f, state) /\ \A p \in Objects \ {o} : v.objects[p] = w.objects[p]
    BY <1>3, <2>1
  <2>4. v.insts[i].data = o /\ v.insts[i].interface = f
    BY <1>1, <2>2 DEF Fields
  <2> QED BY <1>3, <2>2, <2>3, <2>4
<1>7. \A j \in Insts \ {i} : w.insts[j].data # o
  BY <1>1 DEF OneHolder, Holds
<1>8. OneHolder(v)
  BY <1>1, <1>2, <1>6, <1>7, InstancesAssumption DEF OneHolder, Holds
<1>9. ASSUME NEW j \in Insts \ {i}, w.insts[j].data # Null PROVE Ready(v, j)
  <2>1. w.insts[j].data \in Objects \ {o} /\ Ready(w, j)
    BY <1>1, <1>7, <1>9 DEF Good, Worlds, Fields
  <2> HIDE DEF f
  <2> QED BY <1>6, <2>1 DEF Ready
<1>10. \A j \in Insts \ {i} : Ready(v, j)
  BY <1>6, <1>9 DEF Ready
<1> QED BY <1>1, <1>3, <1>5, <1>6, <1>8, <1>10

\* Init of raw data, which may fail.
LEMMA InitializedGood ==
  ASSUME NEW w \in Worlds, OneHolder(w), w.misused = {}, ~ w.failed, NEW i \in Insts, NEW fails,
         w.insts[i].data # Null, w.insts[i].interface # Null,
         w.objects[w.insts[i].data] = Made(w.insts[i].interface, "raw"),
         \A j \in Insts \ {i} : Ready(w, j),
         NEW v, v = Initialized(w, i, fails)
  PROVE  Good(v) /\ v.insts = w.insts
<1> DEFINE o == w.insts[i].data
           f == w.insts[i].interface
<1>1. o \in Objects /\ f \in IFaces \union {Null}
  BY DEF Worlds, Fields
<1>2. Called(w, f, o, "raw") = w
  BY DEF Called
<1>3. v = IF "init" \in fails THEN [w EXCEPT !.half = @ \union {o}, !.failed = TRUE]
          ELSE [w EXCEPT !.objects[o] = Made(f, "live"), !.half = @ \ {o}]
  BY <1>2 DEF Initialized, Failing, Worlds
<1>4. CASE "init" \in fails
  <2>1. v = [w EXCEPT !.half = @ \union {o}, !.failed = TRUE]
    BY <1>3, <1>4
  <2>2. /\ v.insts = w.insts /\ v.objects = w.objects /\ v.half = w.half \union {o} /\ v.misused = {}
        /\ v.failed = TRUE
    BY <2>1 DEF Worlds
  <2>3. v \in Worlds
    BY <1>1, <2>1, <2>2 DEF Worlds
  <2>4. Ready(v, i)
    BY <2>2 DEF Ready, Made
  <2>5. \A j \in Insts \ {i} : Ready(v, j)
    BY <2>2 DEF Ready
  <2> QED BY <2>2, <2>3, <2>4, <2>5 DEF Good, OneHolder, Holds
<1>5. CASE "init" \notin fails
  <2>1. Made(f, "live") \in States /\ Made(f, "live") # Absent /\ Made(f, "raw") # Absent
    BY <1>1 DEF Made, States, Absent
  <2>2. /\ v.insts = w.insts /\ v.objects = [w.objects EXCEPT ![o] = Made(f, "live")] /\ v.half = w.half \ {o}
        /\ v.misused = {} /\ v.failed = w.failed
    BY <1>3, <1>5 DEF Worlds
  <2>3. v.objects \in [Objects -> States]
    BY <2>1, <2>2 DEF Worlds
  <2>4. v \in Worlds
    BY <1>3, <1>5, <2>2, <2>3 DEF Worlds
  <2>5. /\ v.objects[o] = Made(f, "live")
        /\ \A p \in Objects \ {o} : v.objects[p] = w.objects[p]
    BY <1>1, <2>2 DEF Worlds
  <2>6. OneHolder(v)
    BY <1>1, <2>1, <2>2, <2>5 DEF OneHolder, Holds
  <2>7. Ready(v, i)
    BY <2>2, <2>5 DEF Ready, Made
  <2>8. ASSUME NEW j \in Insts \ {i}, w.insts[j].data # Null PROVE Ready(v, j)
    <3>1. w.insts[j].data \in Objects \ {o} /\ Ready(w, j)
      BY <1>1, <2>8 DEF Worlds, Fields, OneHolder, Holds
    <3> QED BY <2>2, <2>5, <3>1 DEF Ready
  <2>9. \A j \in Insts : Ready(v, j)
    BY <2>2, <2>7, <2>8 DEF Ready
  <2> QED BY <2>2, <2>4, <2>6, <2>9 DEF Good
<1> QED BY <1>4, <1>5

LEMMA FailingGood ==
  ASSUME NEW w, Good(w) PROVE Good(Failing(w))
<1>1. /\ Failing(w) \in Worlds /\ Failing(w).insts = w.insts /\ Failing(w).objects = w.objects
      /\ Failing(w).half = w.half /\ Failing(w).misused = w.misused
  BY DEF Good, Worlds, Failing
<1> QED BY <1>1 DEF Good, OneHolder, Holds, Ready

\* mcr_iinit of an instance without data
LEMMA IinitGood ==
  ASSUME NEW w, Good(w), ~ w.failed, NEW i \in Insts, w.insts[i].data = Null, w.insts[i].interface # Null,
         NEW o \in Objects, w.objects[o] = Absent, NEW fails, NEW v, v = mcr_iinit(w, i, o, fails)
  PROVE  Good(v)
<1>1. CASE "malloc" \in fails
  BY <1>1, FailingGood DEF mcr_iinit
<1>2. CASE "malloc" \notin fails
  <2>0. PICK heap \in BOOLEAN : v = Initialized(Given(w, i, o, "raw", heap), i, fails)
    BY <1>2, Zenon DEF mcr_iinit, Given
  <2>1. PICK u : u = Given(w, i, o, "raw", heap) /\ v = Initialized(u, i, fails)
    BY <2>0, Zenon
  <2>2. /\ u \in Worlds /\ OneHolder(u) /\ u.misused = {} /\ u.failed = w.failed
        /\ u.insts[i].data = o /\ u.insts[i].interface = w.insts[i].interface
        /\ u.objects[o] = Made(w.insts[i].interface, "raw")
        /\ \A j \in Insts \ {i} : Ready(u, j)
    BY <2>1, GivenGood
  <2>3. o # Null
    BY InstancesAssumption
  <2> QED BY <2>1, <2>2, <2>3, InitializedGood
<1> QED BY <1>1, <1>2

\* What mcr_Instance_set_data gives an instance is its data only.
LEMMA SetDataGood ==
  ASSUME NEW w, Good(w), ~ w.failed, NEW i \in Insts, NEW o \in Objects \union {Null},
         o # Null => w.objects[o] = Absent, NEW heap \in BOOLEAN, NEW fails,
         NEW v, v = mcr_Instance_set_data(w, i, o, heap, fails)
  PROVE  Good(v)
<1>1. CASE w.insts[i].data = o
  BY <1>1 DEF mcr_Instance_set_data
<1>2. CASE w.insts[i].data # o
  <2>1. PICK u : u = mcr_Instance_deinit(w, i, fails)
    OBVIOUS
  <2>2. v = IF u.failed THEN u ELSE IF o = Null THEN u ELSE Given(u, i, o, "live", heap)
    BY <1>2, <2>1, Zenon DEF mcr_Instance_set_data, Later, Given
  <2>3. Good(u) /\ Others(w, u, i) /\ (~ u.failed => u.insts[i].data = Null)
    BY <2>1, DeinitGood
  <2>4. CASE u.failed \/ o = Null
    BY <2>2, <2>3, <2>4
  <2>5. CASE ~ u.failed /\ o # Null
    <3>1. v = Given(u, i, o, "live", heap) /\ o \in Objects /\ u.objects[o] = Absent /\ u.insts[i].data = Null
      BY <2>2, <2>3, <2>5 DEF Others
    <3>2. /\ v \in Worlds /\ OneHolder(v) /\ v.misused = {}
          /\ v.insts[i].data = o /\ v.insts[i].interface = u.insts[i].interface
          /\ v.objects[o] = Made(u.insts[i].interface, "live")
          /\ \A j \in Insts \ {i} : Ready(v, j)
      BY <2>3, <3>1, GivenGood
    <3>3. Ready(v, i)
      BY <3>2 DEF Ready, Made
    <3> QED BY <3>2, <3>3 DEF Good
  <2> QED BY <2>4, <2>5
<1> QED BY <1>1, <1>2

\* mcr_Instance_set_interface and then mcr_Instance_set_data
LEMMA SetAllGood ==
  ASSUME NEW w, Good(w), ~ w.failed, NEW i \in Insts, NEW f \in IFaces \union {Null},
         NEW o \in Objects, w.objects[o] = Absent, NEW heap \in BOOLEAN, NEW fails,
         NEW u, u = mcr_Instance_set_interface(w, i, f, fails),
         NEW v, v = IF u.failed THEN u ELSE mcr_Instance_set_data(u, i, o, heap, fails)
  PROVE  Good(v)
<1>1. Good(u) /\ Others(w, u, i)
  BY InterfaceGood
<1>2. CASE u.failed
  BY <1>1, <1>2
<1>3. CASE ~ u.failed
  <2>1. v = mcr_Instance_set_data(u, i, o, heap, fails) /\ u.objects[o] = Absent
    BY <1>1, <1>3 DEF Others
  <2> QED BY <1>1, <1>3, <2>1, SetDataGood
<1> QED BY <1>2, <1>3

\* A copy holds data of its own, complete or not.
LEMMA CopyGood ==
  ASSUME NEW w, Good(w), ~ w.failed, NEW i \in Insts, NEW j \in Insts,
         NEW o \in Objects, w.objects[o] = Absent, NEW fails,
         NEW v, v = mcr_Instance_copy(w, i, j, o, fails)
  PROVE  Good(v)
<1>1. CASE i = j
  BY <1>1 DEF mcr_Instance_copy
<1>2. CASE i # j /\ w.insts[j].interface = Null
  <2>1. v = mcr_Instance_deinit(w, i, fails)
    BY <1>2 DEF mcr_Instance_copy
  <2> QED BY <2>1, DeinitGood
<1>3. CASE i # j /\ w.insts[j].interface # Null
  <2>1. PICK f : f = w.insts[j].interface
    OBVIOUS
  <2>2. PICK u : u = mcr_Instance_set_interface(w, i, f, fails)
    OBVIOUS
  <2>3. PICK x : x = mcr_iinit(u, i, o, fails)
    OBVIOUS
  <2>4. \/ v = u
        \/ ~ u.failed /\ (v = x \/ v = Failing(x))
    BY <1>3, <2>1, <2>2, <2>3, Zenon DEF mcr_Instance_copy, Later
  <2>5. f \in IFaces \union {Null} /\ f # Null
    BY <1>3, <2>1 DEF Good, Worlds, Fields
  <2>6. /\ Good(u) /\ Others(w, u, i)
        /\ ~ u.failed => u.insts[i].data = Null /\ u.insts[i].interface = f
    BY <2>2, <2>5, InterfaceGood
  <2>7. u.objects[o] = Absent
    BY <2>6 DEF Others
  <2>8. ASSUME ~ u.failed PROVE Good(x)
    BY <2>3, <2>5, <2>6, <2>7, <2>8, IinitGood
  <2> QED BY <2>4, <2>6, <2>8, FailingGood
<1> QED BY <1>1, <1>2, <1>3

\* An instance that is reset has its data anew.
LEMMA ResetGood ==
  ASSUME NEW w, Good(w), ~ w.failed, NEW i \in Insts,
         NEW o \in Objects, w.objects[o] = Absent, NEW fails,
         NEW v, v = mcr_Instance_reset(w, i, o, fails)
  PROVE  Good(v)
<1>1. CASE w.insts[i].interface = Null
  <2>1. v = DataFreed(w, i)
    BY <1>1 DEF mcr_Instance_reset
  <2>2. w \in Worlds /\ OneHolder(w) /\ w.misused = {} /\ \A j \in Insts : Ready(w, j)
    BY DEF Good
  <2>3. w.insts[i].data = Null \/ w.objects[w.insts[i].data].of = Null
    BY <1>1, <2>2 DEF Ready
  <2> QED BY <2>1, <2>2, <2>3, FreedGood
<1>2. CASE w.insts[i].interface # Null /\ w.insts[i].data = Null
  <2>1. v = mcr_iinit(w, i, o, fails)
    BY <1>2 DEF mcr_Instance_reset
  <2> QED BY <1>2, <2>1, IinitGood
<1>3. CASE w.insts[i].interface # Null /\ w.insts[i].data # Null
  <2>1. PICK u : u = Deinitialized(w, i, fails)
    OBVIOUS
  <2>2. v = IF u.failed THEN u ELSE Initialized(u, i, fails)
    BY <1>3, <2>1 DEF mcr_Instance_reset, Later
  <2>3. CASE Good(u) /\ u = [w EXCEPT !.failed = TRUE]
    <3>1. u.failed
      BY <2>3 DEF Good, Worlds
    <3> QED BY <2>2, <2>3, <3>1
  <2>4. CASE /\ ~ u.failed
             /\ u = [w EXCEPT !.objects[w.insts[i].data] = [is |-> "raw", of |-> w.insts[i].interface]]
             /\ u \in Worlds /\ OneHolder(u)
             /\ \A j \in Insts \ {i} : Ready(u, j)
    <3>1. w \in Worlds /\ w.insts[i].data \in Objects /\ w.misused = {}
      BY <1>3 DEF Good, Worlds, Fields
    <3>2. u.insts = w.insts /\ u.misused = {} /\ u.objects[w.insts[i].data] = Made(w.insts[i].interface, "raw")
      BY <2>4, <3>1 DEF Worlds, Made
    <3>3. /\ u.insts[i].data # Null /\ u.insts[i].interface # Null
          /\ u.objects[u.insts[i].data] = Made(u.insts[i].interface, "raw")
      BY <1>3, <3>2
    <3>4. v = Initialized(u, i, fails)
      BY <2>2, <2>4
    <3>5. u \in Worlds /\ OneHolder(u) /\ u.misused = {} /\ ~ u.failed /\ \A j \in Insts \ {i} : Ready(u, j)
      BY <2>4, <3>2
    <3> QED BY <3>3, <3>4, <3>5, InitializedGood
  <2> QED BY <1>3, <2>1, <2>3, <2>4, DestroyedRaw
<1> QED BY <1>1, <1>2, <1>3

-----------------------------------------------------------------------------
(* The invariant *)

IInv == Good(World)

\* What a call leaves is the next state.
LEMMA BecomesGood ==
  ASSUME NEW v, Good(v), Becomes(v) PROVE IInv'
<1>1. World' = [insts |-> v.insts, objects |-> v.objects, half |-> v.half, misused |-> v.misused, failed |-> FALSE]
  BY DEF Becomes, World
<1>2. PICK u : u = [insts |-> v.insts, objects |-> v.objects, half |-> v.half, misused |-> v.misused, failed |-> FALSE]
  OBVIOUS
<1>3. u \in Worlds /\ u.insts = v.insts /\ u.objects = v.objects /\ u.half = v.half /\ u.misused = v.misused
  BY <1>2 DEF Good, Worlds
<1>4. Good(u)
  BY <1>3 DEF Good, OneHolder, Holds, Ready
<1>5. Good(World')
  BY <1>1, <1>2, <1>4
<1> QED BY <1>5 DEF IInv

\* At first nothing exists.
LEMMA InitGood == InstancesInit => IInv
<1> SUFFICES ASSUME InstancesInit PROVE Good(World)
  BY DEF IInv
<1>1. World \in Worlds
  BY DEF InstancesInit, World, Worlds, Fields, States, Absent
<1>2. OneHolder(World)
  BY InstancesAssumption DEF InstancesInit, World, OneHolder, Holds
<1>3. \A i \in Insts : Ready(World, i)
  BY DEF InstancesInit, World, Ready
<1> QED BY <1>1, <1>2, <1>3 DEF InstancesInit, World, Good

\* Every call keeps what every instance and every object must be.
LEMMA NextGood == IInv /\ [InstancesNext]_instVars => IInv'
<1> SUFFICES ASSUME IInv, [InstancesNext]_instVars PROVE IInv'
  OBVIOUS
<1>1. Good(World) /\ ~ World.failed /\ World.objects = objects
  BY DEF IInv, World
<1>2. CASE InstanceDeinit
  <2>1. PICK i \in Insts, fails \in SUBSET Callbacks : Becomes(mcr_Instance_deinit(World, i, fails))
    BY <1>2, Zenon DEF InstanceDeinit
  <2>2. PICK v : v = mcr_Instance_deinit(World, i, fails) /\ Becomes(v)
    BY <2>1, Zenon
  <2> QED BY <1>1, <2>1, <2>2, DeinitGood, BecomesGood
<1>3. CASE SetInterface
  <2>1. PICK i \in Insts, f \in IFaces \union {Null}, fails \in SUBSET Callbacks :
          Becomes(mcr_Instance_set_interface(World, i, f, fails))
    BY <1>3, Zenon DEF SetInterface
  <2>2. PICK v : v = mcr_Instance_set_interface(World, i, f, fails) /\ Becomes(v)
    BY <2>1, Zenon
  <2>3. Good(v)
    BY <1>1, <2>1, <2>2, InterfaceGood
  <2> QED BY <2>1, <2>2, <2>3, BecomesGood
<1>4. CASE SetData
  <2>1. PICK i \in Insts, o \in Unused \union {Null}, heap \in BOOLEAN, fails \in SUBSET Callbacks :
          Becomes(mcr_Instance_set_data(World, i, o, heap, fails))
    BY <1>4, Zenon DEF SetData
  <2>2. PICK v : v = mcr_Instance_set_data(World, i, o, heap, fails) /\ Becomes(v)
    BY <2>1, Zenon
  <2>3. o \in Objects \union {Null} /\ (o # Null => World.objects[o] = Absent)
    BY <1>1, <2>1, <2>2 DEF Unused
  <2>4. Good(v)
    BY <1>1, <2>1, <2>2, <2>3, SetDataGood
  <2> QED BY <2>1, <2>2, <2>4, BecomesGood
<1>5. CASE SetAll
  <2>1. PICK i \in Insts, f \in IFaces \union {Null}, o \in Unused, heap \in BOOLEAN, fails \in SUBSET Callbacks :
          Becomes(IF mcr_Instance_set_interface(World, i, f, fails).failed
                  THEN mcr_Instance_set_interface(World, i, f, fails)
                  ELSE mcr_Instance_set_data(mcr_Instance_set_interface(World, i, f, fails), i, o, heap, fails))
    BY <1>5, Zenon DEF SetAll, Later
  <2>2. PICK u : u = mcr_Instance_set_interface(World, i, f, fails)
    OBVIOUS
  <2>3. PICK v : v = (IF u.failed THEN u ELSE mcr_Instance_set_data(u, i, o, heap, fails)) /\ Becomes(v)
    BY <2>1, <2>2, Zenon
  <2>4. o \in Objects /\ World.objects[o] = Absent
    BY <1>1, <2>1, <2>2, <2>3 DEF Unused
  <2>5. Good(v)
    BY <1>1, <2>1, <2>2, <2>3, <2>4, SetAllGood
  <2> QED BY <2>1, <2>2, <2>3, <2>5, BecomesGood
<1>6. CASE InstanceCopy
  <2>1. PICK i \in Insts, j \in Insts, o \in Unused, fails \in SUBSET Callbacks :
          Becomes(mcr_Instance_copy(World, i, j, o, fails))
    BY <1>6, Zenon DEF InstanceCopy
  <2>2. PICK v : v = mcr_Instance_copy(World, i, j, o, fails) /\ Becomes(v)
    BY <2>1, Zenon
  <2>3. o \in Objects /\ World.objects[o] = Absent
    BY <1>1, <2>1, <2>2 DEF Unused
  <2>4. Good(v)
    BY <1>1, <2>1, <2>2, <2>3, CopyGood
  <2> QED BY <2>1, <2>2, <2>4, BecomesGood
<1>7. CASE InstanceReset
  <2>1. PICK i \in Insts, o \in Unused, fails \in SUBSET Callbacks : Becomes(mcr_Instance_reset(World, i, o, fails))
    BY <1>7, Zenon DEF InstanceReset
  <2>2. PICK v : v = mcr_Instance_reset(World, i, o, fails) /\ Becomes(v)
    BY <2>1, Zenon
  <2>3. o \in Objects /\ World.objects[o] = Absent
    BY <1>1, <2>1, <2>2 DEF Unused
  <2>4. Good(v)
    BY <1>1, <2>1, <2>2, <2>3, ResetGood
  <2> QED BY <2>1, <2>2, <2>4, BecomesGood
<1>8. CASE UNCHANGED instVars
  <2>1. World' = World
    BY <1>8 DEF instVars, World
  <2> QED BY <1>1, <2>1 DEF IInv
<1> QED BY <1>2, <1>3, <1>4, <1>5, <1>6, <1>7, <1>8 DEF InstancesNext

\* The invariant is what the runs check, counted.
LEMMA GoodOwns == IInv => OwnsData
<1> SUFFICES ASSUME IInv PROVE OwnsData
  OBVIOUS
<1>1. /\ misused = {}
      /\ \A i, j \in Insts, o \in Objects : insts[i].data = o /\ insts[j].data = o => i = j
      /\ \A o \in Objects : objects[o] # Absent <=> \E i \in Insts : insts[i].data = o
  BY DEF IInv, Good, World, OneHolder, Holds
<1>2. ASSUME NEW o \in Objects
      PROVE  Cardinality({i \in Insts : insts[i].data = o}) = IF objects[o] = Absent THEN 0 ELSE 1
  <2>1. CASE objects[o] = Absent
    <3>1. {i \in Insts : insts[i].data = o} = {}
      BY <1>1, <2>1
    <3> QED BY <2>1, <3>1, FS_EmptySet
  <2>2. CASE objects[o] # Absent
    <3>1. PICK i \in Insts : insts[i].data = o
      BY <1>1, <2>2
    <3>2. {j \in Insts : insts[j].data = o} = {i}
      BY <1>1, <3>1
    <3> QED BY <2>2, <3>2, FS_Singleton
  <2> QED BY <2>1, <2>2
<1> QED BY <1>1, <1>2 DEF OwnsData, CalledInTurn, HeldByOne

LEMMA DataStays == InstancesSpec => []OwnsData
BY InitGood, NextGood, GoodOwns, PTL DEF InstancesSpec

\* What instances and objects are.
LEMMA DataTyped == InstancesSpec => []InstancesTypeOK
<1>1. IInv => InstancesTypeOK
  BY DEF IInv, Good, Worlds, World, Fields, States, InstancesTypeOK
<1> QED BY <1>1, InitGood, NextGood, PTL DEF InstancesSpec

-----------------------------------------------------------------------------
(* Names of codes: a table is good up to the codes whose naming is in      *)
(* doubt, and each call leads from good tables to good ones.               *)

SomeLabels == Labels \union {NoText}
Leadings == UNION {[D -> Codes] : D \in SUBSET Labels}
NameTables == [names : Seq(SomeLabels), codes : Leadings]

\* The name that code c has leads to it.
Named(t, c) == t.names[c + 1] # NoText => t.names[c + 1] \in DOMAIN t.codes /\ t.codes[t.names[c + 1]] = c

GoodTable(t, doubt) ==
  /\ t \in NameTables /\ Len(t.names) <= Cardinality(Codes)
  /\ \A n \in DOMAIN t.codes : t.codes[n] < Len(t.names)
  /\ \A c \in Codes \ doubt : c < Len(t.names) => Named(t, c)

\* The text leads to no code but i.
LeadsOnlyTo(t, text, i) == text \in DOMAIN t.codes => t.codes[text] = i

LEMMA CodesAre == Codes \subseteq Nat /\ Cardinality(Codes) \in Nat /\ \A c : c \in Codes <=> c \in Nat /\ c < Cardinality(Codes)
BY CodesAssumption

LEMMA LeadingsAre ==
  ASSUME NEW f
  PROVE  f \in Leadings <=> f \in [DOMAIN f -> Codes] /\ DOMAIN f \subseteq Labels
<1>1. ASSUME f \in Leadings PROVE f \in [DOMAIN f -> Codes] /\ DOMAIN f \subseteq Labels
  BY <1>1 DEF Leadings
<1>2. ASSUME f \in [DOMAIN f -> Codes], DOMAIN f \subseteq Labels PROVE f \in Leadings
  <2>1. DOMAIN f \in SUBSET Labels
    BY <1>2
  <2> QED BY <1>2, <2>1 DEF Leadings
<1> QED BY <1>1, <1>2

LeadsAlso(f, text, i) == [n \in DOMAIN f \union {text} |-> IF n = text THEN i ELSE f[n]]

LEMMA LeadsToo ==
  ASSUME NEW f \in Leadings, NEW text \in Labels, NEW i \in Codes
  PROVE  LET g == LeadsAlso(f, text, i)
         IN /\ g \in Leadings /\ DOMAIN g = {text} \union DOMAIN f
            /\ g[text] = i /\ \A n \in DOMAIN f : n # text => g[n] = f[n]
<1> DEFINE g == LeadsAlso(f, text, i)
<1>1. f \in [DOMAIN f -> Codes] /\ DOMAIN f \subseteq Labels
  BY LeadingsAre
<1>2. /\ g \in [{text} \union DOMAIN f -> Codes]
      /\ g[text] = i /\ \A n \in DOMAIN f : n # text => g[n] = f[n]
  BY <1>1 DEF LeadsAlso
<1> HIDE DEF g
<1>3. DOMAIN g = {text} \union DOMAIN f
  BY <1>2
<1>4. g \in Leadings
  BY <1>1, <1>2, <1>3, LeadingsAre
<1> QED BY <1>2, <1>3, <1>4 DEF g

LEMMA LeadsLess ==
  ASSUME NEW f \in Leadings, NEW D, D \subseteq DOMAIN f
  PROVE  Restrict(f, D) \in Leadings /\ DOMAIN Restrict(f, D) = D /\ \A n \in D : Restrict(f, D)[n] = f[n]
<1>1. f \in [DOMAIN f -> Codes] /\ DOMAIN f \subseteq Labels
  BY LeadingsAre
<1> DEFINE g == Restrict(f, D)
<1>2. g \in [D -> Codes] /\ \A n \in D : g[n] = f[n]
  BY <1>1 DEF Restrict
<1> HIDE DEF g
<1>3. DOMAIN g = D
  BY <1>2
<1>4. g \in Leadings
  BY <1>1, <1>2, <1>3, LeadingsAre
<1> QED BY <1>2, <1>3, <1>4 DEF g

LEMMA MaxOfZero ==
  ASSUME NEW k \in Int
  PROVE  Max({0, k}) = IF k > 0 THEN k ELSE 0
<1>1. \E x \in {0, k} : \A y \in {0, k} : x >= y
  OBVIOUS
<1>2. Max({0, k}) \in {0, k} /\ \A y \in {0, k} : Max({0, k}) >= y
  BY <1>1 DEF Max
<1> QED BY <1>2

\* The names up to the one of code i are made, and that one is set.
NamesWith(labels, i, text) == [Reaching(labels, i + 1) EXCEPT ![i + 1] = text]
Blanks(n) == [k \in 1..n |-> NoText]

LEMMA ReachingIs ==
  ASSUME NEW labels, NEW k
  PROVE  Reaching(labels, k) = labels \o Blanks(Max({0, k - Len(labels)}))
BY Zenon DEF Reaching, Blanks

LEMMA NamesReach ==
  ASSUME NEW labels \in Seq(SomeLabels), NEW i \in Nat, NEW text \in SomeLabels
  PROVE  LET u == NamesWith(labels, i, text)
         IN /\ u \in Seq(SomeLabels)
            /\ Len(u) = (IF i < Len(labels) THEN Len(labels) ELSE i + 1)
            /\ u[i + 1] = text
            /\ \A c \in 0..Len(u) - 1 : c # i => u[c + 1] = IF c < Len(labels) THEN labels[c + 1] ELSE NoText
<1> DEFINE n == IF i < Len(labels) THEN 0 ELSE (i + 1) - Len(labels)
           m == Max({0, (i + 1) - Len(labels)})
           r == Blanks(m)
           v == labels \o r
           u == NamesWith(labels, i, text)
<1>1. Len(labels) \in Nat /\ n \in Nat /\ m = n
  BY MaxOfZero
<1>3. Reaching(labels, i + 1) = v
  BY ReachingIs
<1> HIDE DEF m
<1>2. r \in Seq(SomeLabels) /\ Len(r) = m /\ \A k \in 1..m : r[k] = NoText
  BY <1>1 DEF SomeLabels, Blanks
<1> HIDE DEF r
<1>4. /\ v \in Seq(SomeLabels) /\ Len(v) = Len(labels) + n
      /\ \A k \in 1..Len(v) : v[k] = IF k <= Len(labels) THEN labels[k] ELSE NoText
  <2>1. v \in Seq(SomeLabels) /\ Len(v) = Len(labels) + n
    BY <1>1, <1>2
  <2>2. ASSUME NEW k \in 1..Len(v)
        PROVE  v[k] = IF k <= Len(labels) THEN labels[k] ELSE NoText
    BY <1>1, <1>2, <2>1
  <2> QED BY <2>1, <2>2
<1> HIDE DEF v
<1>5. Len(v) = (IF i < Len(labels) THEN Len(labels) ELSE i + 1) /\ i + 1 \in 1..Len(v)
  BY <1>1, <1>4
<1> HIDE DEF n
<1>6. u = [v EXCEPT ![i + 1] = text]
  BY <1>3 DEF NamesWith
<1> HIDE DEF u
<1>7. u \in Seq(SomeLabels) /\ Len(u) = Len(v) /\ u[i + 1] = text /\ \A k \in 1..Len(v) : k # i + 1 => u[k] = v[k]
  BY <1>4, <1>5, <1>6
<1>8. ASSUME NEW c \in 0..Len(u) - 1, c # i
      PROVE  u[c + 1] = IF c < Len(labels) THEN labels[c + 1] ELSE NoText
  <2>1. c + 1 \in 1..Len(v) /\ c + 1 # i + 1 /\ c \in Nat
    BY <1>1, <1>4, <1>7, <1>8
  <2> QED BY <1>1, <1>4, <1>7, <2>1
<1> QED BY <1>5, <1>7, <1>8 DEF u

-----------------------------------------------------------------------------

TableOf(labels, codes) == [names |-> labels, codes |-> codes]
Results == [table : NameTables, failed : BOOLEAN]

LEMMA TableParts ==
  ASSUME NEW t \in NameTables
  PROVE  /\ t.names \in Seq(SomeLabels) /\ t.codes \in Leadings /\ t = TableOf(t.names, t.codes)
         /\ Len(t.names) \in Nat /\ CodeCount(t) = Len(t.names)
BY DEF NameTables, TableOf, CodeCount

LEMMA TablesOf ==
  ASSUME NEW labels \in Seq(SomeLabels), NEW codes \in Leadings
  PROVE  LET t == TableOf(labels, codes) IN t \in NameTables /\ t.names = labels /\ t.codes = codes
BY DEF NameTables, TableOf

\* Mapping fails before it changed anything, fails when it set the name, or succeeds.
LEMMA MapCases ==
  ASSUME NEW t \in NameTables, NEW i \in Codes, NEW text \in Labels, NEW granted
  PROVE  LET r     == mcr_StringIndex_map(t, i, text, granted)
             labels == NamesWith(t.names, i, text)
         IN \/ r = Breaks(t) /\ "set" \notin granted
            \/ r = Breaks(TableOf(labels, t.codes)) /\ "map" \notin granted
            \/ r = Succeeds(TableOf(labels, LeadsAlso(t.codes, text, i)))
<1> DEFINE labels == NamesWith(t.names, i, text)
           u == [t EXCEPT !.names = [Reaching(@, i + 1) EXCEPT ![i + 1] = text]]
           w == [u EXCEPT !.codes = [n \in DOMAIN u.codes \union {text} |-> IF n = text THEN i ELSE u.codes[n]]]
<1>1. t = TableOf(t.names, t.codes)
  BY TableParts
<1>2. u = TableOf(labels, t.codes)
  BY <1>1 DEF TableOf, NamesWith
<1>3. mcr_StringIndex_map(t, i, text, granted) =
        IF i >= CodeCount(t) /\ "set" \notin granted THEN Breaks(t)
        ELSE IF text \in DOMAIN u.codes \/ "map" \in granted THEN Succeeds(w) ELSE Breaks(u)
  BY DEF mcr_StringIndex_map, MapName
<1> HIDE DEF u
<1>4. w = TableOf(labels, LeadsAlso(t.codes, text, i))
  <2>1. u.codes = t.codes /\ w = [u EXCEPT !.codes = LeadsAlso(u.codes, text, i)]
    BY <1>2 DEF TableOf, LeadsAlso
  <2> QED BY <1>2, <2>1 DEF TableOf
<1> HIDE DEF w, labels
<1> QED BY <1>2, <1>3, <1>4 DEF labels

NameMapped(r, t, D, i, k, text, granted) ==
  /\ r \in Results
  /\ r.failed => GoodTable(r.table, D \union {i}) /\ r.table.codes = t.codes /\ ~ NamingSteps \subseteq granted
  /\ ~ r.failed => /\ GoodTable(r.table, (D \ {i}) \union ({k} \ {i}))
                   /\ r.table.names = NamesWith(t.names, i, text)
                   /\ r.table.codes = LeadsAlso(t.codes, text, i)

\* A code that is given a name that no other has, or that code k has, is not in doubt, but k is.
LEMMA MapIs ==
  ASSUME NEW D \in SUBSET Codes, NEW t, GoodTable(t, D), NEW i \in Codes, NEW k \in Codes, NEW text \in Labels,
         LeadsOnlyTo(t, text, k), NEW granted
  PROVE  NameMapped(mcr_StringIndex_map(t, i, text, granted), t, D, i, k, text, granted)
<1> DEFINE labels == NamesWith(t.names, i, text)
           codes == LeadsAlso(t.codes, text, i)
           setOnly  == TableOf(labels, t.codes)
           whole == TableOf(labels, codes)
<1>1. t \in NameTables /\ t.names \in Seq(SomeLabels) /\ t.codes \in Leadings /\ Len(t.names) \in Nat
  BY TableParts DEF GoodTable
<1>2. i \in Nat /\ i < Cardinality(Codes) /\ text \in SomeLabels /\ Codes \subseteq Nat /\ Cardinality(Codes) \in Nat
  BY CodesAre DEF SomeLabels
<1>3. /\ labels \in Seq(SomeLabels) /\ labels[i + 1] = text
      /\ Len(labels) = (IF i < Len(t.names) THEN Len(t.names) ELSE i + 1)
      /\ \A c \in 0..Len(labels) - 1 : c # i => labels[c + 1] = IF c < Len(t.names) THEN t.names[c + 1] ELSE NoText
  BY <1>1, <1>2, NamesReach
<1>4. /\ codes \in Leadings /\ DOMAIN codes = {text} \union DOMAIN t.codes
      /\ codes[text] = i /\ \A n \in DOMAIN t.codes : n # text => codes[n] = t.codes[n]
  BY <1>1, LeadsToo
<1> HIDE DEF labels, codes
<1>5. /\ setOnly \in NameTables /\ setOnly.names = labels /\ setOnly.codes = t.codes
      /\ whole \in NameTables /\ whole.names = labels /\ whole.codes = codes
  BY <1>1, <1>3, <1>4, TablesOf
<1> HIDE DEF setOnly, whole
<1>6. /\ Len(t.names) <= Cardinality(Codes) /\ \A n \in DOMAIN t.codes : t.codes[n] < Len(t.names)
      /\ \A c \in Codes \ D : c < Len(t.names) => Named(t, c)
  BY DEF GoodTable
<1>61. /\ \A n \in DOMAIN t.codes : t.codes[n] \in Codes /\ t.codes[n] \in Nat
  BY <1>1, <1>2, LeadingsAre
<1>7. Len(labels) <= Cardinality(Codes) /\ Len(labels) \in Nat /\ Len(labels) >= Len(t.names) /\ i < Len(labels)
  BY <1>1, <1>2, <1>3, <1>6
<1>8. ASSUME NEW c \in Codes, c < Len(labels), c # i
      PROVE  labels[c + 1] = IF c < Len(t.names) THEN t.names[c + 1] ELSE NoText
  BY <1>2, <1>3, <1>7, <1>8
<1>9. GoodTable(setOnly, D \union {i})
  <2>1. ASSUME NEW c \in Codes \ (D \union {i}), c < Len(labels) PROVE Named(setOnly, c)
    BY <1>5, <1>6, <1>8, <2>1 DEF Named
  <2>2. \A n \in DOMAIN setOnly.codes : setOnly.codes[n] < Len(setOnly.names)
    BY <1>1, <1>5, <1>6, <1>61, <1>7
  <2> QED BY <1>5, <1>7, <2>1, <2>2 DEF GoodTable
<1>10. GoodTable(whole, (D \ {i}) \union ({k} \ {i}))
  <2>1. ASSUME NEW c \in Codes \ ((D \ {i}) \union ({k} \ {i})), c < Len(labels) PROVE Named(whole, c)
    <3>1. CASE c = i
      BY <1>3, <1>4, <1>5, <3>1 DEF Named
    <3>2. CASE c # i
      <4>1. c \notin D /\ c # k
        BY <2>1, <3>2
      <4>2. c < Len(t.names) => Named(t, c)
        BY <1>6, <4>1
      <4> QED BY <1>4, <1>5, <1>8, <2>1, <3>2, <4>1, <4>2 DEF Named, LeadsOnlyTo
    <3> QED BY <3>1, <3>2
  <2>2. \A n \in DOMAIN whole.codes : whole.codes[n] < Len(whole.names)
    <3>1. ASSUME NEW n \in DOMAIN codes PROVE codes[n] < Len(labels)
      BY <1>1, <1>4, <1>6, <1>61, <1>7
    <3> QED BY <1>5, <3>1
  <2> QED BY <1>5, <1>7, <2>1, <2>2 DEF GoodTable
<1>11. GoodTable(t, D \union {i})
  BY DEF GoodTable
<1> DEFINE r == mcr_StringIndex_map(t, i, text, granted)
<1>12. \/ r = Breaks(t) /\ "set" \notin granted
       \/ r = Breaks(setOnly) /\ "map" \notin granted
       \/ r = Succeeds(whole)
  BY <1>1, MapCases DEF setOnly, whole, labels, codes
<1> HIDE DEF r
<1>13. CASE r = Breaks(t) /\ "set" \notin granted
  BY <1>1, <1>11, <1>13 DEF Breaks, Results, NamingSteps, NameMapped, r
<1>14. CASE r = Breaks(setOnly) /\ "map" \notin granted
  BY <1>5, <1>9, <1>14 DEF Breaks, Results, NamingSteps, NameMapped, r
<1>15. CASE r = Succeeds(whole)
  BY <1>5, <1>10, <1>15 DEF Succeeds, Results, NameMapped, r, labels, codes
<1> QED BY <1>12, <1>13, <1>14, <1>15

\* A further name of a code that is in the table leaves all names in it as good as they were.
LEMMA MapNameIs ==
  ASSUME NEW D \in SUBSET Codes, NEW t, GoodTable(t, D), NEW i \in Codes, i < Len(t.names),
         NEW text \in Labels, LeadsOnlyTo(t, text, i), NEW granted
  PROVE  LET r == MapName(t, i, text, granted)
         IN /\ r \in Results /\ GoodTable(r.table, D) /\ r.table.names = t.names
            /\ r.table.codes = t.codes \/ r.table.codes = LeadsAlso(t.codes, text, i)
<1> DEFINE codes == LeadsAlso(t.codes, text, i)
           whole == TableOf(t.names, codes)
           r     == MapName(t, i, text, granted)
<1>1. /\ t \in NameTables /\ t.names \in Seq(SomeLabels) /\ t.codes \in Leadings /\ Len(t.names) \in Nat
      /\ t = TableOf(t.names, t.codes)
  BY TableParts DEF GoodTable
<1>2. r = Breaks(t) \/ r = Succeeds(whole)
  <2>1. [t EXCEPT !.codes = codes] = whole
    BY <1>1 DEF TableOf
  <2> QED BY <2>1 DEF MapName, LeadsAlso
<1>3. /\ codes \in Leadings /\ DOMAIN codes = {text} \union DOMAIN t.codes
      /\ codes[text] = i /\ \A n \in DOMAIN t.codes : n # text => codes[n] = t.codes[n]
  BY <1>1, LeadsToo
<1> HIDE DEF codes
<1>4. whole \in NameTables /\ whole.names = t.names /\ whole.codes = codes
  BY <1>1, <1>3, TablesOf
<1> HIDE DEF whole, r
<1>5. /\ Len(t.names) <= Cardinality(Codes) /\ \A n \in DOMAIN t.codes : t.codes[n] < Len(t.names)
      /\ \A c \in Codes \ D : c < Len(t.names) => Named(t, c)
  BY DEF GoodTable
<1>6. GoodTable(whole, D)
  <2>1. ASSUME NEW c \in Codes \ D, c < Len(t.names) PROVE Named(whole, c)
    <3>1. Named(t, c)
      BY <1>5, <2>1
    <3> QED BY <1>3, <1>4, <3>1 DEF Named, LeadsOnlyTo
  <2>2. \A n \in DOMAIN whole.codes : whole.codes[n] < Len(whole.names)
    <3>1. ASSUME NEW n \in DOMAIN codes PROVE codes[n] < Len(t.names)
      BY <1>3, <1>5
    <3> QED BY <1>4, <3>1
  <2> QED BY <1>4, <1>5, <2>1, <2>2 DEF GoodTable
<1>7. CASE r = Breaks(t)
  BY <1>1, <1>7 DEF Breaks, Results, r
<1>8. CASE r = Succeeds(whole)
  BY <1>4, <1>6, <1>8 DEF Succeeds, Results, r, codes
<1> QED BY <1>2, <1>7, <1>8

\* Code i loses its name; names lead where they led, or nowhere; texts that no code has.
LosesName(t, u, i) ==
  /\ Len(u.names) = Len(t.names)
  /\ \A c \in Codes : c < Len(t.names) => u.names[c + 1] = IF c = i THEN NoText ELSE t.names[c + 1]
LeadsFewer(t, u) == DOMAIN u.codes \subseteq DOMAIN t.codes /\ \A n \in DOMAIN u.codes : u.codes[n] = t.codes[n]
NotAmong(t, texts, D) == \A c \in Codes \ D : c < Len(t.names) => t.names[c + 1] \notin texts

LEMMA DoubtMore ==
  ASSUME NEW t, NEW D, NEW E, GoodTable(t, D), D \subseteq E
  PROVE  GoodTable(t, E)
BY DEF GoodTable

\* Texts are forgotten that no code has but those in doubt.
LEMMA ForgetIs ==
  ASSUME NEW D, NEW E, NEW t, GoodTable(t, D), NEW texts, D \subseteq E, NotAmong(t, texts, E)
  PROVE  LET u == Forget(t, texts)
         IN GoodTable(u, E) /\ u.names = t.names /\ LeadsFewer(t, u) /\ DOMAIN u.codes = DOMAIN t.codes \ texts
<1> DEFINE d     == DOMAIN t.codes \ texts
           codes == Restrict(t.codes, d)
           u     == TableOf(t.names, codes)
<1>1. /\ t \in NameTables /\ t.names \in Seq(SomeLabels) /\ t.codes \in Leadings
      /\ t = TableOf(t.names, t.codes)
  BY TableParts DEF GoodTable
<1>2. Forget(t, texts) = u
  BY <1>1 DEF Forget, TableOf
<1>3. codes \in Leadings /\ DOMAIN codes = d /\ \A n \in d : codes[n] = t.codes[n]
  BY <1>1, LeadsLess
<1> HIDE DEF codes
<1>4. u \in NameTables /\ u.names = t.names /\ u.codes = codes
  BY <1>1, <1>3, TablesOf
<1> HIDE DEF u
<1>5. ASSUME NEW c \in Codes \ E, c < Len(t.names) PROVE Named(u, c)
  <2>1. Named(t, c) /\ t.names[c + 1] \notin texts
    BY <1>5 DEF GoodTable, NotAmong
  <2> QED BY <1>3, <1>4, <2>1 DEF Named
<1>6. \A n \in DOMAIN u.codes : u.codes[n] < Len(u.names)
  BY <1>3, <1>4 DEF GoodTable
<1>7. GoodTable(u, E)
  BY <1>4, <1>5, <1>6 DEF GoodTable
<1> QED BY <1>2, <1>3, <1>4, <1>7 DEF LeadsFewer

LEMMA UnnamedIs ==
  ASSUME NEW D, NEW t, NEW i \in Codes, GoodTable(t, D \union {i})
  PROVE  LET u == Unnamed(t, i)
         IN GoodTable(u, D) /\ u.codes = t.codes /\ LosesName(t, u, i)
<1> DEFINE labels == [t.names EXCEPT ![i + 1] = NoText]
           u     == Unnamed(t, i)
<1>1. /\ t \in NameTables /\ t.names \in Seq(SomeLabels) /\ t.codes \in Leadings
      /\ t = TableOf(t.names, t.codes) /\ Len(t.names) \in Nat /\ CodeCount(t) = Len(t.names)
      /\ \A c \in Codes : c \in Nat
  BY TableParts, CodesAre DEF GoodTable
<1>2. CASE i < Len(t.names)
  <2>1. labels \in Seq(SomeLabels) /\ Len(labels) = Len(t.names) /\ \A k \in 1..Len(t.names) : labels[k] = IF k = i + 1 THEN NoText ELSE t.names[k]
    BY <1>1, <1>2 DEF SomeLabels
  <2>2. u = TableOf(labels, t.codes)
    BY <1>1, <1>2 DEF Unnamed, TableOf
  <2> HIDE DEF labels, u
  <2>3. u \in NameTables /\ u.names = labels /\ u.codes = t.codes
    BY <1>1, <2>1, <2>2, TablesOf
  <2>4. ASSUME NEW c \in Codes, c < Len(t.names)
        PROVE  u.names[c + 1] = IF c = i THEN NoText ELSE t.names[c + 1]
    <3>1. c + 1 \in 1..Len(t.names) /\ (c + 1 = i + 1 <=> c = i)
      BY <1>1, <2>4
    <3> QED BY <2>1, <2>3, <3>1
  <2>5. ASSUME NEW c \in Codes \ D, c < Len(t.names) PROVE Named(u, c)
    <3>1. c # i => Named(t, c)
      BY <2>5 DEF GoodTable
    <3> QED BY <2>3, <2>4, <2>5, <3>1 DEF Named
  <2>6. GoodTable(u, D)
    BY <2>1, <2>3, <2>5 DEF GoodTable
  <2> QED BY <2>1, <2>3, <2>4, <2>6 DEF u, LosesName
<1>3. CASE ~ i < Len(t.names)
  <2>1. u = t
    BY <1>1, <1>3 DEF Unnamed
  <2>2. GoodTable(t, D)
    BY <1>3 DEF GoodTable
  <2> QED BY <1>1, <1>3, <2>1, <2>2 DEF LosesName
<1> QED BY <1>2, <1>3

\* Taking the name of a code away leaves it no longer in doubt.
LEMMA UnmapIs ==
  ASSUME NEW D, NEW t, NEW i \in Codes, NEW E, E = D \ {i}, GoodTable(t, D), NEW all \in BOOLEAN
  PROVE  LET u == mcr_StringIndex_unmap(t, i, all)
         IN GoodTable(u, E) /\ LosesName(t, u, i) /\ LeadsFewer(t, u)
<1> DEFINE F == E \union {i}
           texts == Leading(t, i)
           v == Forget(t, texts)
<1>1. t \in NameTables /\ t.names \in Seq(SomeLabels) /\ t.codes \in Leadings /\ Len(t.names) \in Nat
  BY TableParts DEF GoodTable
<1>2. GoodTable(t, F)
  BY DoubtMore
<1>3. NotAmong(t, texts, F)
  <2>1. ASSUME NEW c \in Codes \ F, c < Len(t.names) PROVE t.names[c + 1] \notin texts
    <3>1. Named(t, c) /\ c # i
      BY <1>2, <2>1 DEF GoodTable
    <3>2. NoText \notin DOMAIN t.codes
      BY <1>1, LeadingsAre, LabelsAssumption
    <3> QED BY <3>1, <3>2 DEF Named, Leading
  <2> QED BY <2>1 DEF NotAmong
<1>4. GoodTable(v, F) /\ v.names = t.names /\ LeadsFewer(t, v)
  <2> HIDE DEF F, texts
  <2> QED BY <1>2, <1>3, ForgetIs
<1> HIDE DEF v
<1> DEFINE w == IF all THEN v ELSE t
<1>6. GoodTable(w, F) /\ w.names = t.names /\ LeadsFewer(t, w)
  BY <1>2, <1>4 DEF LeadsFewer
<1>7. mcr_StringIndex_unmap(t, i, all) = Unnamed(w, i)
  BY DEF mcr_StringIndex_unmap, v
<1> HIDE DEF w
<1> DEFINE u == Unnamed(w, i)
<1>8. GoodTable(u, E) /\ u.codes = w.codes /\ LosesName(w, u, i)
  BY <1>6, UnnamedIs
<1>9. LosesName(t, u, i) /\ LeadsFewer(t, u)
  <2> HIDE DEF u
  <2> QED BY <1>6, <1>8 DEF LosesName, LeadsFewer
<1> QED BY <1>7, <1>8, <1>9

LEMMA UnmapStringIs ==
  ASSUME NEW D \in SUBSET Codes, NEW t, NEW text, GoodTable(t, D), NEW all \in BOOLEAN
  PROVE  GoodTable(mcr_StringIndex_unmap_string(t, text, all), D)
<1> DEFINE i == t.codes[text]
           u == mcr_StringIndex_unmap(t, i, all)
<1>1. SUFFICES ASSUME text \in DOMAIN t.codes PROVE GoodTable(Forget(u, {text}), D)
  BY DEF mcr_StringIndex_unmap_string
<1>2. t \in NameTables /\ t.names \in Seq(SomeLabels) /\ t.codes \in Leadings /\ Len(t.names) \in Nat
  BY TableParts DEF GoodTable
<1>3. i \in Codes /\ text \in Labels
  BY <1>1, <1>2, LeadingsAre
<1> HIDE DEF i
<1>4. GoodTable(u, D \ {i}) /\ LosesName(t, u, i)
  BY <1>3, UnmapIs
<1> HIDE DEF u
<1>5. ASSUME NEW c \in Codes \ D, c < Len(u.names) PROVE u.names[c + 1] \notin {text}
  <2>1. CASE c = i
    BY <1>3, <1>4, <1>5, <2>1, LabelsAssumption DEF LosesName
  <2>2. CASE c # i
    <3>1. Named(t, c) /\ u.names[c + 1] = t.names[c + 1]
      BY <1>4, <1>5, <2>2 DEF GoodTable, LosesName
    <3> QED BY <1>1, <1>3, <2>2, <3>1, LabelsAssumption DEF Named, i
  <2> QED BY <2>1, <2>2
<1>6. NotAmong(u, {text}, D)
  BY <1>5 DEF NotAmong
<1> QED BY <1>4, <1>6, ForgetIs

\* What a call leaves that gives code i a name.
GoodResult(r, D, i) == r \in Results /\ GoodTable(r.table, IF r.failed THEN D \union {i} ELSE D \ {i})

LEMMA MapIsGood ==
  ASSUME NEW D \in SUBSET Codes, NEW t, GoodTable(t, D), NEW i \in Codes, NEW text \in Labels, LeadsOnlyTo(t, text, i),
         NEW granted
  PROVE  GoodResult(mcr_StringIndex_map(t, i, text, granted), D, i)
<1> DEFINE r == mcr_StringIndex_map(t, i, text, granted)
<1>1. NameMapped(r, t, D, i, i, text, granted)
  BY MapIs
<1>2. (D \ {i}) \union ({i} \ {i}) = D \ {i}
  OBVIOUS
<1> HIDE DEF r
<1>3. GoodResult(r, D, i)
  BY <1>1, <1>2 DEF GoodResult, NameMapped
<1> QED BY <1>3 DEF r

LEMMA RemapIs ==
  ASSUME NEW D \in SUBSET Codes, NEW t, GoodTable(t, D), NEW old \in DOMAIN t.codes, NEW new \in Labels,
         old # new, LeadsOnlyTo(t, new, t.codes[old]), NEW granted
  PROVE  GoodResult(mcr_StringIndex_remap(t, old, new, granted), D, t.codes[old])
<1> DEFINE i == t.codes[old]
           r == mcr_StringIndex_map(t, i, new, granted)
           u == r.table
           v == Forget(u, {old})
<1>1. t \in NameTables /\ t.names \in Seq(SomeLabels) /\ t.codes \in Leadings /\ Len(t.names) \in Nat
  BY TableParts DEF GoodTable
<1>2. i \in Codes /\ old \in Labels
  BY <1>1, LeadingsAre
<1>3. mcr_StringIndex_remap(t, old, new, granted) = IF r.failed THEN r ELSE Succeeds(v)
  BY LabelsAssumption DEF mcr_StringIndex_remap, Thereby
<1>30. LeadsOnlyTo(t, new, i)
  OBVIOUS
<1> HIDE DEF i
<1>4. /\ r \in Results
      /\ r.failed => GoodTable(u, D \union {i})
      /\ ~ r.failed => /\ GoodTable(u, (D \ {i}) \union ({i} \ {i}))
                       /\ u.names = NamesWith(t.names, i, new)
                       /\ u.codes = LeadsAlso(t.codes, new, i)
  <2>1. NameMapped(r, t, D, i, i, new, granted)
    BY <1>2, <1>30, MapIs
  <2> HIDE DEF r
  <2> QED BY <2>1 DEF NameMapped
<1> HIDE DEF r
<1>5. CASE r.failed
  BY <1>3, <1>4, <1>5 DEF GoodResult, i
<1>6. CASE ~ r.failed
  <2>1. GoodTable(u, D \ {i})
    <3>1. (D \ {i}) \union ({i} \ {i}) = D \ {i}
      OBVIOUS
    <3> QED BY <1>4, <1>6, <3>1
  <2>2. u.codes[old] = i /\ u.names[i + 1] = new /\ old \in DOMAIN u.codes
    <3>1. u.codes[old] = i /\ old \in DOMAIN u.codes
      <4>1. LET g == LeadsAlso(t.codes, new, i)
            IN DOMAIN g = {new} \union DOMAIN t.codes /\ \A n \in DOMAIN t.codes : n # new => g[n] = t.codes[n]
        BY <1>1, <1>2, LeadsToo
      <4> QED BY <1>4, <1>6, <4>1 DEF i
    <3>2. u.names[i + 1] = new
      <4>1. i \in Nat /\ new \in SomeLabels
        BY <1>2, CodesAre DEF SomeLabels
      <4>2. NamesWith(t.names, i, new)[i + 1] = new
        BY <1>1, <4>1, NamesReach
      <4> QED BY <1>4, <1>6, <4>2
    <3> QED BY <3>1, <3>2
  <2>3. ASSUME NEW c \in Codes \ (D \ {i}), c < Len(u.names) PROVE u.names[c + 1] \notin {old}
    <3>1. Named(u, c)
      BY <2>1, <2>3 DEF GoodTable
    <3> QED BY <1>2, <2>2, <3>1, LabelsAssumption DEF Named
  <2>4. NotAmong(u, {old}, D \ {i})
    BY <2>3 DEF NotAmong
  <2>5. GoodTable(v, D \ {i})
    BY <2>1, <2>4, ForgetIs
  <2> HIDE DEF v
  <2> QED BY <1>3, <1>6, <2>5 DEF GoodResult, Succeeds, Results, i, GoodTable
<1> QED BY <1>5, <1>6

\* The code that a name led to keeps it in its table, in doubt.
LEMMA RemapToNothingIs ==
  ASSUME NEW D \in SUBSET Codes, NEW t, GoodTable(t, D), NEW old \in DOMAIN t.codes
  PROVE  GoodTable(mcr_StringIndex_remap(t, old, NoText, {}).table, D \union {t.codes[old]})
<1> DEFINE i == t.codes[old]
<1>1. t.codes \in Leadings
  BY TableParts DEF GoodTable
<1>2. i \in Codes /\ old \in Labels
  BY <1>1, LeadingsAre
<1>3. mcr_StringIndex_remap(t, old, NoText, {}).table = Forget(t, {old})
  BY DEF mcr_StringIndex_remap, Succeeds
<1>4. NotAmong(t, {old}, D \union {i})
  <2>1. ASSUME NEW c \in Codes \ (D \union {i}), c < Len(t.names) PROVE t.names[c + 1] \notin {old}
    <3>1. Named(t, c) /\ c # i
      BY <2>1 DEF GoodTable
    <3> QED BY <1>2, <3>1, LabelsAssumption DEF Named
  <2> QED BY <2>1 DEF NotAmong
<1>5. GoodTable(Forget(t, {old}), D \union {i})
  BY <1>4, ForgetIs
<1> QED BY <1>3, <1>5

LEMMA ReindexIs ==
  ASSUME NEW D \in SUBSET Codes, NEW t, GoodTable(t, D), NEW i \in Codes, NEW j \in Codes,
         i < Len(t.names), j < Len(t.names)
  PROVE  GoodTable(mcr_StringIndex_reindex(t, i, j), IF i \in D THEN D \union {j} ELSE D \ {j})
<1> DEFINE E     == IF i \in D THEN D \union {j} ELSE D \ {j}
           labels == [t.names EXCEPT ![j + 1] = t.names[i + 1], ![i + 1] = NoText]
           codes == [n \in DOMAIN t.codes |-> IF t.codes[n] = i THEN j ELSE t.codes[n]]
           u     == TableOf(labels, codes)
<1>1. t \in NameTables /\ t.names \in Seq(SomeLabels) /\ t.codes \in Leadings /\ Len(t.names) \in Nat
  BY TableParts DEF GoodTable
<1>2. \A c \in Codes : c \in Nat
  BY CodesAre
<1>3. CASE i = j
  <2>1. mcr_StringIndex_reindex(t, i, j) = t /\ E = D
    BY <1>3 DEF mcr_StringIndex_reindex
  <2> QED BY <2>1
<1>4. CASE i # j
  <2>1. mcr_StringIndex_reindex(t, i, j) = u
    BY <1>4 DEF mcr_StringIndex_reindex, TableOf
  <2>2. /\ labels \in Seq(SomeLabels) /\ Len(labels) = Len(t.names)
        /\ \A k \in 1..Len(t.names) :
             labels[k] = IF k = i + 1 THEN NoText ELSE IF k = j + 1 THEN t.names[i + 1] ELSE t.names[k]
    BY <1>1, <1>2, <1>4 DEF SomeLabels
  <2>3. codes \in Leadings /\ DOMAIN codes = DOMAIN t.codes
    <3>1. t.codes \in [DOMAIN t.codes -> Codes] /\ DOMAIN t.codes \subseteq Labels
      BY <1>1, LeadingsAre
    <3>2. codes \in [DOMAIN t.codes -> Codes] /\ DOMAIN codes = DOMAIN t.codes
      BY <3>1
    <3> HIDE DEF codes
    <3> QED BY <3>1, <3>2, LeadingsAre
  <2>4. \A n \in DOMAIN t.codes : codes[n] = IF t.codes[n] = i THEN j ELSE t.codes[n]
    OBVIOUS
  <2> HIDE DEF labels, codes
  <2>5. u \in NameTables /\ u.names = labels /\ u.codes = codes
    BY <2>2, <2>3, TablesOf
  <2> HIDE DEF u
  <2>6. ASSUME NEW c \in Codes \ E, c < Len(t.names) PROVE Named(u, c)
    <3>1. labels[c + 1] = IF c = i THEN NoText ELSE IF c = j THEN t.names[i + 1] ELSE t.names[c + 1]
      <4>1. c + 1 \in 1..Len(t.names) /\ (c + 1 = i + 1 <=> c = i) /\ (c + 1 = j + 1 <=> c = j)
        BY <1>1, <1>2, <2>6
      <4> QED BY <2>2, <4>1
    <3>2. CASE c = i
      BY <2>5, <3>1, <3>2 DEF Named
    <3>3. CASE c = j
      <4>1. Named(t, i)
        BY <2>6, <3>3 DEF GoodTable
      <4> QED BY <1>4, <2>3, <2>4, <2>5, <3>1, <3>3, <4>1 DEF Named
    <3>4. CASE c # i /\ c # j
      <4>1. Named(t, c)
        BY <2>6, <3>4 DEF GoodTable
      <4> QED BY <2>3, <2>4, <2>5, <3>1, <3>4, <4>1 DEF Named
    <3> QED BY <3>2, <3>3, <3>4
  <2>7. \A n \in DOMAIN u.codes : u.codes[n] < Len(u.names)
    <3>1. ASSUME NEW n \in DOMAIN t.codes PROVE codes[n] < Len(t.names)
      BY <2>4 DEF GoodTable
    <3> QED BY <2>2, <2>3, <2>5, <3>1
  <2>8. GoodTable(u, E)
    BY <2>2, <2>5, <2>6, <2>7 DEF GoodTable
  <2> QED BY <2>1, <2>8
<1> QED BY <1>3, <1>4

LEMMA NoNames == TableOf(<< >>, << >>) \in NameTables /\ \A D \in SUBSET Codes : GoodTable(TableOf(<< >>, << >>), D)
<1>1. << >> \in Leadings /\ DOMAIN << >> = {}
  <2>1. << >> \in [{} -> Codes] /\ DOMAIN << >> = {}
    OBVIOUS
  <2> QED BY <2>1, LeadingsAre
<1>2. << >> \in Seq(SomeLabels) /\ Len(<< >>) = 0
  OBVIOUS
<1> DEFINE t == TableOf(<< >>, << >>)
<1>3. t \in NameTables /\ t.names = << >> /\ t.codes = << >>
  BY <1>1, <1>2, TablesOf
<1> HIDE DEF t
<1>4. ASSUME NEW D \in SUBSET Codes PROVE GoodTable(t, D)
  BY <1>1, <1>2, <1>3, CodesAre DEF GoodTable
<1> QED BY <1>3, <1>4 DEF t

LEMMA ResizeIs ==
  ASSUME NEW D \in SUBSET Codes, NEW t, GoodTable(t, D), NEW n \in Nat
  PROVE  GoodTable(mcr_StringIndex_resize(t, n), D)
<1> DEFINE m     == IF n < Len(t.names) THEN n ELSE Len(t.names)
           labels == SubSeq(t.names, 1, m)
           kept  == {l \in DOMAIN t.codes : ~ t.codes[l] \in n..CodeCount(t) - 1}
           codes == IF n = 0 THEN << >> ELSE Restrict(t.codes, kept)
           u     == TableOf(labels, codes)
<1>1. /\ t \in NameTables /\ t.names \in Seq(SomeLabels) /\ t.codes \in Leadings /\ Len(t.names) \in Nat
      /\ CodeCount(t) = Len(t.names)
  BY TableParts DEF GoodTable
<1>2. Min({n, CodeCount(t)}) = m
  <2>1. \E x \in {n, Len(t.names)} : \A y \in {n, Len(t.names)} : x <= y
    BY <1>1
  <2>2. Min({n, Len(t.names)}) \in {n, Len(t.names)} /\ \A y \in {n, Len(t.names)} : Min({n, Len(t.names)}) <= y
    BY <2>1 DEF Min
  <2> QED BY <1>1, <2>2
<1>3. mcr_StringIndex_resize(t, n) = u
  BY <1>2 DEF mcr_StringIndex_resize, TableOf
<1>4. /\ labels \in Seq(SomeLabels) /\ Len(labels) = m /\ \A k \in 1..m : labels[k] = t.names[k]
      /\ m \in Nat /\ m <= Len(t.names)
  BY <1>1
<1>5. codes \in Leadings /\ DOMAIN codes = (IF n = 0 THEN {} ELSE kept) /\ \A l \in DOMAIN codes : codes[l] = t.codes[l]
  <2>1. << >> \in Leadings /\ DOMAIN << >> = {}
    <3>1. << >> \in [{} -> Codes] /\ DOMAIN << >> = {}
      OBVIOUS
    <3> QED BY <3>1, LeadingsAre
  <2>2. kept \subseteq DOMAIN t.codes
    OBVIOUS
  <2> HIDE DEF kept
  <2>3. Restrict(t.codes, kept) \in Leadings /\ DOMAIN Restrict(t.codes, kept) = kept /\ \A l \in kept : Restrict(t.codes, kept)[l] = t.codes[l]
    BY <1>1, <2>2, LeadsLess
  <2> QED BY <2>1, <2>3
<1> HIDE DEF labels, codes
<1>6. u \in NameTables /\ u.names = labels /\ u.codes = codes
  BY <1>4, <1>5, TablesOf
<1> HIDE DEF u
<1>7. \A c \in Codes : c \in Nat /\ c < Cardinality(Codes)
  BY CodesAre
<1>71. \A l \in DOMAIN t.codes : t.codes[l] \in Codes /\ t.codes[l] < Len(t.names)
  BY <1>1, LeadingsAre DEF GoodTable
<1>8. ASSUME NEW c \in Codes \ D, c < m PROVE Named(u, c)
  <2>1. Named(t, c) /\ labels[c + 1] = t.names[c + 1] /\ n # 0
    <3>1. c < Len(t.names) /\ c + 1 \in 1..m /\ n # 0
      BY <1>1, <1>4, <1>7, <1>8
    <3> QED BY <1>4, <3>1 DEF GoodTable
  <2>2. ~ c \in n..Len(t.names) - 1
    BY <1>1, <1>7, <1>8
  <2> QED BY <1>1, <1>5, <1>6, <2>1, <2>2 DEF Named
<1>9. \A l \in DOMAIN u.codes : u.codes[l] < Len(u.names)
  <2>1. ASSUME NEW l \in DOMAIN codes PROVE codes[l] < m
    <3>1. l \in kept /\ codes[l] = t.codes[l]
      BY <1>5
    <3>2. t.codes[l] \in Nat /\ t.codes[l] < Len(t.names) /\ ~ t.codes[l] \in n..Len(t.names) - 1
      BY <1>1, <1>7, <1>71, <3>1
    <3> QED BY <1>1, <3>1, <3>2
  <2> QED BY <1>4, <1>6, <2>1
<1>10. GoodTable(u, D)
  <2>1. Len(u.names) <= Cardinality(Codes)
    BY <1>1, <1>4, <1>6, CodesAre DEF GoodTable
  <2> QED BY <1>4, <1>6, <1>8, <1>9, <2>1 DEF GoodTable
<1> QED BY <1>3, <1>10

\* Further names are added one by one.
AddOp(p, r, text) == Thereby(r, LAMBDA u : MapName(u, p[1], text, p[2]))
Adds == INSTANCE FoldProofs WITH Op <- AddOp

LEMMA AddInTurn ==
  ASSUME NEW t, NEW i, NEW granted, NEW texts
  PROVE  mcr_StringIndex_add(t, i, texts, granted) = Adds!Folded(<< i, granted >>, Succeeds(t), texts)
BY DEF mcr_StringIndex_add, AddOp, Adds!Folded, FoldLeft, MapThenFoldSet, Adds!MapThenFoldSet, Max, Adds!Greatest

\* Names lead where they led, but for some texts, which lead to code i.
LeadsMore(t, u, i, texts) ==
  \A n \in DOMAIN u.codes :
    \/ n \in DOMAIN t.codes /\ u.codes[n] = t.codes[n]
    \/ n \in texts /\ u.codes[n] = i

\* Tables in which all names but those in doubt are good, and where a text may lead to code i.
RoomLeft(t, D, text, i) == GoodTable(t, D) /\ i < Len(t.names) /\ LeadsOnlyTo(t, text, i)

LEMMA AddIs ==
  ASSUME NEW D \in SUBSET Codes, NEW t, NEW i \in Codes, NEW text \in Labels, RoomLeft(t, D, text, i),
         NEW texts \in Seq({text}), NEW granted
  PROVE  LET r == mcr_StringIndex_add(t, i, texts, granted)
         IN r \in Results /\ RoomLeft(r.table, D, text, i) /\ LeadsMore(t, r.table, i, {text})
<1> DEFINE A == {r \in Results : RoomLeft(r.table, D, text, i) /\ LeadsMore(t, r.table, i, {text})}
           p == << i, granted >>
<1>1. ASSUME NEW r \in A PROVE AddOp(p, r, text) \in A
  <2>1. r \in Results /\ RoomLeft(r.table, D, text, i) /\ LeadsMore(t, r.table, i, {text})
    OBVIOUS
  <2> HIDE DEF A
  <2>2. AddOp(p, r, text) = IF r.failed THEN r ELSE MapName(r.table, i, text, granted)
    BY DEF AddOp, Thereby
  <2> DEFINE m == MapName(r.table, i, text, granted)
             v == r.table
  <2>3. GoodTable(v, D) /\ i < Len(v.names) /\ LeadsOnlyTo(v, text, i)
    BY <2>1 DEF RoomLeft
  <2>4. v.codes \in Leadings
    BY <2>3, TableParts DEF GoodTable
  <2> HIDE DEF v
  <2>5. LET w == MapName(v, i, text, granted)
        IN /\ w \in Results /\ GoodTable(w.table, D) /\ w.table.names = v.names
           /\ w.table.codes = v.codes \/ w.table.codes = LeadsAlso(v.codes, text, i)
    BY <2>3, MapNameIs
  <2>6. LET g == LeadsAlso(v.codes, text, i)
        IN /\ g[text] = i /\ DOMAIN g = {text} \union DOMAIN v.codes
           /\ \A n \in DOMAIN v.codes : n # text => g[n] = v.codes[n]
    BY <2>4, LeadsToo
  <2>60. LeadsMore(t, v, i, {text})
    BY <2>1 DEF v
  <2>7. m \in Results /\ RoomLeft(m.table, D, text, i) /\ LeadsMore(t, m.table, i, {text})
    <3> DEFINE w == MapName(v, i, text, granted)
    <3>1. m = w
      BY DEF v
    <3> HIDE DEF m, w
    <3>2. /\ w \in Results /\ GoodTable(w.table, D) /\ w.table.names = v.names
          /\ w.table.codes = v.codes \/ w.table.codes = LeadsAlso(v.codes, text, i)
      BY <2>5 DEF w
    <3>3. RoomLeft(w.table, D, text, i)
      BY <2>3, <2>6, <3>2 DEF RoomLeft, LeadsOnlyTo
    <3>4. LeadsMore(t, w.table, i, {text})
      BY <2>6, <2>60, <3>2 DEF LeadsMore
    <3> QED BY <3>1, <3>2, <3>3, <3>4
  <2> HIDE DEF m
  <2> QED BY <2>1, <2>2, <2>7 DEF A, m
<1>2. Adds!Closed(p, A, {text})
  <2> HIDE DEF A
  <2> QED BY <1>1 DEF Adds!Closed
<1>3. Succeeds(t) \in A
  <2>1. t \in NameTables
    BY DEF RoomLeft, GoodTable
  <2>2. LeadsMore(t, t, i, {text})
    BY DEF LeadsMore
  <2> QED BY <2>1, <2>2 DEF Succeeds, Results
<1> HIDE DEF A
<1>4. PICK h \in [0..Len(texts) -> A] : Adds!Steps(h, p, Succeeds(t), texts) /\ h[Len(texts)] = Adds!Folded(p, Succeeds(t), texts)
  BY <1>2, <1>3, Adds!FoldSteps
<1>5. mcr_StringIndex_add(t, i, texts, granted) \in A
  <2>1. Len(texts) \in 0..Len(texts)
    OBVIOUS
  <2>2. h[Len(texts)] \in A
    BY <2>1
  <2> QED BY <1>4, <2>2, AddInTurn
<1> QED BY <1>5 DEF A

-----------------------------------------------------------------------------

LEMMA MappedLeads ==
  ASSUME NEW D, NEW t \in NameTables, NEW i \in Codes, NEW k, NEW text \in Labels, NEW granted,
         NEW r, NameMapped(r, t, D, i, k, text, granted), ~ r.failed
  PROVE  i < Len(r.table.names) /\ LeadsMore(t, r.table, i, {text})
<1> DEFINE labels == NamesWith(t.names, i, text)
           codes == LeadsAlso(t.codes, text, i)
<1>1. t.names \in Seq(SomeLabels) /\ t.codes \in Leadings /\ Len(t.names) \in Nat /\ i \in Nat /\ text \in SomeLabels
  BY TableParts, CodesAre DEF SomeLabels
<1>2. Len(labels) = IF i < Len(t.names) THEN Len(t.names) ELSE i + 1
  BY <1>1, NamesReach
<1>3. /\ codes[text] = i /\ DOMAIN codes = {text} \union DOMAIN t.codes
      /\ \A n \in DOMAIN t.codes : n # text => codes[n] = t.codes[n]
  BY <1>1, LeadsToo
<1>4. r.table.names = labels /\ r.table.codes = codes
  BY DEF NameMapped
<1> HIDE DEF labels, codes
<1> QED BY <1>1, <1>2, <1>3, <1>4 DEF LeadsMore

LEMMA FreeStill ==
  ASSUME NEW t, NEW u, NEW i, NEW text, NEW texts, LeadsOnlyTo(t, text, i), LeadsMore(t, u, i, texts)
  PROVE  LeadsOnlyTo(u, text, i)
BY DEF LeadsOnlyTo, LeadsMore

LEMMA KeyMapCases ==
  ASSUME NEW t, NEW i, NEW text, NEW texts, NEW granted
  PROVE  LET r == mcr_StringIndex_map(t, i, text, granted)
         IN mcr_Key_map(t, i, text, texts, granted)
              = IF r.failed THEN r ELSE mcr_StringIndex_add(r.table, i, texts, granted)
BY DEF mcr_Key_map, Thereby

\* A key and its further names are mapped, or its name only, or half of that.
KeyMapped(r, t, D, i, texts, granted) ==
  /\ r \in Results
  /\ \/ r.failed /\ r.table.codes = t.codes /\ GoodTable(r.table, D \union {i}) /\ ~ NamingSteps \subseteq granted
     \/ GoodTable(r.table, D \ {i}) /\ LeadsMore(t, r.table, i, texts)

LEMMA KeyMapIs ==
  ASSUME NEW D \in SUBSET Codes, NEW t, GoodTable(t, D), NEW i \in Codes, NEW text \in Labels, NEW added \in Labels,
         LeadsOnlyTo(t, text, i), LeadsOnlyTo(t, added, i), NEW texts \in Seq({added}), NEW granted
  PROVE  KeyMapped(mcr_Key_map(t, i, text, texts, granted), t, D, i, {text, added}, granted)
<1> DEFINE r == mcr_StringIndex_map(t, i, text, granted)
           u == r.table
           m == mcr_Key_map(t, i, text, texts, granted)
           a == mcr_StringIndex_add(u, i, texts, granted)
<1>1. NameMapped(r, t, D, i, i, text, granted)
  BY MapIs
<1>2. m = IF r.failed THEN r ELSE a
  BY KeyMapCases
<1>3. t \in NameTables /\ (D \ {i}) \union ({i} \ {i}) = D \ {i}
  BY DEF GoodTable
<1> HIDE DEF r, m
<1>4. CASE r.failed
  <2>1. KeyMapped(r, t, D, i, {text, added}, granted)
    BY <1>1, <1>4 DEF NameMapped, KeyMapped
  <2> QED BY <1>2, <1>4, <2>1 DEF m
<1>5. CASE ~ r.failed
  <2>1. GoodTable(u, D \ {i})
    BY <1>1, <1>3, <1>5 DEF NameMapped
  <2>2. i < Len(u.names) /\ LeadsMore(t, u, i, {text})
    BY <1>1, <1>3, <1>5, MappedLeads
  <2>3. LeadsOnlyTo(u, added, i)
    BY <2>2, FreeStill
  <2>4. RoomLeft(u, D \ {i}, added, i)
    BY <2>1, <2>2, <2>3 DEF RoomLeft
  <2> HIDE DEF u
  <2>5. D \ {i} \in SUBSET Codes
    OBVIOUS
  <2>6. a \in Results /\ RoomLeft(a.table, D \ {i}, added, i) /\ LeadsMore(u, a.table, i, {added})
    BY <2>4, <2>5, AddIs
  <2> HIDE DEF a
  <2>7. LeadsMore(t, a.table, i, {text, added})
    BY <2>2, <2>6 DEF LeadsMore
  <2>8. KeyMapped(a, t, D, i, {text, added}, granted)
    BY <2>6, <2>7 DEF KeyMapped, RoomLeft
  <2> QED BY <1>2, <1>5, <2>8 DEF m, a, u
<1> QED BY <1>4, <1>5

LEMMA KeyMapIsGood ==
  ASSUME NEW D \in SUBSET Codes, NEW t, GoodTable(t, D), NEW i \in Codes, NEW text \in Labels, NEW added \in Labels,
         LeadsOnlyTo(t, text, i), LeadsOnlyTo(t, added, i), NEW granted
  PROVE  GoodResult(mcr_Key_map(t, i, text, << added >>, granted), D, i)
<1> DEFINE r == mcr_Key_map(t, i, text, << added >>, granted)
<1>1. << added >> \in Seq({added})
  OBVIOUS
<1>2. KeyMapped(r, t, D, i, {text, added}, granted)
  BY <1>1, KeyMapIs
<1> HIDE DEF r
<1>3. GoodResult(r, D, i)
  <2>1. GoodTable(r.table, D \ {i}) => GoodTable(r.table, D \union {i})
    BY DEF GoodTable
  <2> QED BY <1>2, <2>1 DEF KeyMapped, GoodResult
<1> QED BY <1>3 DEF r

LEMMA UnmapIsGood ==
  ASSUME NEW D \in SUBSET Codes, NEW t, GoodTable(t, D), NEW i \in Codes
  PROVE  GoodResult(Succeeds(mcr_StringIndex_unmap(t, i, TRUE)), D, i)
<1> DEFINE u == mcr_StringIndex_unmap(t, i, TRUE)
           E == D \ {i}
<1>1. GoodTable(u, E)
  <2>1. TRUE \in BOOLEAN
    OBVIOUS
  <2> HIDE DEF E
  <2> QED BY <2>1, UnmapIs DEF E
<1> HIDE DEF u
<1>2. GoodResult(Succeeds(u), D, i)
  BY <1>1 DEF GoodResult, Succeeds, Results, GoodTable
<1> QED BY <1>2 DEF u

LEMMA SetNameIs ==
  ASSUME NEW D \in SUBSET Codes, NEW t, GoodTable(t, D), NEW i \in Codes, NEW text \in SomeLabels,
         text # NoText => LeadsOnlyTo(t, text, i), NEW granted
  PROVE  GoodResult(mcr_Key_set_name(t, i, text, granted), D, i)
<1>1. CASE text = NoText
  BY <1>1, UnmapIsGood DEF mcr_Key_set_name
<1>2. CASE text # NoText
  <2>1. text \in Labels /\ LeadsOnlyTo(t, text, i)
    BY <1>2 DEF SomeLabels
  <2> QED BY <1>2, <2>1, MapIsGood DEF mcr_Key_set_name
<1> QED BY <1>1, <1>2

\* The name that moves may still lead to the old code, which loses it at once.
LEMMA RekeyIs ==
  ASSUME NEW D \in SUBSET Codes, NEW t, GoodTable(t, D), NEW i \in Codes, NEW j \in Codes, i # j,
         NEW moved \in SomeLabels, KeyName(t, i) = moved,
         moved # NoText => LeadsOnlyTo(t, moved, i) \/ LeadsOnlyTo(t, moved, j), NEW granted
  PROVE  GoodResult(mcr_Key_rekey(t, i, j, granted), D, j)
<1> DEFINE r == mcr_Key_set_name(t, j, moved, granted)
           u == r.table
           E == (D \ {j}) \union {i}
           v == mcr_StringIndex_unmap(u, i, TRUE)
<1>1. mcr_Key_rekey(t, i, j, granted) = IF r.failed THEN r ELSE Succeeds(v)
  BY DEF mcr_Key_rekey, Thereby, mcr_Key_set_name
<1>2. r \in Results /\ IF r.failed THEN GoodTable(u, D \union {j}) ELSE GoodTable(u, E)
  <2>1. CASE moved = NoText \/ LeadsOnlyTo(t, moved, j)
    <3>1. GoodResult(r, D, j)
      BY <2>1, SetNameIs
    <3> HIDE DEF r
    <3>2. GoodTable(u, D \ {j}) => GoodTable(u, E)
      BY DEF GoodTable
    <3> QED BY <3>1, <3>2 DEF GoodResult
  <2>2. CASE moved # NoText /\ LeadsOnlyTo(t, moved, i)
    <3>1. moved \in Labels /\ r = mcr_StringIndex_map(t, j, moved, granted)
      BY <2>2 DEF SomeLabels, mcr_Key_set_name
    <3>2. NameMapped(r, t, D, j, i, moved, granted)
      BY <2>2, <3>1, MapIs
    <3>3. (D \ {j}) \union ({i} \ {j}) = E
      OBVIOUS
    <3> HIDE DEF r, E
    <3> QED BY <3>2, <3>3 DEF NameMapped
  <2> QED BY <2>1, <2>2
<1> HIDE DEF r
<1>3. CASE r.failed
  <2>1. GoodResult(r, D, j)
    BY <1>2, <1>3 DEF GoodResult
  <2> QED BY <1>1, <1>3, <2>1
<1>4. CASE ~ r.failed
  <2>1. GoodTable(u, E)
    BY <1>2, <1>4
  <2> HIDE DEF u
  <2>2. GoodTable(v, E \ {i})
    <3>1. TRUE \in BOOLEAN
      OBVIOUS
    <3> QED BY <2>1, <3>1, UnmapIs
  <2> HIDE DEF v
  <2>3. GoodTable(v, D \ {j})
    <3>1. E \ {i} \subseteq D \ {j}
      OBVIOUS
    <3> QED BY <2>2, <3>1, DoubtMore
  <2>4. GoodResult(Succeeds(v), D, j)
    BY <2>3 DEF GoodResult, Succeeds, Results, GoodTable
  <2> QED BY <1>1, <1>4, <2>4
<1> QED BY <1>3, <1>4

-----------------------------------------------------------------------------
(* The names of a new context *)

KeyOp(given, t, c) == GiveName(t, c, given[c], NamingSteps).table
KeyLoad == INSTANCE FoldProofs WITH Op <- KeyOp

EchoTexts(p, c) == IF c = p[2] THEN << p[3] >> ELSE << >>
EchoOp(p, t, c) == mcr_Key_map(t, c, p[1][c], EchoTexts(p, c), NamingSteps).table
EchoLoad == INSTANCE FoldProofs WITH Op <- EchoOp

\* The names of a table, and a further one of one code, lead to their codes.
Loaded(t, given, text, code) ==
  GoodTable(t, {}) /\ \A n \in DOMAIN t.codes : given[t.codes[n]] = n \/ (n = text /\ t.codes[n] = code)

\* What loading leaves that fails at code i.
LoadFails(r, t, i) == GoodTable(r.table, IF r.table.names = t.names THEN {} ELSE {i})

LEMMA LoadingIs ==
  ASSUME NEW given \in Tables
  PROVE  /\ LastCode \in Codes /\ given[LastCode] \in Labels
         /\ \A c \in Codes : given[c] \in SomeLabels
         /\ \A c, d \in Codes : given[c] = given[d] /\ given[c] # NoText => c = d
<1>1. given \in [Codes -> SomeLabels] /\ given[LastCode] # NoText
  BY DEF Tables, SomeLabels
<1>2. LastCode \in Codes
  BY CodesAssumption DEF LastCode
<1>3. \A c, d \in Codes : given[c] = given[d] => c = d \/ given[c] = NoText
  BY Zenon DEF Tables
<1> QED BY <1>1, <1>2, <1>3 DEF SomeLabels

LEMMA LoadedFree ==
  ASSUME NEW given \in Tables, NEW text, NEW code \in Codes, NEW t, Loaded(t, given, text, code), NEW c \in Codes,
         given[c] # NoText, given[c] # text
  PROVE  LeadsOnlyTo(t, given[c], c)
<1>1. ASSUME given[c] \in DOMAIN t.codes PROVE t.codes[given[c]] = c
  <2>1. t.codes[given[c]] \in Codes
    BY <1>1, TableParts, LeadingsAre DEF Loaded, GoodTable
  <2>2. given[t.codes[given[c]]] = given[c]
    BY <1>1 DEF Loaded
  <2> QED BY <2>1, <2>2, LoadingIs
<1> QED BY <1>1 DEF LeadsOnlyTo

LEMMA LoadedFurther ==
  ASSUME NEW given, NEW text, NEW code, NEW t, Loaded(t, given, text, code), \A c \in Codes : given[c] # text
  PROVE  LeadsOnlyTo(t, text, code)
<1>1. ASSUME text \in DOMAIN t.codes PROVE t.codes[text] = code
  <2>1. t.codes[text] \in Codes
    BY <1>1, TableParts, LeadingsAre DEF Loaded, GoodTable
  <2> QED BY <1>1, <2>1 DEF Loaded
<1> QED BY <1>1 DEF LeadsOnlyTo

\* A key is given its name, or it has none.
LEMMA KeyLoads ==
  ASSUME NEW given \in Tables, NEW text, \A c \in Codes : given[c] # text, NEW code \in Codes,
         NEW t, Loaded(t, given, text, code), NEW c \in Codes, NEW granted
  PROVE  LET r == GiveName(t, c, given[c], granted)
         IN /\ r.failed => LoadFails(r, t, c) /\ ~ NamingSteps \subseteq granted
            /\ ~ r.failed => /\ Loaded(r.table, given, text, code) /\ Len(r.table.names) >= Len(t.names)
                             /\ given[c] # NoText => c < Len(r.table.names)
<1> DEFINE r == GiveName(t, c, given[c], granted)
<1>1. t \in NameTables /\ GoodTable(t, {}) /\ t.names \in Seq(SomeLabels) /\ Len(t.names) \in Nat /\ t.codes \in Leadings
  BY TableParts DEF Loaded, GoodTable
<1>2. CASE given[c] = NoText
  BY <1>1, <1>2 DEF GiveName, Succeeds
<1>3. CASE given[c] # NoText
  <2> DEFINE name == given[c]
  <2>1. name \in Labels /\ r = mcr_StringIndex_map(t, c, name, granted)
    BY <1>3, LoadingIs DEF GiveName, SomeLabels
  <2>2. LeadsOnlyTo(t, name, c)
    BY <1>3, LoadedFree
  <2> HIDE DEF name
  <2>3. NameMapped(r, t, {}, c, c, name, granted)
    <3>1. {} \in SUBSET Codes
      OBVIOUS
    <3> QED BY <1>1, <2>1, <2>2, <3>1, MapIs
  <2> HIDE DEF r
  <2>4. CASE r.failed
    <3>1. GoodTable(r.table, {} \union {c}) /\ r.table.codes = t.codes /\ r \in Results
      BY <2>3, <2>4 DEF NameMapped
    <3>2. r.table.names = t.names => r.table = t
      <4>1. r.table \in NameTables
        BY <3>1 DEF GoodTable
      <4>2. r.table = TableOf(r.table.names, r.table.codes) /\ t = TableOf(t.names, t.codes)
        BY <1>1, <4>1, TableParts
      <4> QED BY <3>1, <4>2
    <3>3. LoadFails(r, t, c)
      BY <1>1, <3>1, <3>2 DEF LoadFails
    <3> QED BY <2>3, <2>4, <3>3 DEF NameMapped, r
  <2>5. CASE ~ r.failed
    <3>1. c < Len(r.table.names) /\ LeadsMore(t, r.table, c, {name})
      BY <1>1, <2>1, <2>3, <2>5, MappedLeads
    <3>2. GoodTable(r.table, {})
      <4>1. ({} \ {c}) \union ({c} \ {c}) = {}
        OBVIOUS
      <4> QED BY <2>3, <2>5, <4>1 DEF NameMapped
    <3>3. Loaded(r.table, given, text, code)
      BY <3>1, <3>2 DEF Loaded, LeadsMore, name
    <3>4. Len(r.table.names) >= Len(t.names)
      <4>1. c \in Nat /\ name \in SomeLabels
        BY <2>1, CodesAre DEF SomeLabels
      <4>2. Len(NamesWith(t.names, c, name)) = IF c < Len(t.names) THEN Len(t.names) ELSE c + 1
        BY <1>1, <4>1, NamesReach
      <4>3. r.table.names = NamesWith(t.names, c, name)
        BY <2>3, <2>5 DEF NameMapped
      <4> QED BY <1>1, <4>1, <4>2, <4>3
    <3> QED BY <2>5, <3>1, <3>3, <3>4 DEF r
  <2> QED BY <2>4, <2>5
<1> QED BY <1>2, <1>3

\* An echo is given its name and, when it is the one, its further name.
LEMMA EchoLoads ==
  ASSUME NEW given \in Tables, NEW text \in Labels, \A c \in Codes : given[c] \notin {text, NoText}, NEW code \in Codes,
         NEW t, Loaded(t, given, text, code), NEW c \in Codes, NEW granted
  PROVE  LET r == mcr_Key_map(t, c, given[c], IF c = code THEN << text >> ELSE << >>, granted)
         IN /\ r.failed => LoadFails(r, t, c)
            /\ ~ r.failed \/ NamingSteps \subseteq granted => Loaded(r.table, given, text, code)
<1> DEFINE name  == given[c]
           texts == IF c = code THEN << text >> ELSE << >>
           added == IF c = code THEN text ELSE name
           r     == mcr_Key_map(t, c, name, texts, granted)
<1>1. t \in NameTables /\ GoodTable(t, {}) /\ {} \in SUBSET Codes /\ {} \ {c} = {}
  BY DEF Loaded, GoodTable
<1>2. name \in Labels /\ added \in Labels
  BY LoadingIs DEF SomeLabels
<1>3. LeadsOnlyTo(t, name, c) /\ LeadsOnlyTo(t, added, c)
  BY LoadedFree, LoadedFurther
<1>4. texts \in Seq({added})
  <2>1. << text >> \in Seq({text}) /\ << >> \in Seq({name})
    OBVIOUS
  <2> HIDE DEF name
  <2> QED BY <2>1
<1>40. c # code => added = name
  OBVIOUS
<1>41. c = code => added = text
  OBVIOUS
<1> HIDE DEF texts, added, name
<1>5. KeyMapped(r, t, {}, c, {name, added}, granted)
  BY <1>1, <1>2, <1>3, <1>4, KeyMapIs
<1> HIDE DEF r
<1>6. ASSUME GoodTable(r.table, {} \ {c}), LeadsMore(t, r.table, c, {name, added})
      PROVE  Loaded(r.table, given, text, code) /\ LoadFails(r, t, c)
  <2>1. GoodTable(r.table, {}) /\ GoodTable(r.table, {c})
    BY <1>1, <1>6 DEF GoodTable
  <2>2. Loaded(r.table, given, text, code)
    BY <1>6, <1>40, <1>41, <2>1 DEF Loaded, LeadsMore, name
  <2> QED BY <2>1, <2>2 DEF LoadFails
<1>7. ASSUME r.failed, r.table.codes = t.codes, GoodTable(r.table, {} \union {c}), r \in Results
      PROVE  LoadFails(r, t, c)
  <2>1. r.table.names = t.names => r.table = t
    <3>1. r.table \in NameTables
      BY <1>7 DEF GoodTable
    <3>2. r.table = TableOf(r.table.names, r.table.codes) /\ t = TableOf(t.names, t.codes)
      BY <1>1, <3>1, TableParts
    <3> QED BY <1>7, <3>2
  <2> QED BY <1>1, <1>7, <2>1 DEF LoadFails
<1>8. /\ r.failed => LoadFails(r, t, c)
      /\ ~ r.failed \/ NamingSteps \subseteq granted => Loaded(r.table, given, text, code)
  BY <1>5, <1>6, <1>7 DEF KeyMapped
<1> QED BY <1>8 DEF r, texts, name

LEMMA KeysFold ==
  ASSUME NEW given \in Tables, NEW text, \A c \in Codes : given[c] # text, NEW code \in Codes,
         NEW t, Loaded(t, given, text, code), NEW codes \in Seq(Codes)
  PROVE  LET u == KeyLoad!Folded(given, t, codes)
         IN /\ Loaded(u, given, text, code)
            /\ Len(codes) > 0 /\ codes[1] = LastCode => LastCode < Len(u.names)
<1> DEFINE A == {v \in NameTables : Loaded(v, given, text, code)}
<1>1. ASSUME NEW v \in A, NEW c \in Codes
      PROVE  /\ KeyOp(given, v, c) \in A /\ Len(KeyOp(given, v, c).names) >= Len(v.names)
             /\ given[c] # NoText => c < Len(KeyOp(given, v, c).names)
  <2>1. Loaded(v, given, text, code)
    OBVIOUS
  <2> DEFINE r == GiveName(v, c, given[c], NamingSteps)
  <2>2. /\ r.failed => LoadFails(r, v, c) /\ ~ NamingSteps \subseteq NamingSteps
        /\ ~ r.failed => /\ Loaded(r.table, given, text, code) /\ Len(r.table.names) >= Len(v.names)
                         /\ given[c] # NoText => c < Len(r.table.names)
    BY <2>1, KeyLoads
  <2> HIDE DEF r
  <2>3. KeyOp(given, v, c) = r.table
    BY DEF KeyOp, r
  <2> QED BY <2>2, <2>3 DEF Loaded, GoodTable
<1>2. t \in A
  BY DEF Loaded, GoodTable
<1>3. KeyLoad!Closed(given, A, Codes)
  <2> HIDE DEF A
  <2> QED BY <1>1 DEF KeyLoad!Closed
<1> HIDE DEF A
<1>4. PICK h \in [0..Len(codes) -> A] : KeyLoad!Steps(h, given, t, codes) /\ h[Len(codes)] = KeyLoad!Folded(given, t, codes)
  BY <1>2, <1>3, KeyLoad!FoldSteps
<1>5. Len(codes) \in Nat /\ \A k \in 1..Len(codes) : codes[k] \in Codes
  OBVIOUS
<1>6. ASSUME Len(codes) > 0, codes[1] = LastCode PROVE LastCode < Len(h[Len(codes)].names)
  <2> DEFINE Q == {k \in 0..Len(codes) : k > 0 => LastCode < Len(h[k].names)}
  <2>1. 0 \in Q
    BY <1>5
  <2>2. ASSUME NEW k \in 0..Len(codes) - 1, k \in Q PROVE k + 1 \in Q
    <3>1. k + 1 \in 1..Len(codes) /\ h[k] \in A /\ codes[k + 1] \in Codes /\ (k + 1) - 1 = k
      BY <1>5
    <3>2. h[k + 1] = KeyOp(given, h[k], codes[k + 1])
      BY <1>4, <3>1 DEF KeyLoad!Steps
    <3>3. /\ Len(h[k + 1].names) >= Len(h[k].names)
          /\ given[codes[k + 1]] # NoText => codes[k + 1] < Len(h[k + 1].names)
      BY <1>1, <3>1, <3>2
    <3>4. CASE k = 0
      BY <1>6, <3>1, <3>3, <3>4, LoadingIs, LabelsAssumption
    <3>5. CASE k # 0
      <4>1. LastCode < Len(h[k].names)
        BY <2>2, <3>5
      <4>2. h[k] \in NameTables /\ h[k + 1] \in NameTables
        BY <1>5, <3>1 DEF A
      <4>3. Len(h[k].names) \in Nat /\ Len(h[k + 1].names) \in Nat /\ LastCode \in Nat
        BY <4>2, TableParts, LoadingIs, CodesAre
      <4> QED BY <3>1, <3>3, <4>1, <4>3
    <3> QED BY <3>4, <3>5
  <2> HIDE DEF Q
  <2>3. \A k \in 0..Len(codes) : k \in Q
    <3>1. \A k \in 0..Len(codes) - 1 : k \in Q => k + 1 \in Q
      BY <2>2
    <3> QED BY <1>5, <2>1, <3>1, KeyLoad!CountingUp
  <2>4. Len(codes) \in 0..Len(codes)
    BY <1>5
  <2> QED BY <1>6, <2>3, <2>4 DEF Q
<1>7. h[Len(codes)] \in A
  BY <1>5
<1> QED BY <1>4, <1>6, <1>7 DEF A

LEMMA EchoesFold ==
  ASSUME NEW given \in Tables, NEW text \in Labels, \A c \in Codes : given[c] \notin {text, NoText}, NEW code \in Codes,
         NEW t, Loaded(t, given, text, code), NEW codes \in Seq(Codes)
  PROVE  Loaded(EchoLoad!Folded(<< given, code, text >>, t, codes), given, text, code)
<1> DEFINE A == {v \in NameTables : Loaded(v, given, text, code)}
           p == << given, code, text >>
<1>1. ASSUME NEW v \in A, NEW c \in Codes
      PROVE  EchoOp(p, v, c) \in A
  <2>1. Loaded(v, given, text, code)
    OBVIOUS
  <2> DEFINE r == mcr_Key_map(v, c, given[c], IF c = code THEN << text >> ELSE << >>, NamingSteps)
  <2>2. ~ r.failed \/ NamingSteps \subseteq NamingSteps => Loaded(r.table, given, text, code)
    BY <2>1, EchoLoads
  <2>3. EchoOp(p, v, c) = r.table
    BY DEF EchoOp, EchoTexts
  <2> HIDE DEF r
  <2> QED BY <2>2, <2>3 DEF Loaded, GoodTable
<1>2. t \in A
  BY DEF Loaded, GoodTable
<1>3. EchoLoad!Closed(p, A, Codes)
  <2> HIDE DEF A, p
  <2> QED BY <1>1 DEF EchoLoad!Closed
<1> HIDE DEF A, p
<1>4. PICK h \in [0..Len(codes) -> A] : EchoLoad!Steps(h, p, t, codes) /\ h[Len(codes)] = EchoLoad!Folded(p, t, codes)
  BY <1>2, <1>3, EchoLoad!FoldSteps
<1>5. Len(codes) \in Nat
  OBVIOUS
<1>7. h[Len(codes)] \in A
  BY <1>5
<1> QED BY <1>4, <1>7 DEF A, p

LEMMA CodesInTurn ==
  /\ Upwards \in Seq(Codes) /\ Len(Upwards) = Cardinality(Codes)
  /\ Reverse(Upwards) \in Seq(Codes) /\ Len(Reverse(Upwards)) = Cardinality(Codes)
  /\ Reverse(Upwards)[1] = LastCode
<1> DEFINE n == Cardinality(Codes)
<1>1. n \in Nat /\ n > 0 /\ LastCode = n - 1 /\ LastCode + 1 = n
  BY CodesAssumption DEF LastCode
<1>2. ASSUME NEW i \in 1..n PROVE i - 1 \in Codes
  BY <1>1, CodesAre
<1>3. Upwards = [i \in 1..n |-> i - 1]
  BY <1>1 DEF Upwards
<1> HIDE DEF n
<1>4. Upwards \in [1..n -> Codes] /\ \A i \in 1..n : Upwards[i] = i - 1
  BY <1>2, <1>3
<1>5. Upwards \in Seq(Codes) /\ Len(Upwards) = n /\ n \in 1..n
  BY <1>1, <1>4
<1>6. Reverse(Upwards) = [i \in 1..n |-> Upwards[(n - i) + 1]]
  BY <1>5, Zenon DEF Reverse
<1>7. ASSUME NEW i \in 1..n PROVE Upwards[(n - i) + 1] \in Codes
  <2>1. (n - i) + 1 \in 1..n
    BY <1>1
  <2> QED BY <1>4, <2>1
<1>8. Reverse(Upwards) \in [1..n -> Codes] /\ Reverse(Upwards)[1] = Upwards[(n - 1) + 1]
  BY <1>1, <1>6, <1>7
<1>9. Upwards[(n - 1) + 1] = LastCode
  <2>1. (n - 1) + 1 = n
    BY <1>1
  <2> QED BY <1>1, <1>4, <1>5, <2>1
<1>10. Reverse(Upwards) \in Seq(Codes) /\ Len(Reverse(Upwards)) = n
  BY <1>1, <1>8
<1> QED BY <1>5, <1>8, <1>9, <1>10 DEF n

LEMMA KeysInTurn ==
  ASSUME NEW given, NEW t, NEW codes
  PROVE  FoldLeft(LAMBDA u, c : GiveName(u, c, given[c], NamingSteps).table, t, codes) = KeyLoad!Folded(given, t, codes)
BY DEF KeyOp, KeyLoad!Folded, FoldLeft, MapThenFoldSet, KeyLoad!MapThenFoldSet, Max, KeyLoad!Greatest

LEMMA EchoesInTurn ==
  ASSUME NEW given, NEW code, NEW text, NEW t, NEW codes
  PROVE  FoldLeft(LAMBDA u, c : mcr_Key_map(u, c, given[c], IF c = code THEN << text >> ELSE << >>, NamingSteps).table,
                  t, codes)
           = EchoLoad!Folded(<< given, code, text >>, t, codes)
BY DEF EchoOp, EchoTexts, EchoLoad!Folded, FoldLeft, MapThenFoldSet, EchoLoad!MapThenFoldSet, Max, EchoLoad!Greatest

NamesInv == GoodTable(table, unsure) /\ unsure \in SUBSET Codes /\ any \in SomeLabels

LEMMA FirstLoaded ==
  ASSUME NamesInv, CodeCount(table) = 0, table.codes = << >>, NEW given, NEW text, NEW code
  PROVE  Loaded(table, given, text, code)
<1>1. table \in NameTables /\ Len(table.names) = 0 /\ DOMAIN table.codes = {}
  BY TableParts DEF NamesInv, GoodTable
<1>2. \A c \in Codes : c \in Nat
  BY CodesAre
<1>3. GoodTable(table, {})
  BY <1>1, <1>2, CodesAre DEF GoodTable
<1> QED BY <1>1, <1>3 DEF Loaded

LEMMA PartOf ==
  ASSUME NEW codes \in Seq(Codes), NEW done \in 0..Len(codes)
  PROVE  /\ SubSeq(codes, 1, done) \in Seq(Codes) /\ Len(SubSeq(codes, 1, done)) = done
         /\ done > 0 => SubSeq(codes, 1, done)[1] = codes[1]
OBVIOUS

LEMMA LoadKeys ==
  ASSUME NamesInv, CodeCount(table) = 0, table.codes = << >>, add_key_names
  PROVE  NamesInv'
<1>1. PICK given \in Tables, code \in Codes, text \in Labels, granted \in SUBSET NamingSteps :
        /\ \A c \in Codes : given[c] # text
        /\ LoadInTurn(Reverse(Upwards), LAMBDA t, c, g : GiveName(t, c, given[c], g),
                      LAMBDA t : mcr_StringIndex_add(t, code, << text >>, granted).table)
  BY Zenon DEF add_key_names
<1> DEFINE codes == Reverse(Upwards)
           named(done) == FoldLeft(LAMBDA t, c : GiveName(t, c, given[c], NamingSteps).table, table, SubSeq(codes, 1, done))
<1>2. PICK done \in 0..Len(codes) :
        IF done = Len(codes) THEN Unnaming(mcr_StringIndex_add(named(done), code, << text >>, granted).table)
        ELSE \E g \in SUBSET NamingSteps :
               LET c == codes[done + 1]
                   result == GiveName(named(done), c, given[c], g)
               IN /\ result.failed
                  /\ table' = result.table
                  /\ unsure' = IF result.table.names = named(done).names THEN {} ELSE {c}
                  /\ UNCHANGED any
  BY <1>1 DEF LoadInTurn
<1> DEFINE part == SubSeq(codes, 1, done)
           u == named(done)
<1>3. codes \in Seq(Codes) /\ Len(codes) = Cardinality(Codes) /\ codes[1] = LastCode /\ Cardinality(Codes) \in Nat \ {0}
  BY CodesInTurn, CodesAssumption
<1> HIDE DEF codes
<1>4. part \in Seq(Codes) /\ Len(part) = done /\ (done > 0 => part[1] = codes[1])
  BY <1>3, PartOf
<1>5. u = KeyLoad!Folded(given, table, part)
  BY KeysInTurn
<1>6. Loaded(table, given, text, code)
  BY FirstLoaded
<1> HIDE DEF part, u
<1>7. /\ Loaded(u, given, text, code)
      /\ Len(part) > 0 /\ part[1] = LastCode => LastCode < Len(u.names)
  BY <1>1, <1>4, <1>5, <1>6, KeysFold
<1>8. CASE done = Len(codes)
  <2> DEFINE v == mcr_StringIndex_add(u, code, << text >>, granted).table
  <2>1. table' = v /\ UNCHANGED << any, unsure >>
    BY <1>2, <1>8 DEF Unnaming, u
  <2>2. LastCode < Len(u.names)
    BY <1>3, <1>4, <1>7, <1>8
  <2>3. code < Len(u.names)
    <3>1. code \in Nat /\ code <= LastCode /\ LastCode \in Nat
      BY CodesAssumption, CodesAre DEF LastCode
    <3>2. Len(u.names) \in Nat
      BY <1>7, TableParts DEF Loaded, GoodTable
    <3> QED BY <2>2, <3>1, <3>2
  <2>4. RoomLeft(u, {}, text, code)
    BY <1>1, <1>7, <2>3, LoadedFurther DEF RoomLeft, Loaded
  <2>5. << text >> \in Seq({text}) /\ {} \in SUBSET Codes
    OBVIOUS
  <2>6. RoomLeft(v, {}, text, code)
    BY <2>4, <2>5, AddIs
  <2> HIDE DEF v
  <2>7. GoodTable(v, unsure)
    BY <2>6 DEF RoomLeft, GoodTable
  <2> QED BY <2>1, <2>7 DEF NamesInv, RoomLeft
<1>9. CASE done # Len(codes)
  <2> DEFINE c == codes[done + 1]
  <2>1. PICK g \in SUBSET NamingSteps :
          LET result == GiveName(u, c, given[c], g)
          IN /\ result.failed
             /\ table' = result.table
             /\ unsure' = IF result.table.names = u.names THEN {} ELSE {c}
             /\ UNCHANGED any
    BY <1>2, <1>9 DEF u
  <2> DEFINE r == GiveName(u, c, given[c], g)
  <2>2. c \in Codes
    <3>1. done + 1 \in 1..Len(codes)
      BY <1>3, <1>9
    <3> QED BY <1>3, <3>1
  <2> HIDE DEF c
  <2>3. r.failed => LoadFails(r, u, c)
    BY <1>1, <1>7, <2>2, KeyLoads
  <2> HIDE DEF r
  <2>4. r.failed /\ table' = r.table /\ unsure' = (IF r.table.names = u.names THEN {} ELSE {c}) /\ any' = any
    BY <2>1 DEF r
  <2> QED BY <2>2, <2>3, <2>4 DEF LoadFails, NamesInv
<1> QED BY <1>8, <1>9

LEMMA LoadEchoes ==
  ASSUME NamesInv, CodeCount(table) = 0, table.codes = << >>, add_echo_names
  PROVE  NamesInv'
<1>1. PICK given \in Tables, code \in Codes, text \in Labels :
        /\ \A c \in Codes : given[c] \notin {text, NoText}
        /\ LoadInTurn(Upwards,
                      LAMBDA t, c, g : mcr_Key_map(t, c, given[c], IF c = code THEN << text >> ELSE << >>, g),
                      LAMBDA t : t)
  BY Zenon DEF add_echo_names
<1> DEFINE codes == Upwards
           named(done) == FoldLeft(LAMBDA t, c : mcr_Key_map(t, c, given[c], IF c = code THEN << text >> ELSE << >>, NamingSteps).table,
                                   table, SubSeq(codes, 1, done))
<1>2. PICK done \in 0..Len(codes) :
        IF done = Len(codes) THEN Unnaming(named(done))
        ELSE \E g \in SUBSET NamingSteps :
               LET c == codes[done + 1]
                   result == mcr_Key_map(named(done), c, given[c], IF c = code THEN << text >> ELSE << >>, g)
               IN /\ result.failed
                  /\ table' = result.table
                  /\ unsure' = IF result.table.names = named(done).names THEN {} ELSE {c}
                  /\ UNCHANGED any
  BY <1>1 DEF LoadInTurn
<1> DEFINE part == SubSeq(codes, 1, done)
           u == named(done)
<1>3. codes \in Seq(Codes) /\ Len(codes) \in Nat
  BY CodesInTurn
<1> HIDE DEF codes
<1>4. part \in Seq(Codes)
  BY <1>3, PartOf
<1>5. u = EchoLoad!Folded(<< given, code, text >>, table, part)
  BY EchoesInTurn
<1>6. Loaded(table, given, text, code)
  BY FirstLoaded
<1> HIDE DEF part, u
<1>7. Loaded(u, given, text, code)
  BY <1>1, <1>4, <1>5, <1>6, EchoesFold
<1>8. CASE done = Len(codes)
  <2>1. table' = u /\ UNCHANGED << any, unsure >>
    BY <1>2, <1>8 DEF Unnaming, u
  <2>7. GoodTable(u, unsure)
    BY <1>7 DEF Loaded, GoodTable
  <2> QED BY <2>1, <2>7 DEF NamesInv
<1>9. CASE done # Len(codes)
  <2> DEFINE c == codes[done + 1]
  <2>1. PICK g \in SUBSET NamingSteps :
          LET result == mcr_Key_map(u, c, given[c], IF c = code THEN << text >> ELSE << >>, g)
          IN /\ result.failed
             /\ table' = result.table
             /\ unsure' = IF result.table.names = u.names THEN {} ELSE {c}
             /\ UNCHANGED any
    BY <1>2, <1>9 DEF u
  <2> DEFINE r == mcr_Key_map(u, c, given[c], IF c = code THEN << text >> ELSE << >>, g)
  <2>2. c \in Codes
    <3>1. done + 1 \in 1..Len(codes)
      BY <1>3, <1>9
    <3> QED BY <1>3, <3>1
  <2> HIDE DEF c
  <2>3. r.failed => LoadFails(r, u, c)
    BY <1>1, <1>7, <2>2, EchoLoads
  <2> HIDE DEF r
  <2>4. r.failed /\ table' = r.table /\ unsure' = (IF r.table.names = u.names THEN {} ELSE {c}) /\ any' = any
    BY <2>1 DEF r
  <2> QED BY <2>2, <2>3, <2>4 DEF LoadFails, NamesInv
<1> QED BY <1>8, <1>9

LEMMA CallKeeps ==
  ASSUME NamesInv, NEW r, NEW i \in Codes, GoodResult(r, unsure, i), NameCall(r, i)
  PROVE  NamesInv'
<1>1. /\ table' = r.table /\ any' = any
      /\ unsure' = IF ~ r.failed THEN unsure \ {i} ELSE IF r.table = table THEN unsure ELSE unsure \union {i}
  BY DEF NameCall
<1>2. unsure' \in SUBSET Codes
  BY <1>1 DEF NamesInv
<1>3. GoodTable(r.table, unsure')
  BY <1>1 DEF GoodResult, NamesInv
<1> QED BY <1>1, <1>2, <1>3 DEF NamesInv

LEMMA UnnamingKeeps ==
  ASSUME NamesInv, NEW t, GoodTable(t, unsure), Unnaming(t)
  PROVE  NamesInv'
BY DEF NamesInv, Unnaming

LEMMA KnownNames ==
  ASSUME NamesInv
  PROVE  /\ KnownCodes = {c \in Codes : c < Len(table.names)} /\ CodeCount(table) = Len(table.names)
         /\ GoodTable(table, unsure) /\ unsure \in SUBSET Codes /\ table \in NameTables
         /\ \A text, c : FreeLabel(text, c) <=> LeadsOnlyTo(table, text, c)
BY DEF NamesInv, KnownCodes, CodeCount, GoodTable, FreeLabel, LeadsOnlyTo

LEMMA NamesStart == NamesInit => NamesInv
<1> SUFFICES ASSUME NamesInit PROVE NamesInv
  OBVIOUS
<1>1. table = TableOf(<< >>, << >>) /\ any \in SomeLabels /\ unsure = {}
  BY LabelsAssumption DEF NamesInit, TableOf, SomeLabels
<1>2. {} \in SUBSET Codes
  OBVIOUS
<1> QED BY <1>1, <1>2, NoNames DEF NamesInv

LEMMA NamesStay == NamesInv /\ [NamesNext]_nameVars => NamesInv'
<1> SUFFICES ASSUME NamesInv, [NamesNext]_nameVars PROVE NamesInv'
  OBVIOUS
<1> USE KnownNames
<1>1. CASE LoadNames
  BY <1>1, LoadKeys, LoadEchoes, Zenon DEF LoadNames
<1>2. CASE SetName
  <2>1. PICK code \in Codes, text \in SomeLabels, granted \in SUBSET NamingSteps :
          /\ IF text = NoText THEN code \in KnownCodes \/ CodeCount(table) = 0 ELSE FreeLabel(text, code)
          /\ NameCall(mcr_Key_set_name(table, code, text, granted), code)
    BY <1>2 DEF SetName, SomeLabels
  <2>2. text # NoText => LeadsOnlyTo(table, text, code)
    BY <2>1
  <2>3. GoodResult(mcr_Key_set_name(table, code, text, granted), unsure, code)
    BY <2>2, SetNameIs
  <2> QED BY <2>1, <2>3, CallKeeps
<1>3. CASE SetAny
  BY <1>3 DEF SetAny, NamesInv, SomeLabels
<1>4. CASE AddNames
  <2>1. PICK code \in KnownCodes, text \in Labels, granted \in SUBSET NamingSteps :
          FreeLabel(text, code) /\ Unnaming(mcr_StringIndex_add(table, code, << text >>, granted).table)
    BY <1>4 DEF AddNames
  <2>2. RoomLeft(table, unsure, text, code) /\ code \in Codes
    BY <2>1 DEF RoomLeft
  <2>3. << text >> \in Seq({text})
    OBVIOUS
  <2> DEFINE u == mcr_StringIndex_add(table, code, << text >>, granted).table
  <2>4. RoomLeft(u, unsure, text, code)
    BY <2>2, <2>3, AddIs
  <2> HIDE DEF u
  <2>5. GoodTable(u, unsure)
    BY <2>4 DEF RoomLeft
  <2> QED BY <2>1, <2>5, UnnamingKeeps DEF u
<1>5. CASE MapNames
  <2>1. PICK code \in Codes, text \in Labels, added \in Labels, granted \in SUBSET NamingSteps :
          /\ FreeLabel(text, code) /\ FreeLabel(added, code)
          /\ NameCall(mcr_Key_map(table, code, text, << added >>, granted), code)
    BY <1>5 DEF MapNames
  <2>2. GoodResult(mcr_Key_map(table, code, text, << added >>, granted), unsure, code)
    BY <2>1, KeyMapIsGood
  <2> QED BY <2>1, <2>2, CallKeeps
<1>6. CASE Reecho
  <2>1. PICK code \in Codes, new \in Codes, granted \in SUBSET NamingSteps :
          /\ code # new /\ (code \in KnownCodes \/ CodeCount(table) = 0)
          /\ LET moved == KeyName(table, code)
             IN /\ FreeLabel(moved, code) \/ FreeLabel(moved, new)
                /\ moved # NoText \/ new \in KnownCodes
          /\ NameCall(mcr_Key_rekey(table, code, new, granted), new)
    BY <1>6 DEF Reecho
  <2> DEFINE moved == KeyName(table, code)
  <2>2. moved \in SomeLabels
    <3>1. any \in SomeLabels /\ table.names \in Seq(SomeLabels) /\ Len(table.names) \in Nat /\ code \in Nat /\ NoText \in SomeLabels
      BY TableParts, CodesAre DEF NamesInv, SomeLabels
    <3>2. StringIndex_name(table, code) \in SomeLabels
      BY <2>1, <3>1 DEF StringIndex_name
    <3> QED BY <3>1, <3>2 DEF KeyName
  <2>3. moved # NoText => LeadsOnlyTo(table, moved, code) \/ LeadsOnlyTo(table, moved, new)
    BY <2>1
  <2>4. KeyName(table, code) = moved
    OBVIOUS
  <2> HIDE DEF moved
  <2>5. GoodResult(mcr_Key_rekey(table, code, new, granted), unsure, new)
    BY <2>1, <2>2, <2>3, <2>4, RekeyIs
  <2> QED BY <2>1, <2>5, CallKeeps
<1>7. CASE Rename
  <2>1. PICK old \in Labels, new \in Labels, granted \in SUBSET NamingSteps :
          /\ old # new
          /\ IF old \in DOMAIN table.codes
             THEN /\ FreeLabel(new, table.codes[old])
                  /\ NameCall(mcr_StringIndex_remap(table, old, new, granted), table.codes[old])
             ELSE Unnaming(mcr_StringIndex_remap(table, old, new, granted).table)
    BY <1>7 DEF Rename
  <2>2. CASE old \in DOMAIN table.codes
    <3>1. table.codes[old] \in Codes
      BY <2>2, TableParts, LeadingsAre
    <3>2. GoodResult(mcr_StringIndex_remap(table, old, new, granted), unsure, table.codes[old])
      BY <2>1, <2>2, RemapIs
    <3> QED BY <2>1, <2>2, <3>1, <3>2, CallKeeps
  <2>3. CASE old \notin DOMAIN table.codes
    <3>1. mcr_StringIndex_remap(table, old, new, granted).table = mcr_StringIndex_unmap_string(table, new, TRUE)
      BY <2>3, LabelsAssumption DEF mcr_StringIndex_remap, Succeeds
    <3>2. GoodTable(mcr_StringIndex_unmap_string(table, new, TRUE), unsure)
      BY UnmapStringIs
    <3> QED BY <2>1, <2>3, <3>1, <3>2, UnnamingKeeps
  <2> QED BY <2>2, <2>3
<1>8. CASE RenameToNothing
  <2>1. PICK old \in DOMAIN table.codes :
          /\ table' = mcr_StringIndex_remap(table, old, NoText, {}).table
          /\ unsure' = unsure \union {table.codes[old]}
          /\ UNCHANGED any
    BY <1>8 DEF RenameToNothing
  <2>2. table.codes[old] \in Codes
    BY TableParts, LeadingsAre
  <2>3. GoodTable(mcr_StringIndex_remap(table, old, NoText, {}).table, unsure \union {table.codes[old]})
    BY RemapToNothingIs
  <2> QED BY <2>1, <2>2, <2>3 DEF NamesInv
<1>9. CASE UnmapCode
  <2>1. PICK code \in KnownCodes, all \in BOOLEAN : Unnaming(mcr_StringIndex_unmap(table, code, all))
    BY <1>9 DEF UnmapCode
  <2> DEFINE u == mcr_StringIndex_unmap(table, code, all)
             E == unsure \ {code}
  <2>2. GoodTable(u, E)
    BY UnmapIs
  <2> HIDE DEF u
  <2>3. GoodTable(u, unsure)
    BY <2>2, DoubtMore
  <2> QED BY <2>1, <2>3, UnnamingKeeps DEF u
<1>10. CASE UnmapText
  <2>1. PICK text \in Labels, all \in BOOLEAN : Unnaming(mcr_StringIndex_unmap_string(table, text, all))
    BY <1>10 DEF UnmapText
  <2>2. GoodTable(mcr_StringIndex_unmap_string(table, text, all), unsure)
    BY UnmapStringIs
  <2> QED BY <2>1, <2>2, UnnamingKeeps
<1>11. CASE Reindex
  <2>1. PICK code \in KnownCodes, new \in KnownCodes :
          /\ table' = mcr_StringIndex_reindex(table, code, new)
          /\ unsure' = IF code \in unsure THEN unsure \union {new} ELSE unsure \ {new}
          /\ UNCHANGED any
    BY <1>11 DEF Reindex
  <2>2. GoodTable(mcr_StringIndex_reindex(table, code, new), IF code \in unsure THEN unsure \union {new} ELSE unsure \ {new})
    BY ReindexIs
  <2> QED BY <2>1, <2>2 DEF NamesInv
<1>12. CASE ResizeNames
  <2>1. PICK n \in Nat : Unnaming(mcr_StringIndex_resize(table, n))
    BY <1>12, CodesAre DEF ResizeNames
  <2>2. GoodTable(mcr_StringIndex_resize(table, n), unsure)
    BY ResizeIs
  <2> QED BY <2>1, <2>2, UnnamingKeeps
<1>13. CASE ClearNames
  <2>1. Unnaming(TableOf(<< >>, << >>))
    BY <1>13 DEF ClearNames, mcr_StringIndex_clear, TableOf
  <2> QED BY <2>1, NoNames, UnnamingKeeps
<1>14. CASE UNCHANGED nameVars
  BY <1>14 DEF nameVars, NamesInv
<1> QED BY <1>1, <1>2, <1>3, <1>4, <1>5, <1>6, <1>7, <1>8, <1>9, <1>10, <1>11, <1>12, <1>13, <1>14 DEF NamesNext

LEMMA NamesFound == NamesInv => FoundByName
<1> SUFFICES ASSUME NamesInv PROVE FoundByName
  OBVIOUS
<1> USE KnownNames
<1>1. ASSUME NEW code \in KnownCodes \ unsure,
             StringIndex_name(table, code) # NoText
      PROVE  /\ StringIndex_name(table, code) \in DOMAIN table.codes
             /\ table.codes[StringIndex_name(table, code)] = code
  <2>1. code \in Nat /\ Len(table.names) \in Nat
    BY TableParts, CodesAre
  <2>2. StringIndex_name(table, code) = table.names[code + 1]
    BY <2>1 DEF StringIndex_name
  <2>3. Named(table, code)
    BY DEF GoodTable
  <2> QED BY <1>1, <2>2, <2>3 DEF Named
<1>2. ASSUME NEW n \in DOMAIN table.codes PROVE table.codes[n] \in KnownCodes
  <2>1. table.codes[n] \in Codes
    BY TableParts, LeadingsAre
  <2> QED BY <2>1 DEF GoodTable
<1> QED BY <1>1, <1>2 DEF FoundByName

\* Codes are found by their names, and names lead to codes that are in the table.
LEMMA NamesStayFound == NamesSpec => []FoundByName
<1>1. NamesSpec => []NamesInv
  BY NamesStart, NamesStay, PTL DEF NamesSpec
<1> QED BY <1>1, NamesFound, PTL

\* What the tables of names are.
LEMMA NamesTyped == NamesSpec => []NamesTypeOK
<1>1. NamesInv => NamesTypeOK
  BY TableParts, LeadingsAre DEF NamesInv, GoodTable, NamesTypeOK, SomeLabels, CodeCount
<1> QED BY <1>1, NamesStart, NamesStay, PTL DEF NamesSpec

-----------------------------------------------------------------------------
(* Macros of C++: which receivers are whose.                               *)

WrapTriggers == [itrigger : BOOLEAN, actor : Wrapped]

WrapTyped ==
  /\ wrapped \in [Wrapped -> [live : BOOLEAN, enabled : BOOLEAN, ctx : BOOLEAN,
                              activators : SUBSET Activators, block : Blocks \union {Nowhere}]]
  /\ memory \in [Blocks -> [room : 0 .. MostTriggers, cells : Seq(WrapTriggers)]]
  /\ \A b \in Blocks : Len(memory[b].cells) <= memory[b].room
  /\ dispatched \in [Activators \X Receivers -> 0 .. MostTimes]
  /\ drifted \subseteq Wrapped /\ reshaped \in BOOLEAN

\* Memory is of one macro at a time, and its triggers start that macro.
OwnBlocks ==
  /\ \A m \in Wrapped : wrapped[m].block # Nowhere =>
       memory[wrapped[m].block].room > 0 /\ \A i \in DOMAIN Cells(m) : Cells(m)[i].actor = m
  /\ \A m, n \in Wrapped : wrapped[m].block = wrapped[n].block /\ wrapped[m].block # Nowhere => m = n
  /\ \A m \in Wrapped : ~ wrapped[m].live => wrapped[m].block = Nowhere

\* Signals go to macros that there are.
Started == \A p \in DOMAIN dispatched : dispatched[p] > 0 => \E m \in Wrapped : wrapped[m].live /\ p[2] \in Own(m)

\* How often a signal goes to a receiver of the macro.
Anew(p, m, activators, block, kinds) == Added([q \in {p} |-> 0], m, activators, block, kinds)[p]
Expected(m, p) ==
  IF wrapped[m].enabled THEN Anew(p, m, wrapped[m].activators, wrapped[m].block, Kinds(m)) ELSE 0

Exact(m) ==
  wrapped[m].live /\ m \notin drifted => \A p \in DOMAIN dispatched : p[2] \in Own(m) => dispatched[p] = Expected(m, p)

WrapInv == WrapTyped /\ OwnBlocks /\ (~ reshaped => Started /\ \A m \in Wrapped : Exact(m))

\* The triggers of a macro are a list that fits its memory.
LEMMA CellsAre ==
  ASSUME WrapTyped, NEW m \in Wrapped
  PROVE  /\ Cells(m) \in Seq(WrapTriggers) /\ Len(Cells(m)) <= MostTriggers /\ Len(Cells(m)) <= Room(m)
         /\ Len(Cells(m)) \in Nat /\ DOMAIN Cells(m) = 1 .. Len(Cells(m)) /\ Room(m) \in 0 .. MostTriggers
         /\ Kinds(m) \in TriggerLists /\ DOMAIN Kinds(m) = 1 .. Len(Cells(m))
         /\ Starting(m, Kinds(m)) \in Seq(WrapTriggers)
<1>1. wrapped[m].block \in Blocks \union {Nowhere} /\ MostTriggers \in Nat
  BY WrapAssumption DEF WrapTyped
<1>2. /\ Cells(m) \in Seq(WrapTriggers) /\ Len(Cells(m)) <= Room(m) /\ Room(m) \in 0 .. MostTriggers
  <2>1. CASE wrapped[m].block = Nowhere
    BY <1>1, <2>1 DEF Cells, Room
  <2>2. CASE wrapped[m].block # Nowhere
    <3>1. memory[wrapped[m].block] \in [room : 0 .. MostTriggers, cells : Seq(WrapTriggers)]
          /\ Len(memory[wrapped[m].block].cells) <= memory[wrapped[m].block].room
      BY <1>1, <2>2 DEF WrapTyped
    <3> QED BY <2>2, <3>1 DEF Cells, Room
  <2> QED BY <2>1, <2>2
<1>3. Len(Cells(m)) \in Nat /\ DOMAIN Cells(m) = 1 .. Len(Cells(m)) /\ Len(Cells(m)) \in 0 .. MostTriggers
  BY <1>1, <1>2
<1>4. \A i \in 1 .. Len(Cells(m)) : Cells(m)[i].itrigger \in BOOLEAN
  <2>1. \A i \in 1 .. Len(Cells(m)) : Cells(m)[i] \in WrapTriggers
    BY <1>2
  <2> QED BY <2>1 DEF WrapTriggers
<1>5. Kinds(m) \in [1 .. Len(Cells(m)) -> BOOLEAN]
  BY <1>3, <1>4 DEF Kinds
<1>6. Kinds(m) \in TriggerLists
  BY <1>3, <1>5 DEF TriggerLists
<1>7. Starting(m, Kinds(m)) \in [1 .. Len(Cells(m)) -> WrapTriggers]
  BY <1>5 DEF Starting, WrapTriggers
<1> QED BY <1>2, <1>3, <1>5, <1>6, <1>7

LEMMA ListsAre ==
  ASSUME NEW kinds \in TriggerLists, NEW m \in Wrapped
  PROVE  /\ \E n \in 0 .. MostTriggers : kinds \in [1 .. n -> BOOLEAN] /\ Len(kinds) = n /\ n \in Nat
         /\ Len(kinds) \in 0 .. MostTriggers /\ DOMAIN kinds = 1 .. Len(kinds)
         /\ Starting(m, kinds) \in Seq(WrapTriggers) /\ Len(Starting(m, kinds)) = Len(kinds)
         /\ \A i \in 1 .. Len(kinds) : Starting(m, kinds)[i].actor = m
         /\ [i \in DOMAIN Starting(m, kinds) |-> Starting(m, kinds)[i].itrigger] = kinds
<1>1. PICK n \in 0 .. MostTriggers : kinds \in [1 .. n -> BOOLEAN]
  BY DEF TriggerLists
<1>2. n \in Nat /\ Len(kinds) = n /\ DOMAIN kinds = 1 .. n
  BY <1>1, WrapAssumption
<1>3. Starting(m, kinds) \in [1 .. n -> WrapTriggers]
  BY <1>1 DEF Starting, WrapTriggers
<1>4. /\ \A i \in 1 .. n : Starting(m, kinds)[i].actor = m
      /\ [i \in 1 .. n |-> Starting(m, kinds)[i].itrigger] = kinds
  BY <1>1 DEF Starting
<1>5. Starting(m, kinds) \in Seq(WrapTriggers) /\ Len(Starting(m, kinds)) = n /\ DOMAIN Starting(m, kinds) = 1 .. n
  BY <1>2, <1>3
<1> QED BY <1>1, <1>2, <1>4, <1>5

\* Whose a receiver is.
LEMMA OwnIs ==
  ASSUME WrapTyped, NEW m \in Wrapped, NEW r
  PROVE  r \in Own(m) <=> r = << m, 0 >> \/ \E i \in 1 .. Len(Cells(m)) : r = << wrapped[m].block, i >>
BY CellsAre DEF Own

LEMMA OneOwner ==
  ASSUME WrapTyped, OwnBlocks, NEW m \in Wrapped, NEW n \in Wrapped, NEW r \in Own(m), r \in Own(n)
  PROVE  m = n
<1>1. CASE r = << m, 0 >>
  <2>1. r = << n, 0 >>
    <3>1. ASSUME NEW i \in 1 .. Len(Cells(n)), r = << wrapped[n].block, i >> PROVE FALSE
      BY <1>1, <3>1, CellsAre
    <3> QED BY <3>1, OwnIs
  <2> QED BY <1>1, <2>1
<1>2. CASE r # << m, 0 >>
  <2>1. PICK i \in 1 .. Len(Cells(m)) : r = << wrapped[m].block, i >>
    BY <1>2, OwnIs
  <2>2. r # << n, 0 >>
    BY <2>1, CellsAre
  <2>3. PICK j \in 1 .. Len(Cells(n)) : r = << wrapped[n].block, j >>
    BY <2>2, OwnIs
  <2>4. wrapped[m].block # Nowhere
    <3> SUFFICES ASSUME wrapped[m].block = Nowhere PROVE FALSE
      OBVIOUS
    <3>1. Cells(m) = << >>
      BY DEF Cells
    <3> QED BY <2>1, <3>1
  <2> QED BY <2>1, <2>3, <2>4 DEF OwnBlocks
<1> QED BY <1>1, <1>2

\* How often a macro appears among its triggers.
LEMMA TimesAre ==
  ASSUME NEW kinds \in TriggerLists, NEW m, NEW block, NEW r
  PROVE  /\ Times(m, block, kinds, r) \in Nat
         /\ Times(m, block, kinds, r) > 0 => \E i \in 1 .. Len(kinds) : r = Receiver(m, block, kinds, i)
<1> DEFINE S == {i \in DOMAIN kinds : Receiver(m, block, kinds, i) = r}
<1>1. PICK n \in Nat : DOMAIN kinds = 1 .. n /\ Len(kinds) = n
  <2>1. PICK n \in 0 .. MostTriggers : kinds \in [1 .. n -> BOOLEAN]
    BY DEF TriggerLists
  <2> QED BY <2>1, WrapAssumption
<1>2. IsFiniteSet(S)
  <2>1. IsFiniteSet(1 .. n)
    BY <1>1, FS_Interval
  <2> QED BY <1>1, <2>1, FS_Subset
<1>3. Cardinality(S) \in Nat /\ (Cardinality(S) > 0 => S # {})
  BY <1>2, FS_CardinalityType, FS_EmptySet
<1> QED BY <1>1, <1>3 DEF Times

LEMMA ReceiverIsOwn ==
  ASSUME NEW m \in Wrapped, NEW block, NEW kinds \in TriggerLists, NEW i \in 1 .. Len(kinds)
  PROVE  Receiver(m, block, kinds, i) = << m, 0 >> \/ Receiver(m, block, kinds, i) = << block, i >>
BY DEF Receiver

\* New triggers of a macro take memory that is its own or nobody's.
LEMMA HoldingKeeps ==
  ASSUME WrapTyped, OwnBlocks, NEW m \in Wrapped, NEW cells \in Seq(WrapTriggers), Len(cells) \in 0 .. MostTriggers,
         \A i \in 1 .. Len(cells) : cells[i].actor = m,
         NEW place \in Places(m, Len(cells)), memory' = Holding(m, cells, place),
         wrapped'[m].block = place, \A n \in Wrapped \ {m} : wrapped'[n] = wrapped[n]
  PROVE  /\ memory' \in [Blocks -> [room : 0 .. MostTriggers, cells : Seq(WrapTriggers)]]
         /\ \A b \in Blocks : Len(memory'[b].cells) <= memory'[b].room
         /\ place \in Blocks \union {Nowhere}
         /\ Cells(m)' = cells /\ \A n \in Wrapped \ {m} : Cells(n)' = Cells(n)
         /\ place # Nowhere => memory'[place].room > 0
         /\ \A n \in Wrapped \ {m} : wrapped[n].block # Nowhere =>
              wrapped[n].block # place /\ memory'[wrapped[n].block] = memory[wrapped[n].block]
<1>1. /\ Len(cells) \in Nat /\ MostTriggers \in Nat /\ Nowhere \notin Blocks
      /\ \A n \in Wrapped : wrapped[n].block \in Blocks \union {Nowhere}
      /\ Room(m) \in 0 .. MostTriggers
  BY WrapAssumption, CellsAre DEF WrapTyped
<1>2. \A b \in Blocks : /\ memory[b] \in [room : 0 .. MostTriggers, cells : Seq(WrapTriggers)]
                        /\ Len(memory[b].cells) <= memory[b].room
  BY DEF WrapTyped
<1>3. \/ place = wrapped[m].block /\ Len(cells) <= Room(m)
      \/ place \in Blocks /\ memory[place] = Free /\ Len(cells) > Room(m) /\ place # wrapped[m].block
  <2>1. CASE Len(cells) <= Room(m)
    BY <2>1 DEF Places
  <2>2. CASE ~ (Len(cells) <= Room(m))
    <3>1. place \in Blocks /\ memory[place] = Free /\ Len(cells) > Room(m)
      BY <1>1, <2>2 DEF Places
    <3>2. place # wrapped[m].block
      <4> SUFFICES ASSUME place = wrapped[m].block PROVE FALSE
        OBVIOUS
      <4>1. memory[wrapped[m].block].room > 0 /\ memory[wrapped[m].block].room = 0
        BY <1>1, <3>1 DEF OwnBlocks, Free
      <4> QED BY <4>1
    <3> QED BY <3>1, <3>2
  <2> QED BY <2>1, <2>2
<1>4. place \in Blocks \union {Nowhere}
  BY <1>1, <1>3
<1>5. \A b \in Blocks : memory'[b] =
        IF b = place THEN [room |-> IF b = wrapped[m].block THEN Room(m) ELSE Len(cells), cells |-> cells]
        ELSE IF b = wrapped[m].block THEN Free ELSE memory[b]
  BY DEF Holding
<1>6. Free \in [room : 0 .. MostTriggers, cells : Seq(WrapTriggers)] /\ Len(Free.cells) <= Free.room
  BY <1>1 DEF Free
<1>7. ASSUME NEW b \in Blocks
      PROVE  memory'[b] \in [room : 0 .. MostTriggers, cells : Seq(WrapTriggers)] /\ Len(memory'[b].cells) <= memory'[b].room
  <2>1. CASE b = place
    <3> DEFINE room == IF b = wrapped[m].block THEN Room(m) ELSE Len(cells)
    <3>1. room \in 0 .. MostTriggers /\ Len(cells) <= room
      BY <1>1, <1>3, <2>1
    <3>2. memory'[b] = [room |-> room, cells |-> cells]
      BY <1>5, <2>1
    <3> HIDE DEF room
    <3> QED BY <3>1, <3>2
  <2>2. CASE b # place /\ b = wrapped[m].block
    BY <1>5, <1>6, <2>2
  <2>3. CASE b # place /\ b # wrapped[m].block
    BY <1>2, <1>5, <2>3
  <2> QED BY <2>1, <2>2, <2>3
<1>13. ASSUME place # Nowhere
       PROVE  /\ memory'[place].cells = cells
              /\ memory'[place].room = IF place = wrapped[m].block THEN Room(m) ELSE Len(cells)
  <2> DEFINE room == IF place = wrapped[m].block THEN Room(m) ELSE Len(cells)
  <2>1. place \in Blocks
    BY <1>4, <1>13
  <2>2. memory'[place] = [room |-> room, cells |-> cells]
    BY <1>5, <2>1
  <2> HIDE DEF room
  <2>3. memory'[place].cells = cells /\ memory'[place].room = room
    BY <2>2
  <2> QED BY <2>3 DEF room
<1>8. memory' \in [Blocks -> [room : 0 .. MostTriggers, cells : Seq(WrapTriggers)]]
  <2>1. memory' = [b \in Blocks |-> memory'[b]]
    BY DEF Holding
  <2> QED BY <1>7, <2>1
<1>9. Cells(m)' = cells
  <2>1. CASE place = Nowhere
    <3>1. Len(cells) = 0
      BY <1>1, <1>3, <2>1 DEF Room
    <3> QED BY <2>1, <3>1 DEF Cells
  <2>2. CASE place # Nowhere
    BY <1>13, <2>2 DEF Cells
  <2> QED BY <2>1, <2>2
<1>10. place # Nowhere => memory'[place].room > 0
  <2> SUFFICES ASSUME place # Nowhere PROVE memory'[place].room > 0
    OBVIOUS
  <2>1. memory'[place].room = IF place = wrapped[m].block THEN Room(m) ELSE Len(cells)
    BY <1>13
  <2>2. CASE place = wrapped[m].block
    BY <2>1, <2>2 DEF OwnBlocks, Room
  <2>3. CASE place # wrapped[m].block
    BY <1>1, <1>3, <2>1, <2>3
  <2> QED BY <2>2, <2>3
<1>11. ASSUME NEW n \in Wrapped \ {m}, wrapped[n].block # Nowhere
       PROVE  wrapped[n].block # place /\ memory'[wrapped[n].block] = memory[wrapped[n].block]
  <2>1. wrapped[n].block \in Blocks /\ wrapped[n].block # wrapped[m].block
    BY <1>1, <1>11 DEF OwnBlocks
  <2>2. wrapped[n].block # place
    <3> SUFFICES ASSUME wrapped[n].block = place PROVE FALSE
      OBVIOUS
    <3>1. memory[wrapped[n].block].room > 0 /\ memory[wrapped[n].block].room = 0
      BY <1>3, <1>11, <2>1 DEF OwnBlocks, Free
    <3> QED BY <3>1
  <2> QED BY <1>5, <2>1, <2>2
<1>12. ASSUME NEW n \in Wrapped \ {m} PROVE Cells(n)' = Cells(n)
  BY <1>11 DEF Cells
<1> QED BY <1>4, <1>7, <1>8, <1>9, <1>10, <1>11, <1>12

\* So memory stays of one macro at a time, and what was nobody's receiver is not dispatched to.
LEMMA MovedKeeps ==
  ASSUME WrapTyped, OwnBlocks, NEW m \in Wrapped, NEW cells \in Seq(WrapTriggers), Len(cells) \in 0 .. MostTriggers,
         \A i \in 1 .. Len(cells) : cells[i].actor = m,
         NEW place \in Places(m, Len(cells)), memory' = Holding(m, cells, place),
         wrapped'[m].block = place, wrapped'[m].live, \A n \in Wrapped \ {m} : wrapped'[n] = wrapped[n]
  PROVE  /\ OwnBlocks'
         /\ Started => \A p \in DOMAIN dispatched : p[2] \in Own(m)' /\ p[2] \notin Own(m) => ~ (dispatched[p] > 0)
<1>1. /\ Cells(m)' = cells /\ \A n \in Wrapped \ {m} : Cells(n)' = Cells(n)
      /\ place # Nowhere => memory'[place].room > 0
      /\ \A n \in Wrapped \ {m} : wrapped[n].block # Nowhere =>
           wrapped[n].block # place /\ memory'[wrapped[n].block] = memory[wrapped[n].block]
  BY HoldingKeeps
<1>2. DOMAIN cells = 1 .. Len(cells) /\ Len(cells) \in Nat
  OBVIOUS
<1>3. OwnBlocks'
  <2>1. ASSUME NEW n \in Wrapped, wrapped'[n].block # Nowhere
        PROVE  memory'[wrapped'[n].block].room > 0 /\ \A i \in DOMAIN Cells(n)' : Cells(n)'[i].actor = n
    BY <1>1, <1>2, <2>1 DEF OwnBlocks
  <2>2. ASSUME NEW n \in Wrapped, NEW l \in Wrapped, wrapped'[n].block = wrapped'[l].block, wrapped'[n].block # Nowhere
        PROVE  n = l
    BY <1>1, <2>2 DEF OwnBlocks
  <2>3. \A n \in Wrapped : ~ wrapped'[n].live => wrapped'[n].block = Nowhere
    BY DEF OwnBlocks
  <2> QED BY <2>1, <2>2, <2>3 DEF OwnBlocks
<1>4. ASSUME Started, NEW p \in DOMAIN dispatched, p[2] \in Own(m)', p[2] \notin Own(m), dispatched[p] > 0
      PROVE  FALSE
  <2>1. PICK n \in Wrapped : p[2] \in Own(n)
    BY <1>4 DEF Started
  <2>2. n \in Wrapped \ {m} /\ p[2] # << m, 0 >>
    BY <1>4, <2>1 DEF Own
  <2>3. PICK i \in 1 .. Len(cells) : p[2] = << place, i >>
    BY <1>1, <1>2, <1>4, <2>2 DEF Own
  <2>4. PICK j \in 1 .. Len(Cells(n)) : p[2] = << wrapped[n].block, j >>
    BY <2>1, <2>2, <2>3, OwnIs
  <2>5. wrapped[n].block # Nowhere
    <3> SUFFICES ASSUME wrapped[n].block = Nowhere PROVE FALSE
      OBVIOUS
    <3>1. Cells(n) = << >>
      BY DEF Cells
    <3> QED BY <2>4, <3>1
  <2> QED BY <1>1, <2>2, <2>3, <2>4, <2>5
<1> QED BY <1>3, <1>4

\* What is dispatched follows what becomes of one macro, if that of all others is left alone.
LEMMA OthersHeard ==
  ASSUME WrapTyped, OwnBlocks, Started, \A n \in Wrapped : Exact(n), NEW m \in Wrapped,
         \A n \in Wrapped \ {m} : wrapped'[n] = wrapped[n] /\ Cells(n)' = Cells(n) /\ (n \in drifted => n \in drifted'),
         DOMAIN dispatched' = DOMAIN dispatched,
         \A p \in DOMAIN dispatched : (\E n \in Wrapped \ {m} : p[2] \in Own(n)) => dispatched'[p] = dispatched[p],
         \A p \in DOMAIN dispatched : dispatched'[p] > 0 =>
           (wrapped'[m].live /\ p[2] \in Own(m)') \/ (dispatched[p] > 0 /\ p[2] \notin Own(m)),
         Exact(m)'
  PROVE  Started' /\ \A n \in Wrapped : Exact(n)'
<1>1. \A n \in Wrapped \ {m} : Own(n)' = Own(n) /\ Kinds(n)' = Kinds(n)
  BY DEF Own, Kinds
<1>2. Started'
  <2> SUFFICES ASSUME NEW p \in DOMAIN dispatched, dispatched'[p] > 0
               PROVE  \E n \in Wrapped : wrapped'[n].live /\ p[2] \in Own(n)'
    BY DEF Started
  <2>1. CASE wrapped'[m].live /\ p[2] \in Own(m)'
    BY <2>1
  <2>2. CASE dispatched[p] > 0 /\ p[2] \notin Own(m)
    <3>1. PICK n \in Wrapped : wrapped[n].live /\ p[2] \in Own(n)
      BY <2>2 DEF Started
    <3> QED BY <1>1, <2>2, <3>1
  <2> QED BY <2>1, <2>2
<1>3. ASSUME NEW n \in Wrapped \ {m} PROVE Exact(n)'
  <2>1. \A p \in DOMAIN dispatched : Expected(n, p)' = Expected(n, p)
    BY <1>1 DEF Expected, Anew, Added, Times, Receiver
  <2>2. \A p \in DOMAIN dispatched : p[2] \in Own(n) => dispatched'[p] = dispatched[p]
    OBVIOUS
  <2>3. Exact(n)
    OBVIOUS
  <2> QED BY <1>1, <2>1, <2>2, <2>3 DEF Exact
<1> QED BY <1>2, <1>3

\* Adding dispatches to receivers of the macro alone, and to all of them unless some of it failed.
Accepts(d, drift, m, activators, block, kinds, result, drifts) ==
  LET all == Added(d, m, activators, block, kinds)
      changed == {p \in DOMAIN d : all[p] # d[p]}
  IN \E accepted \in SUBSET changed :
       /\ result = [p \in DOMAIN d |-> IF p \in accepted THEN all[p] ELSE d[p]]
       /\ \A p \in accepted : all[p] <= MostTimes
       /\ drifts = IF accepted = changed THEN drift ELSE drift \union {m}

Enlisted(d, drift, m, activators, block, kinds, result, drifts) ==
  /\ result \in [Activators \X Receivers -> 0 .. MostTimes]
  /\ drifts = drift \/ drifts = drift \union {m}
  /\ \A p \in Activators \X Receivers :
       result[p] = d[p] \/ \E i \in 1 .. Len(kinds) : p[2] = Receiver(m, block, kinds, i)
  /\ \A p \in Activators \X Receivers : m \notin drifts /\ d[p] = 0 => result[p] = Anew(p, m, activators, block, kinds)

LEMMA EnlistsOwn ==
  ASSUME NEW d \in [Activators \X Receivers -> 0 .. MostTimes], NEW drift \in SUBSET Wrapped, NEW m \in Wrapped,
         NEW activators, NEW block, NEW kinds \in TriggerLists, NEW result, NEW drifts,
         Accepts(d, drift, m, activators, block, kinds, result, drifts)
  PROVE  Enlisted(d, drift, m, activators, block, kinds, result, drifts)
<1> DEFINE all == Added(d, m, activators, block, kinds)
           changed == {p \in DOMAIN d : all[p] # d[p]}
<1>1. PICK accepted \in SUBSET changed :
        /\ result = [p \in DOMAIN d |-> IF p \in accepted THEN all[p] ELSE d[p]]
        /\ \A p \in accepted : all[p] <= MostTimes
        /\ drifts = IF accepted = changed THEN drift ELSE drift \union {m}
  BY DEF Accepts
<1>2. DOMAIN d = Activators \X Receivers /\ MostTimes \in Nat /\ \A p \in Activators \X Receivers : d[p] \in 0 .. MostTimes
  BY WrapAssumption
<1>3. ASSUME NEW p \in Activators \X Receivers
      PROVE  /\ all[p] = LET times == Times(m, block, kinds, p[2])
                         IN IF p[1] \in activators /\ times > 0 THEN Listed(p, times, d[p]) ELSE d[p]
             /\ Anew(p, m, activators, block, kinds) =
                  LET times == Times(m, block, kinds, p[2])
                  IN IF p[1] \in activators /\ times > 0 THEN Listed(p, times, 0) ELSE 0
  BY <1>2 DEF Added, Anew
<1> HIDE DEF all
<1>4. ASSUME NEW p \in Activators \X Receivers
      PROVE  all[p] \in Nat /\ (all[p] # d[p] => \E i \in 1 .. Len(kinds) : p[2] = Receiver(m, block, kinds, i))
  <2>1. /\ Times(m, block, kinds, p[2]) \in Nat
        /\ Times(m, block, kinds, p[2]) > 0 => \E i \in 1 .. Len(kinds) : p[2] = Receiver(m, block, kinds, i)
    BY TimesAre
  <2>2. d[p] \in Nat
    BY <1>2
  <2>3. Listed(p, Times(m, block, kinds, p[2]), d[p]) \in Nat
    BY <2>1, <2>2 DEF Listed
  <2> QED BY <1>3, <2>1, <2>2, <2>3
<1>5. ASSUME NEW p \in Activators \X Receivers PROVE result[p] = IF p \in accepted THEN all[p] ELSE d[p]
  BY <1>1, <1>2
<1>6. ASSUME NEW p \in Activators \X Receivers PROVE result[p] \in 0 .. MostTimes
  BY <1>1, <1>2, <1>4, <1>5
<1>7. result \in [Activators \X Receivers -> 0 .. MostTimes]
  <2>1. result = [p \in Activators \X Receivers |-> result[p]]
    BY <1>1, <1>2
  <2> QED BY <1>6, <2>1
<1>8. ASSUME NEW p \in Activators \X Receivers, m \notin drifts, d[p] = 0
      PROVE  result[p] = Anew(p, m, activators, block, kinds)
  <2>1. accepted = changed
    BY <1>1, <1>8
  <2>2. result[p] = all[p]
    BY <1>2, <1>5, <2>1
  <2> QED BY <1>3, <1>8, <2>2
<1> QED BY <1>1, <1>4, <1>5, <1>7, <1>8 DEF Enlisted

LEMMA UnlistedIs ==
  ASSUME WrapTyped, NEW m \in Wrapped
  PROVE  /\ Unlisted(dispatched, m) \in [Activators \X Receivers -> 0 .. MostTimes]
         /\ \A p \in Activators \X Receivers :
              Unlisted(dispatched, m)[p] = IF p[2] \in Own(m) THEN 0 ELSE dispatched[p]
BY WrapAssumption DEF WrapTyped, Unlisted

\* Calls that leave memory alone.
LEMMA BlocksKept ==
  ASSUME WrapTyped, OwnBlocks, memory' = memory,
         \A n \in Wrapped : wrapped'[n].block = wrapped[n].block /\ (wrapped[n].live => wrapped'[n].live)
  PROVE  OwnBlocks' /\ \A n \in Wrapped : Cells(n)' = Cells(n) /\ Own(n)' = Own(n) /\ Kinds(n)' = Kinds(n)
<1>1. \A n \in Wrapped : Cells(n)' = Cells(n)
  BY DEF Cells
<1>2. \A n \in Wrapped : Own(n)' = Own(n) /\ Kinds(n)' = Kinds(n)
  BY <1>1 DEF Own, Kinds
<1>3. OwnBlocks'
  BY <1>1 DEF OwnBlocks
<1> QED BY <1>1, <1>2, <1>3

\* A receiver has one owner, and still after a step.
Separate == \A m, n \in Wrapped : \A r \in Own(m) : r \in Own(n) => m = n

LEMMA OwnersSeparate == WrapTyped /\ OwnBlocks => Separate
BY OneOwner DEF Separate

LEMMA ThenSeparate == WrapTyped' /\ OwnBlocks' => Separate'
BY OwnersSeparate, PTL

\* After a step, the triggers of a macro are such a list again, and its own receivers.
KindsFit ==
  \A m \in Wrapped :
    /\ Kinds(m) \in TriggerLists
    /\ \A i \in 1 .. Len(Kinds(m)) : Receiver(m, wrapped[m].block, Kinds(m), i) \in Own(m)

LEMMA KindsAre == WrapTyped => KindsFit
<1> SUFFICES ASSUME WrapTyped, NEW m \in Wrapped
             PROVE  /\ Kinds(m) \in TriggerLists
                    /\ \A i \in 1 .. Len(Kinds(m)) : Receiver(m, wrapped[m].block, Kinds(m), i) \in Own(m)
  BY DEF KindsFit
<1>1. Kinds(m) \in TriggerLists /\ DOMAIN Kinds(m) = DOMAIN Cells(m)
  BY CellsAre
<1>2. DOMAIN Kinds(m) = 1 .. Len(Kinds(m))
  BY <1>1, ListsAre
<1> QED BY <1>1, <1>2, ReceiverIsOwn DEF Own

LEMMA ThenKindsAre == WrapTyped' => KindsFit'
BY KindsAre, PTL

\* What one call does for one macro: d is what is dispatched before it adds some.
LEMMA Relisted ==
  ASSUME WrapInv, ~ reshaped, WrapTyped', OwnBlocks', NEW m \in Wrapped,
         \A n \in Wrapped \ {m} : wrapped'[n] = wrapped[n] /\ Cells(n)' = Cells(n) /\ (n \in drifted => n \in drifted'),
         NEW d \in [Activators \X Receivers -> 0 .. MostTimes],
         \A p \in Activators \X Receivers :
           IF p[2] \in Own(m) THEN d[p] = 0 \/ (m \in drifted' /\ p[2] \in Own(m)' /\ wrapped'[m].live)
           ELSE d[p] = dispatched[p],
         \A p \in Activators \X Receivers : p[2] \in Own(m)' /\ p[2] \notin Own(m) => ~ (dispatched[p] > 0),
         \/ /\ dispatched' = d
            /\ wrapped'[m].live /\ m \notin drifted' =>
                 \A p \in Activators \X Receivers : p[2] \in Own(m)' => Expected(m, p)' = 0
         \/ /\ wrapped'[m].live /\ wrapped'[m].enabled
            /\ \E drift \in SUBSET Wrapped :
                 Accepts(d, drift, m, wrapped'[m].activators, wrapped'[m].block, Kinds(m)', dispatched', drifted')
  PROVE  Started' /\ \A n \in Wrapped : Exact(n)'
<1>1. WrapTyped /\ OwnBlocks /\ Started /\ (\A n \in Wrapped : Exact(n))
  BY DEF WrapInv
<1>2. /\ DOMAIN dispatched = Activators \X Receivers /\ DOMAIN dispatched' = Activators \X Receivers
      /\ \A p \in Activators \X Receivers : dispatched[p] \in Nat /\ d[p] \in Nat
  BY <1>1, WrapAssumption DEF WrapTyped
<1>3. \A n \in Wrapped \ {m} : Own(n)' = Own(n)
  BY DEF Own
<1>4. ASSUME NEW p \in Activators \X Receivers, NEW n \in Wrapped \ {m}, p[2] \in Own(n)
      PROVE  p[2] \notin Own(m) /\ p[2] \notin Own(m)'
  <2>1. Separate /\ Separate'
    BY <1>1, OwnersSeparate, ThenSeparate
  <2> QED BY <1>3, <1>4, <2>1 DEF Separate
<1>5. Kinds(m)' \in TriggerLists
  BY ThenKindsAre DEF KindsFit
<1>6. \A i \in 1 .. Len(Kinds(m)') : Receiver(m, wrapped'[m].block, Kinds(m)', i) \in Own(m)'
  BY ThenKindsAre DEF KindsFit
<1>10. ASSUME NEW drift \in SUBSET Wrapped,
              Accepts(d, drift, m, wrapped'[m].activators, wrapped'[m].block, Kinds(m)', dispatched', drifted')
       PROVE  /\ \A p \in Activators \X Receivers :
                   dispatched'[p] = d[p] \/ \E i \in 1 .. Len(Kinds(m)') : p[2] = Receiver(m, wrapped'[m].block, Kinds(m)', i)
              /\ \A p \in Activators \X Receivers : m \notin drifted' /\ d[p] = 0 =>
                   dispatched'[p] = Anew(p, m, wrapped'[m].activators, wrapped'[m].block, Kinds(m)')
  <2>1. Enlisted(d, drift, m, wrapped'[m].activators, wrapped'[m].block, Kinds(m)', dispatched', drifted')
    BY <1>5, <1>10, EnlistsOwn
  <2> QED BY <2>1 DEF Enlisted
<1>7. /\ \A p \in Activators \X Receivers : dispatched'[p] = d[p] \/ (p[2] \in Own(m)' /\ wrapped'[m].live)
      /\ Exact(m)'
  <2>1. CASE dispatched' = d
    <3>1. SUFFICES ASSUME wrapped'[m].live, m \notin drifted', NEW p \in Activators \X Receivers, p[2] \in Own(m)'
                   PROVE  dispatched'[p] = Expected(m, p)'
      BY <1>2, <2>1 DEF Exact
    <3>2. d[p] = 0
      BY <1>2, <3>1
    <3>3. CASE Expected(m, p)' = 0
      BY <2>1, <3>2, <3>3
    <3>4. CASE /\ wrapped'[m].enabled
               /\ \E drift \in SUBSET Wrapped :
                    Accepts(d, drift, m, wrapped'[m].activators, wrapped'[m].block, Kinds(m)', dispatched', drifted')
      <4>1. dispatched'[p] = Anew(p, m, wrapped'[m].activators, wrapped'[m].block, Kinds(m)')
        BY <1>10, <3>1, <3>2, <3>4
      <4> QED BY <3>4, <4>1 DEF Expected
    <3> QED BY <3>1, <3>3, <3>4
  <2>2. CASE /\ wrapped'[m].live /\ wrapped'[m].enabled
             /\ \E drift \in SUBSET Wrapped :
                  Accepts(d, drift, m, wrapped'[m].activators, wrapped'[m].block, Kinds(m)', dispatched', drifted')
    <3>1. /\ \A p \in Activators \X Receivers :
               dispatched'[p] = d[p] \/ \E i \in 1 .. Len(Kinds(m)') : p[2] = Receiver(m, wrapped'[m].block, Kinds(m)', i)
          /\ \A p \in Activators \X Receivers : m \notin drifted' /\ d[p] = 0 =>
               dispatched'[p] = Anew(p, m, wrapped'[m].activators, wrapped'[m].block, Kinds(m)')
      BY <1>10, <2>2
    <3>2. Exact(m)'
      <4> SUFFICES ASSUME m \notin drifted', NEW p \in Activators \X Receivers, p[2] \in Own(m)'
                   PROVE  dispatched'[p] = Expected(m, p)'
        BY <1>2 DEF Exact
      <4>1. d[p] = 0
        BY <1>2
      <4> QED BY <2>2, <3>1, <4>1 DEF Expected
    <3> QED BY <1>6, <2>2, <3>1, <3>2
  <2> QED BY <2>1, <2>2
<1>8. \A p \in DOMAIN dispatched : (\E n \in Wrapped \ {m} : p[2] \in Own(n)) => dispatched'[p] = dispatched[p]
  BY <1>2, <1>4, <1>7
<1>9. \A p \in DOMAIN dispatched : dispatched'[p] > 0 =>
        (wrapped'[m].live /\ p[2] \in Own(m)') \/ (dispatched[p] > 0 /\ p[2] \notin Own(m))
  BY <1>2, <1>7
<1> QED BY <1>1, <1>2, <1>7, <1>8, <1>9, OthersHeard

\* A call that adds nothing, after which nothing of the macro is to be dispatched.
LEMMA Dropped ==
  ASSUME WrapInv, ~ reshaped, WrapTyped', OwnBlocks', NEW m \in Wrapped,
         \A n \in Wrapped \ {m} : wrapped'[n] = wrapped[n] /\ Cells(n)' = Cells(n) /\ (n \in drifted => n \in drifted'),
         NEW d \in [Activators \X Receivers -> 0 .. MostTimes], dispatched' = d,
         \A p \in Activators \X Receivers :
           IF p[2] \in Own(m) THEN d[p] = 0 \/ (m \in drifted' /\ p[2] \in Own(m)' /\ wrapped'[m].live)
           ELSE d[p] = dispatched[p],
         \A p \in Activators \X Receivers : p[2] \in Own(m)' /\ p[2] \notin Own(m) => ~ (dispatched[p] > 0),
         \A p \in Activators \X Receivers : Expected(m, p)' = 0
  PROVE  Started' /\ \A n \in Wrapped : Exact(n)'
<1>1. \/ /\ dispatched' = d
         /\ wrapped'[m].live /\ m \notin drifted' =>
              \A p \in Activators \X Receivers : p[2] \in Own(m)' => Expected(m, p)' = 0
      \/ /\ wrapped'[m].live /\ wrapped'[m].enabled
         /\ \E drift \in SUBSET Wrapped :
              Accepts(d, drift, m, wrapped'[m].activators, wrapped'[m].block, Kinds(m)', dispatched', drifted')
  OBVIOUS
<1> QED BY <1>1, Relisted

\* Calls that replace the triggers of a macro.
LEMMA TriggersMoved ==
  ASSUME WrapInv, NEW m \in Wrapped, NEW kinds \in TriggerLists, NEW place \in Places(m, Len(kinds)),
         memory' = Holding(m, Starting(m, kinds), place),
         wrapped' \in [Wrapped -> [live : BOOLEAN, enabled : BOOLEAN, ctx : BOOLEAN,
                                   activators : SUBSET Activators, block : Blocks \union {Nowhere}]],
         wrapped'[m].block = place, wrapped'[m].live, \A n \in Wrapped \ {m} : wrapped'[n] = wrapped[n],
         dispatched' \in [Activators \X Receivers -> 0 .. MostTimes], drifted' \subseteq Wrapped, reshaped' \in BOOLEAN
  PROVE  /\ WrapTyped' /\ OwnBlocks' /\ Kinds(m)' = kinds
         /\ \A n \in Wrapped \ {m} : Cells(n)' = Cells(n)
         /\ ~ reshaped => \A p \in Activators \X Receivers : p[2] \in Own(m)' /\ p[2] \notin Own(m) => ~ (dispatched[p] > 0)
<1> DEFINE cells == Starting(m, kinds)
<1>1. WrapTyped /\ OwnBlocks /\ (~ reshaped => Started) /\ DOMAIN dispatched = Activators \X Receivers
  BY DEF WrapInv, WrapTyped
<1>2. /\ cells \in Seq(WrapTriggers) /\ Len(cells) = Len(kinds) /\ Len(cells) \in 0 .. MostTriggers
      /\ \A i \in 1 .. Len(cells) : cells[i].actor = m
      /\ [i \in DOMAIN cells |-> cells[i].itrigger] = kinds
  BY ListsAre
<1> HIDE DEF cells
<1>3. place \in Places(m, Len(cells)) /\ memory' = Holding(m, cells, place)
  BY <1>2 DEF cells
<1>4. /\ memory' \in [Blocks -> [room : 0 .. MostTriggers, cells : Seq(WrapTriggers)]]
      /\ \A b \in Blocks : Len(memory'[b].cells) <= memory'[b].room
      /\ Cells(m)' = cells /\ \A n \in Wrapped \ {m} : Cells(n)' = Cells(n)
  BY <1>1, <1>2, <1>3, HoldingKeeps
<1>5. /\ OwnBlocks'
      /\ Started => \A p \in DOMAIN dispatched : p[2] \in Own(m)' /\ p[2] \notin Own(m) => ~ (dispatched[p] > 0)
  BY <1>1, <1>2, <1>3, MovedKeeps
<1>6. WrapTyped'
  BY <1>4 DEF WrapTyped
<1>7. Kinds(m)' = kinds
  BY <1>2, <1>4 DEF Kinds
<1> QED BY <1>1, <1>4, <1>5, <1>6, <1>7

\* What is not enabled, or has no activators or no triggers, is not dispatched to.
LEMMA NothingExpected ==
  ASSUME NEW m \in Wrapped, NEW p,
         ~ wrapped'[m].enabled \/ wrapped'[m].activators = {} \/ Kinds(m)' = << >>
  PROVE  Expected(m, p)' = 0
<1>1. CASE ~ wrapped'[m].enabled
  BY <1>1 DEF Expected
<1>2. CASE wrapped'[m].activators = {}
  BY <1>2 DEF Expected, Anew, Added
<1>3. CASE Kinds(m)' = << >>
  <2>1. \A block : Times(m, block, << >>, p[2]) = 0
    BY FS_EmptySet DEF Times
  <2> QED BY <1>3, <2>1 DEF Expected, Anew, Added
<1> QED BY <1>1, <1>2, <1>3

\* What a macro that is no receiver has is dispatched to as if it had been removed.
LEMMA NotReceived ==
  ASSUME WrapTyped, NEW m \in Wrapped, ~ IsReceiver(m)
  PROVE  \A p \in Activators \X Receivers : p[2] \in Own(m) => dispatched[p] = 0
<1> SUFFICES ASSUME NEW p \in Activators \X Receivers, p[2] \in Own(m) PROVE dispatched[p] = 0
  OBVIOUS
<1>1. DOMAIN dispatched = Activators \X Receivers /\ dispatched[p] \in 0 .. MostTimes
  BY DEF WrapTyped
<1>2. ~ (dispatched[p] > 0)
  BY <1>1 DEF IsReceiver
<1> QED BY <1>1, <1>2, WrapAssumption

LEMMA ConstructKeeps == WrapInv /\ Construct => WrapInv'
<1> SUFFICES ASSUME WrapInv, Construct PROVE WrapInv'
  OBVIOUS
<1>1. PICK m \in Wrapped, enable \in BOOLEAN, ctx \in BOOLEAN :
        /\ ~ wrapped[m].live /\ ~ reshaped
        /\ wrapped' = [wrapped EXCEPT ![m] = [NotMade EXCEPT !.live = TRUE, !.enabled = enable, !.ctx = ctx]]
        /\ UNCHANGED << memory, dispatched, drifted, reshaped >>
  BY DEF Construct
<1>2. WrapTyped /\ OwnBlocks /\ Started /\ dispatched \in [Activators \X Receivers -> 0 .. MostTimes]
  BY <1>1 DEF WrapInv, WrapTyped
<1>3. /\ wrapped'[m] = [live |-> TRUE, enabled |-> enable, ctx |-> ctx, activators |-> {}, block |-> Nowhere]
      /\ \A n \in Wrapped \ {m} : wrapped'[n] = wrapped[n]
      /\ DOMAIN wrapped' = Wrapped
  BY <1>1, <1>2 DEF WrapTyped, NotMade
<1>4. wrapped[m].block = Nowhere
  BY <1>1, <1>2 DEF OwnBlocks
<1>5. /\ OwnBlocks'
      /\ \A n \in Wrapped : Cells(n)' = Cells(n) /\ Own(n)' = Own(n) /\ Kinds(n)' = Kinds(n)
  <2>1. \A n \in Wrapped : wrapped'[n].block = wrapped[n].block /\ (wrapped[n].live => wrapped'[n].live)
    BY <1>3, <1>4
  <2> QED BY <1>1, <1>2, <2>1, BlocksKept
<1>6. WrapTyped'
  <2>1. wrapped' \in [Wrapped -> [live : BOOLEAN, enabled : BOOLEAN, ctx : BOOLEAN,
                                  activators : SUBSET Activators, block : Blocks \union {Nowhere}]]
    BY <1>1, <1>2 DEF WrapTyped, NotMade
  <2> QED BY <1>1, <1>2, <2>1 DEF WrapTyped
<1>7. \A p \in Activators \X Receivers : p[2] \in Own(m) => dispatched[p] = 0
  <2> SUFFICES ASSUME NEW p \in Activators \X Receivers, p[2] \in Own(m), dispatched[p] > 0 PROVE FALSE
    BY <1>2, WrapAssumption
  <2>1. PICK n \in Wrapped : wrapped[n].live /\ p[2] \in Own(n)
    BY <1>2 DEF Started
  <2> QED BY <1>1, <1>2, <2>1, OneOwner
<1>8. \A p \in Activators \X Receivers : Expected(m, p)' = 0
  BY <1>3, NothingExpected
<1>9. Started' /\ \A n \in Wrapped : Exact(n)'
  BY <1>1, <1>2, <1>3, <1>5, <1>6, <1>7, <1>8, Relisted
<1> QED BY <1>5, <1>6, <1>9 DEF WrapInv

LEMMA DestructKeeps == WrapInv /\ Destruct => WrapInv'
<1> SUFFICES ASSUME WrapInv, Destruct PROVE WrapInv'
  OBVIOUS
<1>1. PICK m \in Wrapped :
        /\ Alive(m) /\ dispatched' = Unlisted(dispatched, m) /\ wrapped' = [wrapped EXCEPT ![m] = NotMade]
        /\ memory' = [b \in Blocks |-> IF b = wrapped[m].block THEN Free ELSE memory[b]]
        /\ drifted' = drifted \ {m} /\ reshaped' = reshaped
  BY DEF Destruct
<1>2. WrapTyped /\ OwnBlocks /\ Started /\ ~ reshaped /\ Nowhere \notin Blocks
  BY <1>1, WrapAssumption DEF WrapInv, Alive
<1>3. wrapped'[m] = NotMade /\ \A n \in Wrapped \ {m} : wrapped'[n] = wrapped[n]
  BY <1>1, <1>2 DEF WrapTyped
<1>4. /\ Unlisted(dispatched, m) \in [Activators \X Receivers -> 0 .. MostTimes]
      /\ \A p \in Activators \X Receivers : Unlisted(dispatched, m)[p] = IF p[2] \in Own(m) THEN 0 ELSE dispatched[p]
  BY <1>2, UnlistedIs
<1>5. WrapTyped'
  <2>1. NotMade \in [live : BOOLEAN, enabled : BOOLEAN, ctx : BOOLEAN,
                     activators : SUBSET Activators, block : Blocks \union {Nowhere}]
    BY DEF NotMade
  <2>2. wrapped' \in [Wrapped -> [live : BOOLEAN, enabled : BOOLEAN, ctx : BOOLEAN,
                                  activators : SUBSET Activators, block : Blocks \union {Nowhere}]]
    BY <1>1, <1>2, <2>1 DEF WrapTyped
  <2>3. Free \in [room : 0 .. MostTriggers, cells : Seq(WrapTriggers)] /\ Len(Free.cells) <= Free.room
    BY WrapAssumption DEF Free
  <2>4. memory' \in [Blocks -> [room : 0 .. MostTriggers, cells : Seq(WrapTriggers)]]
    BY <1>1, <1>2, <2>3 DEF WrapTyped
  <2>5. \A b \in Blocks : Len(memory'[b].cells) <= memory'[b].room
    BY <1>1, <1>2, <2>3 DEF WrapTyped
  <2> QED BY <1>1, <1>2, <1>4, <2>2, <2>4, <2>5 DEF WrapTyped
<1>6. \A n \in Wrapped \ {m} : wrapped[n].block # Nowhere => memory'[wrapped[n].block] = memory[wrapped[n].block]
  <2> SUFFICES ASSUME NEW n \in Wrapped \ {m}, wrapped[n].block # Nowhere
               PROVE  memory'[wrapped[n].block] = memory[wrapped[n].block]
    OBVIOUS
  <2>1. wrapped[n].block \in Blocks /\ wrapped[n].block # wrapped[m].block
    BY <1>2 DEF WrapTyped, OwnBlocks
  <2> QED BY <1>1, <2>1
<1>7. \A n \in Wrapped \ {m} : Cells(n)' = Cells(n)
  BY <1>3, <1>6 DEF Cells
<1>8. OwnBlocks'
  <2>1. wrapped'[m].block = Nowhere
    BY <1>3 DEF NotMade
  <2>2. ASSUME NEW n \in Wrapped, wrapped'[n].block # Nowhere
        PROVE  memory'[wrapped'[n].block].room > 0 /\ \A i \in DOMAIN Cells(n)' : Cells(n)'[i].actor = n
    BY <1>2, <1>3, <1>6, <1>7, <2>1, <2>2 DEF OwnBlocks
  <2>3. ASSUME NEW n \in Wrapped, NEW l \in Wrapped, wrapped'[n].block = wrapped'[l].block, wrapped'[n].block # Nowhere
        PROVE  n = l
    BY <1>2, <1>3, <2>1, <2>3 DEF OwnBlocks
  <2>4. \A n \in Wrapped : ~ wrapped'[n].live => wrapped'[n].block = Nowhere
    BY <1>2, <1>3, <2>1 DEF OwnBlocks
  <2> QED BY <2>2, <2>3, <2>4 DEF OwnBlocks
<1>9. /\ ~ wrapped'[m].live
      /\ \A p \in Activators \X Receivers : p[2] \in Own(m)' => p[2] \in Own(m)
  <2>1. Cells(m)' = << >>
    BY <1>3 DEF NotMade, Cells
  <2> QED BY <1>3, <2>1 DEF NotMade, Own
<1>10. Started' /\ \A n \in Wrapped : Exact(n)'
  BY <1>1, <1>2, <1>3, <1>4, <1>5, <1>7, <1>8, <1>9, Relisted
<1> QED BY <1>5, <1>8, <1>10 DEF WrapInv

LEMMA ConstructCopyKeeps == WrapInv /\ ConstructCopy => WrapInv'
<1> SUFFICES ASSUME WrapInv, ConstructCopy PROVE WrapInv'
  OBVIOUS
<1>1. PICK m \in Wrapped, n \in Wrapped :
        /\ ~ wrapped[m].live /\ Alive(n)
        /\ wrapped[n].enabled => MayAdd(FALSE, wrapped[n].activators, Kinds(n))
        /\ \E place \in Places(m, Len(Cells(n))) :
             /\ wrapped' = [wrapped EXCEPT ![m] = [wrapped[n] EXCEPT !.ctx = FALSE, !.block = place]]
             /\ memory' = Holding(m, Starting(m, Kinds(n)), place)
        /\ UNCHANGED << dispatched, drifted, reshaped >>
  BY DEF ConstructCopy
<1>2. /\ WrapTyped /\ OwnBlocks /\ Started /\ ~ reshaped /\ dispatched \in [Activators \X Receivers -> 0 .. MostTimes]
      /\ drifted \subseteq Wrapped /\ reshaped \in BOOLEAN
  BY <1>1 DEF WrapInv, Alive, WrapTyped
<1>3. Kinds(n) \in TriggerLists /\ Len(Kinds(n)) = Len(Cells(n))
  <2>1. Kinds(n) \in TriggerLists /\ DOMAIN Kinds(n) = 1 .. Len(Cells(n)) /\ Len(Cells(n)) \in Nat
    BY <1>2, CellsAre
  <2>2. PICK k \in Nat : DOMAIN Kinds(n) = 1 .. k /\ Len(Kinds(n)) = k
    BY <2>1, ListsAre
  <2> QED BY <2>1, <2>2
<1>4. PICK place \in Places(m, Len(Kinds(n))) :
        /\ wrapped' = [wrapped EXCEPT ![m] = [wrapped[n] EXCEPT !.ctx = FALSE, !.block = place]]
        /\ memory' = Holding(m, Starting(m, Kinds(n)), place)
  BY <1>1, <1>3
<1>5. /\ wrapped'[m] = [live |-> wrapped[n].live, enabled |-> wrapped[n].enabled, ctx |-> FALSE,
                        activators |-> wrapped[n].activators, block |-> place]
      /\ \A l \in Wrapped \ {m} : wrapped'[l] = wrapped[l]
  BY <1>2, <1>4 DEF WrapTyped
<1>6. wrapped' \in [Wrapped -> [live : BOOLEAN, enabled : BOOLEAN, ctx : BOOLEAN,
                                activators : SUBSET Activators, block : Blocks \union {Nowhere}]]
  <2>1. place \in Blocks \union {Nowhere}
    <3>1. wrapped[m].block \in Blocks \union {Nowhere}
      BY <1>2 DEF WrapTyped
    <3> QED BY <1>4, <3>1 DEF Places
  <2>2. wrapped'[m] \in [live : BOOLEAN, enabled : BOOLEAN, ctx : BOOLEAN,
                         activators : SUBSET Activators, block : Blocks \union {Nowhere}]
    BY <1>2, <1>5, <2>1 DEF WrapTyped
  <2> QED BY <1>2, <1>4, <1>5, <2>2 DEF WrapTyped
<1>7. wrapped'[m].block = place /\ wrapped'[m].live /\ wrapped'[m].enabled = wrapped[n].enabled
      /\ wrapped'[m].activators = wrapped[n].activators
  <2>1. wrapped[n].live
    BY <1>1 DEF Alive
  <2>2. wrapped'[m].block = place /\ wrapped'[m].live = wrapped[n].live /\ wrapped'[m].enabled = wrapped[n].enabled
        /\ wrapped'[m].activators = wrapped[n].activators
    BY <1>5
  <2> QED BY <2>1, <2>2
<1>8. /\ WrapTyped' /\ OwnBlocks' /\ Kinds(m)' = Kinds(n)
      /\ \A l \in Wrapped \ {m} : Cells(l)' = Cells(l)
      /\ \A p \in Activators \X Receivers : p[2] \in Own(m)' /\ p[2] \notin Own(m) => ~ (dispatched[p] > 0)
  BY <1>1, <1>2, <1>3, <1>4, <1>5, <1>6, <1>7, TriggersMoved
<1>9. \A p \in Activators \X Receivers : p[2] \in Own(m) => dispatched[p] = 0
  <2> SUFFICES ASSUME NEW p \in Activators \X Receivers, p[2] \in Own(m), dispatched[p] > 0 PROVE FALSE
    BY <1>2, WrapAssumption
  <2>1. PICK l \in Wrapped : wrapped[l].live /\ p[2] \in Own(l)
    BY <1>2 DEF Started
  <2> QED BY <1>1, <1>2, <2>1, OneOwner
<1>10. \A p \in Activators \X Receivers : Expected(m, p)' = 0
  BY <1>1, <1>7, <1>8, NothingExpected DEF MayAdd
<1>11. Started' /\ \A l \in Wrapped : Exact(l)'
  BY <1>1, <1>2, <1>5, <1>8, <1>9, <1>10, Relisted
<1> QED BY <1>8, <1>11 DEF WrapInv

\* Calls that set fields of one macro, not its memory.
LEMMA FieldsSet ==
  ASSUME WrapTyped, OwnBlocks, NEW m \in Wrapped, memory' = memory, NEW w,
         wrapped' = [wrapped EXCEPT ![m] = w],
         w \in [live : BOOLEAN, enabled : BOOLEAN, ctx : BOOLEAN, activators : SUBSET Activators, block : Blocks \union {Nowhere}],
         w.block = wrapped[m].block, w.live,
         dispatched' \in [Activators \X Receivers -> 0 .. MostTimes], drifted' \subseteq Wrapped, reshaped' \in BOOLEAN
  PROVE  /\ WrapTyped' /\ OwnBlocks' /\ wrapped'[m] = w
         /\ \A n \in Wrapped \ {m} : wrapped'[n] = wrapped[n]
         /\ \A n \in Wrapped : Cells(n)' = Cells(n) /\ Own(n)' = Own(n) /\ Kinds(n)' = Kinds(n)
<1>1. wrapped'[m] = w /\ \A n \in Wrapped \ {m} : wrapped'[n] = wrapped[n]
  BY DEF WrapTyped
<1>2. \A n \in Wrapped : wrapped'[n].block = wrapped[n].block /\ (wrapped[n].live => wrapped'[n].live)
  BY <1>1
<1>3. OwnBlocks' /\ \A n \in Wrapped : Cells(n)' = Cells(n) /\ Own(n)' = Own(n) /\ Kinds(n)' = Kinds(n)
  BY <1>2, BlocksKept
<1>4. WrapTyped'
  BY DEF WrapTyped
<1> QED BY <1>1, <1>3, <1>4

LEMMA EnabledKeeps == WrapInv /\ SetWrapEnabled => WrapInv'
<1> SUFFICES ASSUME WrapInv, SetWrapEnabled PROVE WrapInv'
  OBVIOUS
<1>1. PICK m \in Wrapped :
        /\ Alive(m) /\ wrapped' = [wrapped EXCEPT ![m].enabled = ~ @] /\ UNCHANGED << memory, reshaped >>
        /\ IF wrapped[m].enabled
           THEN dispatched' = Unlisted(dispatched, m) /\ drifted' = drifted \ {m}
           ELSE Enlists(dispatched, drifted, m, wrapped[m].activators, wrapped[m].block, Kinds(m))
  BY DEF SetWrapEnabled
<1>2. /\ WrapTyped /\ OwnBlocks /\ Started /\ (\A n \in Wrapped : Exact(n)) /\ ~ reshaped
      /\ dispatched \in [Activators \X Receivers -> 0 .. MostTimes] /\ drifted \subseteq Wrapped /\ reshaped \in BOOLEAN
      /\ wrapped[m] \in [live : BOOLEAN, enabled : BOOLEAN, ctx : BOOLEAN,
                         activators : SUBSET Activators, block : Blocks \union {Nowhere}]
      /\ wrapped[m].live
  BY <1>1 DEF WrapInv, Alive, WrapTyped
<1> DEFINE e == ~ wrapped[m].enabled
           w == [wrapped[m] EXCEPT !.enabled = e]
<1>3. e \in BOOLEAN /\ wrapped' = [wrapped EXCEPT ![m] = w]
  BY <1>1, <1>2
<1> HIDE DEF e
<1>4. /\ w \in [live : BOOLEAN, enabled : BOOLEAN, ctx : BOOLEAN, activators : SUBSET Activators, block : Blocks \union {Nowhere}]
      /\ w.block = wrapped[m].block /\ w.live /\ w.enabled = e /\ w.activators = wrapped[m].activators
  BY <1>2, <1>3
<1> HIDE DEF w
<1>5. Kinds(m) \in TriggerLists
  BY <1>2, CellsAre
<1>6. CASE wrapped[m].enabled
  <2>1. /\ Unlisted(dispatched, m) \in [Activators \X Receivers -> 0 .. MostTimes]
        /\ \A p \in Activators \X Receivers : Unlisted(dispatched, m)[p] = IF p[2] \in Own(m) THEN 0 ELSE dispatched[p]
    BY <1>2, UnlistedIs
  <2>2. dispatched' = Unlisted(dispatched, m) /\ drifted' = drifted \ {m}
    BY <1>1, <1>6
  <2>3. /\ WrapTyped' /\ OwnBlocks' /\ wrapped'[m] = w
        /\ \A n \in Wrapped \ {m} : wrapped'[n] = wrapped[n]
        /\ \A n \in Wrapped : Cells(n)' = Cells(n) /\ Own(n)' = Own(n) /\ Kinds(n)' = Kinds(n)
    BY <1>1, <1>2, <1>3, <1>4, <2>1, <2>2, FieldsSet
  <2>6. ~ wrapped'[m].enabled
    BY <1>4, <1>6, <2>3 DEF e
  <2>4. ASSUME NEW p \in Activators \X Receivers PROVE Expected(m, p)' = 0
    BY <2>6, NothingExpected
  <2>7. /\ \A n \in Wrapped \ {m} : wrapped'[n] = wrapped[n] /\ Cells(n)' = Cells(n) /\ (n \in drifted => n \in drifted')
        /\ \A p \in Activators \X Receivers : p[2] \in Own(m)' /\ p[2] \notin Own(m) => ~ (dispatched[p] > 0)
    BY <2>2, <2>3
  <2>8. ~ reshaped /\ WrapTyped' /\ OwnBlocks' /\ dispatched' = Unlisted(dispatched, m)
    BY <1>2, <2>2, <2>3
  <2>5. Started' /\ \A n \in Wrapped : Exact(n)'
    BY <2>1, <2>4, <2>7, <2>8, Relisted
  <2> QED BY <2>3, <2>5 DEF WrapInv
<1>7. CASE ~ wrapped[m].enabled
  <2>1. Accepts(dispatched, drifted, m, wrapped[m].activators, wrapped[m].block, Kinds(m), dispatched', drifted')
    BY <1>1, <1>7 DEF Enlists, Accepts
  <2>2. Enlisted(dispatched, drifted, m, wrapped[m].activators, wrapped[m].block, Kinds(m), dispatched', drifted')
    BY <1>2, <1>5, <2>1, EnlistsOwn
  <2>3. /\ dispatched' \in [Activators \X Receivers -> 0 .. MostTimes] /\ drifted' \subseteq Wrapped
        /\ \A n \in Wrapped : n \in drifted => n \in drifted'
    BY <1>2, <2>2 DEF Enlisted
  <2>4. /\ WrapTyped' /\ OwnBlocks' /\ wrapped'[m] = w
        /\ \A n \in Wrapped \ {m} : wrapped'[n] = wrapped[n]
        /\ \A n \in Wrapped : Cells(n)' = Cells(n) /\ Own(n)' = Own(n) /\ Kinds(n)' = Kinds(n)
    BY <1>1, <1>2, <1>3, <1>4, <2>3, FieldsSet
  <2>5. \A p \in Activators \X Receivers : p[2] \in Own(m) => dispatched[p] = 0 \/ m \in drifted'
    <3> SUFFICES ASSUME m \notin drifted', NEW p \in Activators \X Receivers, p[2] \in Own(m) PROVE dispatched[p] = 0
      OBVIOUS
    <3>1. m \notin drifted /\ Exact(m)
      BY <1>2, <2>3
    <3> QED BY <1>2, <1>7, <3>1 DEF Exact, Expected
  <2>6. /\ wrapped'[m].live /\ wrapped'[m].enabled
        /\ Accepts(dispatched, drifted, m, wrapped'[m].activators, wrapped'[m].block, Kinds(m)', dispatched', drifted')
    BY <1>4, <1>7, <2>1, <2>4 DEF e
  <2>7. Started' /\ \A n \in Wrapped : Exact(n)'
    BY <1>2, <2>3, <2>4, <2>5, <2>6, Relisted
  <2> QED BY <2>4, <2>7 DEF WrapInv
<1> QED BY <1>6, <1>7

\* What a macro that is disabled and not drifted has is not dispatched to.
LEMMA DisabledUnheard ==
  ASSUME WrapInv, NEW m \in Wrapped, Alive(m), ~ wrapped[m].enabled, m \notin drifted
  PROVE  \A p \in Activators \X Receivers : p[2] \in Own(m) => dispatched[p] = 0
<1>1. Exact(m) /\ wrapped[m].live /\ DOMAIN dispatched = Activators \X Receivers
  BY DEF WrapInv, WrapTyped, Alive
<1> QED BY <1>1 DEF Exact, Expected

LEMMA InterruptorsKeep == WrapInv /\ SetInterruptors => WrapInv'
<1> SUFFICES ASSUME WrapInv, SetInterruptors PROVE WrapInv'
  OBVIOUS
<1>1. PICK ms \in SUBSET Wrapped, enable \in BOOLEAN :
        /\ wrapped' = [m \in Wrapped |-> IF m \in ms THEN [wrapped[m] EXCEPT !.enabled = enable] ELSE wrapped[m]]
        /\ drifted' = drifted \union {m \in ms : wrapped[m].enabled # enable}
        /\ UNCHANGED << memory, dispatched, reshaped >>
  BY DEF SetInterruptors
<1>2. /\ WrapTyped /\ OwnBlocks /\ dispatched \in [Activators \X Receivers -> 0 .. MostTimes]
      /\ wrapped \in [Wrapped -> [live : BOOLEAN, enabled : BOOLEAN, ctx : BOOLEAN,
                                  activators : SUBSET Activators, block : Blocks \union {Nowhere}]]
  BY DEF WrapInv, WrapTyped
<1>3. ASSUME NEW m \in Wrapped
      PROVE  /\ wrapped'[m] \in [live : BOOLEAN, enabled : BOOLEAN, ctx : BOOLEAN,
                                 activators : SUBSET Activators, block : Blocks \union {Nowhere}]
             /\ wrapped'[m].block = wrapped[m].block /\ wrapped'[m].live = wrapped[m].live
             /\ wrapped'[m].activators = wrapped[m].activators
             /\ m \in drifted' \/ (m \notin drifted /\ wrapped'[m].enabled = wrapped[m].enabled)
  <2>1. CASE m \notin ms
    <3>1. wrapped'[m] = wrapped[m] /\ (m \in drifted' <=> m \in drifted)
      BY <1>1, <2>1
    <3> QED BY <1>2, <3>1
  <2>2. CASE m \in ms
    <3>1. wrapped'[m] = [wrapped[m] EXCEPT !.enabled = enable]
      BY <1>1, <2>2
    <3>2. m \in drifted' <=> m \in drifted \/ wrapped[m].enabled # enable
      BY <1>1, <2>2
    <3> QED BY <1>2, <3>1, <3>2
  <2> QED BY <2>1, <2>2
<1>4. OwnBlocks' /\ \A n \in Wrapped : Cells(n)' = Cells(n) /\ Own(n)' = Own(n) /\ Kinds(n)' = Kinds(n)
  BY <1>1, <1>2, <1>3, BlocksKept
<1>5. WrapTyped'
  <2>1. wrapped' \in [Wrapped -> [live : BOOLEAN, enabled : BOOLEAN, ctx : BOOLEAN,
                                  activators : SUBSET Activators, block : Blocks \union {Nowhere}]]
    <3>1. wrapped' = [m \in Wrapped |-> wrapped'[m]]
      BY <1>1
    <3> QED BY <1>3, <3>1
  <2> QED BY <1>1, <1>2, <2>1 DEF WrapTyped
<1>6. ASSUME ~ reshaped' PROVE Started' /\ \A n \in Wrapped : Exact(n)'
  <2>1. Started /\ \A n \in Wrapped : Exact(n)
    BY <1>1, <1>6 DEF WrapInv
  <2>2. Started'
    BY <1>1, <1>3, <1>4, <2>1 DEF Started
  <2>3. ASSUME NEW n \in Wrapped, wrapped'[n].live, n \notin drifted', NEW p \in DOMAIN dispatched, p[2] \in Own(n)
        PROVE  dispatched[p] = Expected(n, p)'
    <3>1. /\ wrapped[n].live /\ n \notin drifted /\ wrapped'[n].enabled = wrapped[n].enabled
          /\ wrapped'[n].activators = wrapped[n].activators /\ wrapped'[n].block = wrapped[n].block
      BY <1>3, <2>3
    <3>2. Expected(n, p)' = Expected(n, p)
      BY <1>4, <3>1 DEF Expected
    <3> QED BY <2>1, <2>3, <3>1, <3>2 DEF Exact
  <2> QED BY <1>1, <1>4, <2>2, <2>3 DEF Exact
<1> QED BY <1>4, <1>5, <1>6 DEF WrapInv

LEMMA ActivatorsKeep == WrapInv /\ SetActivators => WrapInv'
<1> SUFFICES ASSUME WrapInv, SetActivators PROVE WrapInv'
  OBVIOUS
<1>1. PICK m \in Wrapped, activators \in SUBSET Activators :
        /\ Alive(m) /\ wrapped' = [wrapped EXCEPT ![m].activators = activators]
        /\ drifted' = IF wrapped[m].enabled THEN drifted \union {m} ELSE drifted
        /\ UNCHANGED << memory, dispatched, reshaped >>
  BY DEF SetActivators, Activate
<1>2. /\ WrapTyped /\ OwnBlocks /\ ~ reshaped /\ wrapped[m].live
      /\ dispatched \in [Activators \X Receivers -> 0 .. MostTimes] /\ drifted \subseteq Wrapped /\ reshaped \in BOOLEAN
      /\ wrapped[m] \in [live : BOOLEAN, enabled : BOOLEAN, ctx : BOOLEAN,
                         activators : SUBSET Activators, block : Blocks \union {Nowhere}]
  BY <1>1 DEF WrapInv, Alive, WrapTyped
<1> DEFINE w == [wrapped[m] EXCEPT !.activators = activators]
<1>3. wrapped' = [wrapped EXCEPT ![m] = w]
  BY <1>1, <1>2
<1>4. /\ w \in [live : BOOLEAN, enabled : BOOLEAN, ctx : BOOLEAN, activators : SUBSET Activators, block : Blocks \union {Nowhere}]
      /\ w.block = wrapped[m].block /\ w.live /\ w.enabled = wrapped[m].enabled
  BY <1>2
<1> HIDE DEF w
<1>5. /\ WrapTyped' /\ OwnBlocks' /\ wrapped'[m] = w
      /\ \A n \in Wrapped \ {m} : wrapped'[n] = wrapped[n]
      /\ \A n \in Wrapped : Cells(n)' = Cells(n) /\ Own(n)' = Own(n) /\ Kinds(n)' = Kinds(n)
  BY <1>1, <1>2, <1>3, <1>4, FieldsSet
<1>6. /\ m \notin drifted' => ~ wrapped'[m].enabled /\ ~ wrapped[m].enabled /\ m \notin drifted
      /\ \A n \in Wrapped : n \in drifted => n \in drifted'
  BY <1>1, <1>4, <1>5
<1>7. \A p \in Activators \X Receivers : p[2] \in Own(m) => dispatched[p] = 0 \/ m \in drifted'
  BY <1>1, <1>6, DisabledUnheard
<1>8. m \notin drifted' => \A p \in Activators \X Receivers : Expected(m, p)' = 0
  BY <1>6, NothingExpected
<1>9. Started' /\ \A n \in Wrapped : Exact(n)'
  BY <1>1, <1>2, <1>4, <1>5, <1>6, <1>7, <1>8, Relisted
<1> QED BY <1>5, <1>9 DEF WrapInv

LEMMA RemoveDispatchKeeps == WrapInv /\ RemoveDispatch => WrapInv'
<1> SUFFICES ASSUME WrapInv, RemoveDispatch PROVE WrapInv'
  OBVIOUS
<1>1. PICK m \in Wrapped :
        /\ Alive(m) /\ dispatched' = Unlisted(dispatched, m)
        /\ drifted' = IF wrapped[m].enabled THEN drifted \union {m} ELSE drifted
        /\ UNCHANGED << wrapped, memory, reshaped >>
  BY DEF RemoveDispatch
<1>2. /\ WrapTyped /\ OwnBlocks /\ ~ reshaped /\ drifted \subseteq Wrapped
  BY <1>1 DEF WrapInv, Alive, WrapTyped
<1>3. /\ Unlisted(dispatched, m) \in [Activators \X Receivers -> 0 .. MostTimes]
      /\ \A p \in Activators \X Receivers : Unlisted(dispatched, m)[p] = IF p[2] \in Own(m) THEN 0 ELSE dispatched[p]
  BY <1>2, UnlistedIs
<1>4. OwnBlocks' /\ \A n \in Wrapped : Cells(n)' = Cells(n) /\ Own(n)' = Own(n) /\ Kinds(n)' = Kinds(n)
  BY <1>1, <1>2, BlocksKept
<1>5. WrapTyped'
  BY <1>1, <1>2, <1>3 DEF WrapTyped
<1>6. m \notin drifted' => \A p \in Activators \X Receivers : Expected(m, p)' = 0
  <2>1. m \notin drifted' => ~ wrapped'[m].enabled
    BY <1>1
  <2> QED BY <2>1, NothingExpected
<1>7. Started' /\ \A n \in Wrapped : Exact(n)'
  BY <1>1, <1>2, <1>3, <1>4, <1>5, <1>6, Relisted
<1> QED BY <1>4, <1>5, <1>7 DEF WrapInv

LEMMA AddDispatchKeeps == WrapInv /\ AddDispatch => WrapInv'
<1> SUFFICES ASSUME WrapInv, AddDispatch PROVE WrapInv'
  OBVIOUS
<1>1. PICK m \in Wrapped, s \in Activators : \E i \in DOMAIN Cells(m) :
        LET p == << s, Receiver(m, wrapped[m].block, Kinds(m), i) >>
            times == Listed(p, 1, dispatched[p])
        IN /\ Alive(m) /\ wrapped[m].ctx /\ times <= MostTimes
           /\ dispatched' = [dispatched EXCEPT ![p] = times]
           /\ drifted' = drifted \union {m}
           /\ UNCHANGED << wrapped, memory, reshaped >>
  BY DEF AddDispatch
<1>2. PICK i \in DOMAIN Cells(m) :
        LET p == << s, Receiver(m, wrapped[m].block, Kinds(m), i) >>
            times == Listed(p, 1, dispatched[p])
        IN /\ Alive(m) /\ wrapped[m].ctx /\ times <= MostTimes
           /\ dispatched' = [dispatched EXCEPT ![p] = times]
           /\ drifted' = drifted \union {m}
           /\ UNCHANGED << wrapped, memory, reshaped >>
  BY <1>1
<1> DEFINE p == << s, Receiver(m, wrapped[m].block, Kinds(m), i) >>
           times == Listed(p, 1, dispatched[p])
<1>3. /\ Alive(m) /\ times <= MostTimes /\ dispatched' = [dispatched EXCEPT ![p] = times]
      /\ drifted' = drifted \union {m} /\ wrapped' = wrapped /\ memory' = memory /\ reshaped' = reshaped
  BY <1>2
<1>4. /\ WrapTyped /\ OwnBlocks /\ ~ reshaped /\ drifted \subseteq Wrapped /\ wrapped[m].live
      /\ DOMAIN dispatched = Activators \X Receivers /\ MostTimes \in Nat
      /\ \A q \in Activators \X Receivers : dispatched[q] \in 0 .. MostTimes
  BY <1>3, WrapAssumption DEF WrapInv, Alive, WrapTyped
<1>5. p[2] \in Own(m)
  <2>1. Kinds(m) \in TriggerLists /\ DOMAIN Kinds(m) = DOMAIN Cells(m)
    BY <1>4, CellsAre
  <2>2. i \in 1 .. Len(Kinds(m))
    BY <2>1, ListsAre
  <2>3. p[2] = Receiver(m, wrapped[m].block, Kinds(m), i)
    OBVIOUS
  <2> QED BY <1>4, <2>2, <2>3, KindsAre DEF KindsFit
<1>6. p \in Activators \X Receivers => times \in Nat
  <2> SUFFICES ASSUME p \in Activators \X Receivers PROVE times \in Nat
    OBVIOUS
  <2>1. dispatched[p] \in Nat
    BY <1>4
  <2> QED BY <2>1 DEF Listed
<1> HIDE DEF times, p
<1>7. \A q \in Activators \X Receivers : dispatched'[q] = IF q = p THEN times ELSE dispatched[q]
  BY <1>3, <1>4
<1>8. dispatched' \in [Activators \X Receivers -> 0 .. MostTimes]
  <2>1. \A q \in Activators \X Receivers : dispatched'[q] \in 0 .. MostTimes
    BY <1>3, <1>4, <1>6, <1>7
  <2>2. DOMAIN dispatched' = Activators \X Receivers /\ dispatched' = [q \in DOMAIN dispatched' |-> dispatched'[q]]
    BY <1>3, <1>4
  <2> QED BY <2>1, <2>2
<1>9. OwnBlocks' /\ \A n \in Wrapped : Cells(n)' = Cells(n) /\ Own(n)' = Own(n) /\ Kinds(n)' = Kinds(n)
  BY <1>3, <1>4, BlocksKept
<1>10. WrapTyped'
  BY <1>3, <1>4, <1>8 DEF WrapTyped
<1>11. ASSUME NEW q \in Activators \X Receivers, q[2] \notin Own(m) PROVE dispatched'[q] = dispatched[q]
  <2>1. q # p
    BY <1>5, <1>11
  <2> QED BY <1>7, <2>1
<1>13. /\ \A n \in Wrapped \ {m} : wrapped'[n] = wrapped[n] /\ Cells(n)' = Cells(n) /\ (n \in drifted => n \in drifted')
       /\ \A q \in Activators \X Receivers : q[2] \in Own(m)' /\ q[2] \notin Own(m) => ~ (dispatched[q] > 0)
       /\ \A q \in Activators \X Receivers :
            IF q[2] \in Own(m) THEN dispatched'[q] = 0 \/ (m \in drifted' /\ q[2] \in Own(m)' /\ wrapped'[m].live)
            ELSE dispatched'[q] = dispatched[q]
  BY <1>3, <1>4, <1>9, <1>11
<1>14. m \in drifted'
  BY <1>3
<1>12. Started' /\ \A n \in Wrapped : Exact(n)'
  BY <1>4, <1>8, <1>9, <1>10, <1>13, <1>14, Relisted
<1> QED BY <1>9, <1>10, <1>12 DEF WrapInv

\* Calls that set where the triggers of a macro are.
LEMMA FieldsMoved ==
  ASSUME WrapTyped, NEW m \in Wrapped, wrapped[m].live, NEW n, NEW place \in Places(m, n),
         wrapped' = [wrapped EXCEPT ![m].block = place]
  PROVE  /\ wrapped' \in [Wrapped -> [live : BOOLEAN, enabled : BOOLEAN, ctx : BOOLEAN,
                                      activators : SUBSET Activators, block : Blocks \union {Nowhere}]]
         /\ wrapped'[m].block = place /\ wrapped'[m].live /\ wrapped'[m].enabled = wrapped[m].enabled
         /\ \A l \in Wrapped \ {m} : wrapped'[l] = wrapped[l]
<1>1. wrapped[m].block \in Blocks \union {Nowhere}
  BY DEF WrapTyped
<1>2. place \in Blocks \union {Nowhere}
  BY <1>1 DEF Places
<1> QED BY <1>2 DEF WrapTyped

LEMMA TriggersKeep == WrapInv /\ SetTriggers => WrapInv'
<1> SUFFICES ASSUME WrapInv, SetTriggers PROVE WrapInv'
  OBVIOUS
<1>1. PICK m \in Wrapped, kinds \in TriggerLists :
        /\ Alive(m)
        /\ \E place \in Places(m, Len(kinds)) :
             /\ memory' = Holding(m, Starting(m, kinds), place)
             /\ wrapped' = [wrapped EXCEPT ![m].block = place]
        /\ reshaped' = IsReceiver(m)
        /\ drifted' = IF wrapped[m].enabled THEN drifted \union {m} ELSE drifted
        /\ dispatched' = dispatched
  BY DEF SetTriggers
<1>2. PICK place \in Places(m, Len(kinds)) :
        memory' = Holding(m, Starting(m, kinds), place) /\ wrapped' = [wrapped EXCEPT ![m].block = place]
  BY <1>1
<1>3. WrapTyped /\ ~ reshaped /\ wrapped[m].live
  BY <1>1 DEF WrapInv, Alive
<1>4. drifted' \subseteq Wrapped /\ reshaped' \in BOOLEAN /\ dispatched' \in [Activators \X Receivers -> 0 .. MostTimes]
  BY <1>1, <1>3 DEF WrapTyped, IsReceiver
<1>5. /\ wrapped' \in [Wrapped -> [live : BOOLEAN, enabled : BOOLEAN, ctx : BOOLEAN,
                                   activators : SUBSET Activators, block : Blocks \union {Nowhere}]]
      /\ wrapped'[m].block = place /\ wrapped'[m].live /\ wrapped'[m].enabled = wrapped[m].enabled
      /\ \A n \in Wrapped \ {m} : wrapped'[n] = wrapped[n]
  BY <1>2, <1>3, FieldsMoved
<1>6. /\ WrapTyped' /\ OwnBlocks'
      /\ \A n \in Wrapped \ {m} : Cells(n)' = Cells(n)
      /\ \A p \in Activators \X Receivers : p[2] \in Own(m)' /\ p[2] \notin Own(m) => ~ (dispatched[p] > 0)
  BY <1>2, <1>3, <1>4, <1>5, TriggersMoved
<1>7. ASSUME ~ reshaped' PROVE Started' /\ \A n \in Wrapped : Exact(n)'
  <2>1. \A p \in Activators \X Receivers : p[2] \in Own(m) => dispatched[p] = 0
    BY <1>1, <1>3, <1>7, NotReceived
  <2>2. ASSUME m \notin drifted', NEW p \in Activators \X Receivers PROVE Expected(m, p)' = 0
    <3>1. ~ wrapped'[m].enabled
      BY <1>1, <1>5, <2>2
    <3> QED BY <3>1, NothingExpected
  <2>3. \A n \in Wrapped : n \in drifted => n \in drifted'
    BY <1>1
  <2>4. dispatched' = dispatched /\ dispatched \in [Activators \X Receivers -> 0 .. MostTimes]
    BY <1>1, <1>3 DEF WrapTyped
  <2> QED BY <1>3, <1>5, <1>6, <2>1, <2>2, <2>3, <2>4, Relisted
<1> QED BY <1>6, <1>7 DEF WrapInv

LEMMA ClearKeeps == WrapInv /\ ClearWrapped => WrapInv'
<1> SUFFICES ASSUME WrapInv, ClearWrapped PROVE WrapInv'
  OBVIOUS
<1>1. PICK m \in Wrapped :
        /\ Alive(m) /\ wrapped' = [wrapped EXCEPT ![m].activators = {}]
        /\ drifted' = IF wrapped[m].enabled THEN drifted \union {m} ELSE drifted
        /\ memory' = [b \in Blocks |-> IF b = wrapped[m].block THEN [memory[b] EXCEPT !.cells = << >>] ELSE memory[b]]
        /\ reshaped' = IsReceiver(m)
        /\ dispatched' = dispatched
  BY DEF ClearWrapped, Activate
<1> DEFINE kinds == << >>
           place == wrapped[m].block
<1>2. WrapTyped /\ ~ reshaped /\ wrapped[m].live /\ MostTriggers \in Nat
  BY <1>1, WrapAssumption DEF WrapInv, Alive
<1>3. kinds \in TriggerLists /\ Len(kinds) = 0 /\ Starting(m, kinds) = << >>
  <2>1. kinds \in [1 .. 0 -> BOOLEAN]
    OBVIOUS
  <2> QED BY <1>2, <2>1 DEF TriggerLists, Starting
<1>4. place \in Places(m, Len(kinds))
  BY <1>2, <1>3, CellsAre DEF Places
<1>5. memory' = Holding(m, Starting(m, kinds), place)
  <2>1. ASSUME NEW b \in Blocks, b = place
        PROVE  [memory[b] EXCEPT !.cells = << >>] = [room |-> Room(m), cells |-> << >>]
    <3>1. memory[b] \in [room : 0 .. MostTriggers, cells : Seq(WrapTriggers)]
      BY <1>2 DEF WrapTyped
    <3>2. Room(m) = memory[b].room
      BY <2>1, WrapAssumption DEF Room
    <3> QED BY <3>1, <3>2
  <2> QED BY <1>1, <1>3, <2>1 DEF Holding
<1>6. drifted' \subseteq Wrapped /\ reshaped' \in BOOLEAN /\ dispatched' \in [Activators \X Receivers -> 0 .. MostTimes]
  BY <1>1, <1>2 DEF WrapTyped, IsReceiver
<1>7. /\ wrapped' \in [Wrapped -> [live : BOOLEAN, enabled : BOOLEAN, ctx : BOOLEAN,
                                   activators : SUBSET Activators, block : Blocks \union {Nowhere}]]
      /\ wrapped'[m].block = place /\ wrapped'[m].live /\ wrapped'[m].activators = {}
      /\ \A n \in Wrapped \ {m} : wrapped'[n] = wrapped[n]
  BY <1>1, <1>2 DEF WrapTyped
<1> HIDE DEF kinds, place
<1>8. /\ WrapTyped' /\ OwnBlocks'
      /\ \A n \in Wrapped \ {m} : Cells(n)' = Cells(n)
      /\ \A p \in Activators \X Receivers : p[2] \in Own(m)' /\ p[2] \notin Own(m) => ~ (dispatched[p] > 0)
  BY <1>2, <1>3, <1>4, <1>5, <1>6, <1>7, TriggersMoved
<1>9. ASSUME ~ reshaped' PROVE Started' /\ \A n \in Wrapped : Exact(n)'
  <2>1. \A p \in Activators \X Receivers : p[2] \in Own(m) => dispatched[p] = 0
    BY <1>1, <1>2, <1>9, NotReceived
  <2>2. \A p \in Activators \X Receivers : Expected(m, p)' = 0
    BY <1>7, NothingExpected
  <2>3. \A n \in Wrapped : n \in drifted => n \in drifted'
    BY <1>1
  <2>4. dispatched' = dispatched /\ dispatched \in [Activators \X Receivers -> 0 .. MostTimes]
    BY <1>1, <1>2 DEF WrapTyped
  <2> QED BY <1>2, <1>7, <1>8, <2>1, <2>2, <2>3, <2>4, Relisted
<1> QED BY <1>8, <1>9 DEF WrapInv

\* Macro::copy: which of the signals are dispatched to the macro before it is added.
LEMMA CopyKeeps == WrapInv /\ CopyWrapped => WrapInv'
<1> SUFFICES ASSUME WrapInv, CopyWrapped PROVE WrapInv'
  OBVIOUS
<1>1. PICK m \in Wrapped, n \in Wrapped :
        LET before == IF wrapped[m].enabled THEN Unlisted(dispatched, m) ELSE dispatched
            drift == IF wrapped[m].enabled THEN drifted \ {m} ELSE drifted
        IN /\ Alive(m) /\ Alive(n) /\ m # n
           /\ \/ /\ \E place \in Places(m, Len(Cells(n))) :
                      /\ memory' = Holding(m, Starting(m, Kinds(n)), place)
                      /\ wrapped' = [wrapped EXCEPT ![m].activators = wrapped[n].activators,
                                                    ![m].enabled = wrapped[n].enabled, ![m].block = place]
                      /\ IF wrapped[n].enabled
                         THEN /\ MayAdd(wrapped[m].ctx, wrapped[n].activators, Kinds(n))
                              /\ Enlists(before, drift, m, wrapped[n].activators, place, Kinds(n))
                         ELSE dispatched' = Unlisted(dispatched, m) /\ drifted' = drifted \ {m}
                 /\ reshaped' = (~ wrapped[m].enabled /\ IsReceiver(m))
              \/ /\ wrapped' = [wrapped EXCEPT ![m].enabled = FALSE]
                 /\ dispatched' = before /\ drifted' = drift
                 /\ UNCHANGED << memory, reshaped >>
  BY Zenon DEF CopyWrapped
<1> DEFINE before == IF wrapped[m].enabled THEN Unlisted(dispatched, m) ELSE dispatched
           drift == IF wrapped[m].enabled THEN drifted \ {m} ELSE drifted
<1>2. /\ WrapTyped /\ OwnBlocks /\ ~ reshaped /\ wrapped[m].live /\ Alive(m) /\ m # n
      /\ dispatched \in [Activators \X Receivers -> 0 .. MostTimes] /\ drifted \subseteq Wrapped
      /\ wrapped[m] \in [live : BOOLEAN, enabled : BOOLEAN, ctx : BOOLEAN,
                         activators : SUBSET Activators, block : Blocks \union {Nowhere}]
      /\ wrapped[n] \in [live : BOOLEAN, enabled : BOOLEAN, ctx : BOOLEAN,
                         activators : SUBSET Activators, block : Blocks \union {Nowhere}]
  BY <1>1 DEF WrapInv, Alive, WrapTyped
<1>3. /\ Unlisted(dispatched, m) \in [Activators \X Receivers -> 0 .. MostTimes]
      /\ \A p \in Activators \X Receivers : Unlisted(dispatched, m)[p] = IF p[2] \in Own(m) THEN 0 ELSE dispatched[p]
  BY <1>2, UnlistedIs
<1>4. /\ before \in [Activators \X Receivers -> 0 .. MostTimes] /\ drift \in SUBSET Wrapped
      /\ \A p \in Activators \X Receivers : p[2] \notin Own(m) => before[p] = dispatched[p]
      /\ wrapped[m].enabled => \A p \in Activators \X Receivers : p[2] \in Own(m) => before[p] = 0
      /\ ~ wrapped[m].enabled => before = dispatched
      /\ \A l \in Wrapped \ {m} : l \in drifted => l \in drift
      /\ ~ wrapped[m].enabled => drift = drifted
  BY <1>2, <1>3
<1>5. CASE /\ wrapped' = [wrapped EXCEPT ![m].enabled = FALSE]
           /\ dispatched' = before /\ drifted' = drift
           /\ UNCHANGED << memory, reshaped >>
  <2> DEFINE w == [wrapped[m] EXCEPT !.enabled = FALSE]
  <2>1. wrapped' = [wrapped EXCEPT ![m] = w]
    BY <1>2, <1>5
  <2>2. /\ w \in [live : BOOLEAN, enabled : BOOLEAN, ctx : BOOLEAN, activators : SUBSET Activators, block : Blocks \union {Nowhere}]
        /\ w.block = wrapped[m].block /\ w.live /\ ~ w.enabled
    BY <1>2
  <2> HIDE DEF w, before, drift
  <2>3. reshaped' \in BOOLEAN /\ memory' = memory /\ dispatched' = before /\ drifted' = drift
    BY <1>2, <1>5 DEF WrapTyped
  <2>4. /\ WrapTyped' /\ OwnBlocks' /\ wrapped'[m] = w
        /\ \A l \in Wrapped \ {m} : wrapped'[l] = wrapped[l]
        /\ \A l \in Wrapped : Cells(l)' = Cells(l) /\ Own(l)' = Own(l) /\ Kinds(l)' = Kinds(l)
    BY <1>2, <1>4, <2>1, <2>2, <2>3, FieldsSet
  <2>5. ~ wrapped'[m].enabled /\ wrapped'[m].live
    BY <2>2, <2>4
  <2>6. \A p \in Activators \X Receivers : Expected(m, p)' = 0
    BY <2>5, NothingExpected
  <2>7. \A p \in Activators \X Receivers : p[2] \in Own(m) => before[p] = 0 \/ m \in drifted'
    <3>1. CASE wrapped[m].enabled
      BY <1>4, <3>1
    <3>2. CASE ~ wrapped[m].enabled
      BY <1>2, <1>4, <2>3, <3>2, DisabledUnheard
    <3> QED BY <3>1, <3>2
  <2>8. /\ \A l \in Wrapped \ {m} : wrapped'[l] = wrapped[l] /\ Cells(l)' = Cells(l) /\ (l \in drifted => l \in drifted')
        /\ \A p \in Activators \X Receivers :
             IF p[2] \in Own(m) THEN before[p] = 0 \/ (m \in drifted' /\ p[2] \in Own(m)' /\ wrapped'[m].live)
             ELSE before[p] = dispatched[p]
        /\ \A p \in Activators \X Receivers : p[2] \in Own(m)' /\ p[2] \notin Own(m) => ~ (dispatched[p] > 0)
    BY <1>4, <2>3, <2>4, <2>5, <2>7
  <2>9. Started' /\ \A l \in Wrapped : Exact(l)'
    <3>1. ~ reshaped /\ WrapTyped' /\ OwnBlocks' /\ before \in [Activators \X Receivers -> 0 .. MostTimes]
      BY <1>2, <1>4, <2>4
    <3> QED BY <2>3, <2>6, <2>8, <3>1, Dropped
  <2> QED BY <2>4, <2>9 DEF WrapInv
<1>6. CASE /\ \E place \in Places(m, Len(Cells(n))) :
                /\ memory' = Holding(m, Starting(m, Kinds(n)), place)
                /\ wrapped' = [wrapped EXCEPT ![m].activators = wrapped[n].activators,
                                              ![m].enabled = wrapped[n].enabled, ![m].block = place]
                /\ IF wrapped[n].enabled
                   THEN /\ MayAdd(wrapped[m].ctx, wrapped[n].activators, Kinds(n))
                        /\ Enlists(before, drift, m, wrapped[n].activators, place, Kinds(n))
                   ELSE dispatched' = Unlisted(dispatched, m) /\ drifted' = drifted \ {m}
           /\ reshaped' = (~ wrapped[m].enabled /\ IsReceiver(m))
  <2> DEFINE kinds == Kinds(n)
  <2>1. kinds \in TriggerLists /\ Len(kinds) = Len(Cells(n))
    <3>1. Kinds(n) \in TriggerLists /\ DOMAIN Kinds(n) = 1 .. Len(Cells(n)) /\ Len(Cells(n)) \in Nat
      BY <1>2, CellsAre
    <3>2. PICK k \in Nat : DOMAIN Kinds(n) = 1 .. k /\ Len(Kinds(n)) = k
      BY <3>1, ListsAre
    <3> QED BY <3>1, <3>2
  <2>2. PICK place \in Places(m, Len(kinds)) :
          /\ memory' = Holding(m, Starting(m, kinds), place)
          /\ wrapped' = [wrapped EXCEPT ![m].activators = wrapped[n].activators,
                                        ![m].enabled = wrapped[n].enabled, ![m].block = place]
          /\ IF wrapped[n].enabled
             THEN Enlists(before, drift, m, wrapped[n].activators, place, kinds)
             ELSE dispatched' = Unlisted(dispatched, m) /\ drifted' = drifted \ {m}
    BY <1>6, <2>1
  <2> HIDE DEF kinds, before, drift
  <2>3. /\ wrapped' \in [Wrapped -> [live : BOOLEAN, enabled : BOOLEAN, ctx : BOOLEAN,
                                     activators : SUBSET Activators, block : Blocks \union {Nowhere}]]
        /\ wrapped'[m].block = place /\ wrapped'[m].live /\ wrapped'[m].enabled = wrapped[n].enabled
        /\ wrapped'[m].activators = wrapped[n].activators
        /\ \A l \in Wrapped \ {m} : wrapped'[l] = wrapped[l]
    <3>1. place \in Blocks \union {Nowhere}
      BY <1>2, <2>2 DEF Places
    <3>2. wrapped'[m] = [live |-> wrapped[m].live, enabled |-> wrapped[n].enabled, ctx |-> wrapped[m].ctx,
                         activators |-> wrapped[n].activators, block |-> place]
      BY <1>2, <2>2 DEF WrapTyped
    <3>3. wrapped'[m] \in [live : BOOLEAN, enabled : BOOLEAN, ctx : BOOLEAN,
                           activators : SUBSET Activators, block : Blocks \union {Nowhere}]
      BY <1>2, <3>1, <3>2
    <3>4. (\A l \in Wrapped \ {m} : wrapped'[l] = wrapped[l]) /\ wrapped' = [l \in Wrapped |-> wrapped'[l]]
      BY <1>2, <2>2 DEF WrapTyped
    <3>5. ASSUME NEW l \in Wrapped
          PROVE  wrapped'[l] \in [live : BOOLEAN, enabled : BOOLEAN, ctx : BOOLEAN,
                                  activators : SUBSET Activators, block : Blocks \union {Nowhere}]
      <4>1. CASE l = m
        BY <3>3, <4>1
      <4>2. CASE l # m
        <5>1. wrapped'[l] = wrapped[l]
          BY <3>4, <4>2
        <5> QED BY <1>2, <5>1 DEF WrapTyped
      <4> QED BY <4>1, <4>2
    <3>6. wrapped' \in [Wrapped -> [live : BOOLEAN, enabled : BOOLEAN, ctx : BOOLEAN,
                                    activators : SUBSET Activators, block : Blocks \union {Nowhere}]]
      BY <3>4, <3>5
    <3>7. wrapped'[m].block = place /\ wrapped'[m].live = wrapped[m].live /\ wrapped'[m].enabled = wrapped[n].enabled
          /\ wrapped'[m].activators = wrapped[n].activators
      BY <3>2
    <3> QED BY <1>2, <3>4, <3>6, <3>7
  <2>4. reshaped' = (~ wrapped[m].enabled /\ IsReceiver(m)) /\ reshaped' \in BOOLEAN
    BY <1>2, <1>6
  <2>5. wrapped[n].enabled => Accepts(before, drift, m, wrapped[n].activators, place, kinds, dispatched', drifted')
    BY <2>2 DEF Enlists, Accepts
  <2>6. /\ dispatched' \in [Activators \X Receivers -> 0 .. MostTimes] /\ drifted' \subseteq Wrapped
        /\ \A l \in Wrapped \ {m} : l \in drifted => l \in drifted'
    <3>1. CASE wrapped[n].enabled
      <4>1. Enlisted(before, drift, m, wrapped[n].activators, place, kinds, dispatched', drifted')
        BY <1>4, <2>1, <2>5, <3>1, EnlistsOwn
      <4> QED BY <1>2, <1>4, <4>1 DEF Enlisted
    <3>2. CASE ~ wrapped[n].enabled
      BY <1>2, <1>3, <2>2, <3>2
    <3> QED BY <3>1, <3>2
  <2>7. /\ WrapTyped' /\ OwnBlocks' /\ Kinds(m)' = kinds
        /\ \A l \in Wrapped \ {m} : Cells(l)' = Cells(l)
        /\ \A p \in Activators \X Receivers : p[2] \in Own(m)' /\ p[2] \notin Own(m) => ~ (dispatched[p] > 0)
    <3>1. /\ memory' = Holding(m, Starting(m, kinds), place) /\ place \in Places(m, Len(kinds)) /\ ~ reshaped
          /\ kinds \in TriggerLists
      BY <1>2, <2>1, <2>2
    <3> QED BY <2>3, <2>4, <2>6, <3>1, TriggersMoved
  <2>8. \A l \in Wrapped \ {m} : wrapped'[l] = wrapped[l] /\ Cells(l)' = Cells(l) /\ (l \in drifted => l \in drifted')
    BY <2>3, <2>6, <2>7
  <2>9. CASE ~ wrapped[n].enabled
    <3>1. ~ wrapped'[m].enabled
      BY <2>3, <2>9
    <3>2. \A p \in Activators \X Receivers : Expected(m, p)' = 0
      BY <3>1, NothingExpected
    <3>3. ~ reshaped /\ WrapTyped' /\ OwnBlocks' /\ dispatched' = Unlisted(dispatched, m)
      BY <1>2, <2>2, <2>7, <2>9
    <3>4. Started' /\ \A l \in Wrapped : Exact(l)'
      <4>1. \A p \in Activators \X Receivers :
              IF p[2] \in Own(m)
              THEN Unlisted(dispatched, m)[p] = 0 \/ (m \in drifted' /\ p[2] \in Own(m)' /\ wrapped'[m].live)
              ELSE Unlisted(dispatched, m)[p] = dispatched[p]
        BY <1>3
      <4>2. Unlisted(dispatched, m) \in [Activators \X Receivers -> 0 .. MostTimes]
        BY <1>3
      <4> QED BY <2>7, <2>8, <3>2, <3>3, <4>1, <4>2, Dropped
    <3> QED BY <2>7, <3>4 DEF WrapInv
  <2>10. CASE wrapped[n].enabled
    <3>1. ASSUME ~ reshaped' PROVE Started' /\ \A l \in Wrapped : Exact(l)'
      <4>1. \A p \in Activators \X Receivers : p[2] \in Own(m) => before[p] = 0
        <5>1. CASE wrapped[m].enabled
          BY <1>4, <5>1
        <5>2. CASE ~ wrapped[m].enabled
          <6>1. ~ IsReceiver(m)
            BY <2>4, <3>1, <5>2
          <6> QED BY <1>2, <1>4, <5>2, <6>1, NotReceived
        <5> QED BY <5>1, <5>2
      <4>2. \A p \in Activators \X Receivers :
              IF p[2] \in Own(m) THEN before[p] = 0 \/ (m \in drifted' /\ p[2] \in Own(m)' /\ wrapped'[m].live)
              ELSE before[p] = dispatched[p]
        BY <1>4, <4>1
      <4>3. /\ wrapped'[m].live /\ wrapped'[m].enabled
            /\ Accepts(before, drift, m, wrapped'[m].activators, wrapped'[m].block, Kinds(m)', dispatched', drifted')
        BY <2>3, <2>5, <2>7, <2>10
      <4>4. /\ ~ reshaped /\ WrapTyped' /\ OwnBlocks' /\ before \in [Activators \X Receivers -> 0 .. MostTimes]
            /\ drift \in SUBSET Wrapped
        BY <1>2, <1>4, <2>7
      <4> QED BY <2>7, <2>8, <4>2, <4>3, <4>4, Relisted
    <3> QED BY <2>7, <3>1 DEF WrapInv
  <2> QED BY <2>9, <2>10
<1> QED BY <1>1, <1>5, <1>6

-----------------------------------------------------------------------------
LEMMA WrapStarts == WrapInit => WrapInv
<1> SUFFICES ASSUME WrapInit PROVE WrapInv
  OBVIOUS
<1>1. /\ wrapped = [m \in Wrapped |-> NotMade] /\ memory = [b \in Blocks |-> Free]
      /\ dispatched = [p \in Activators \X Receivers |-> 0] /\ drifted = {} /\ reshaped = FALSE
  BY DEF WrapInit
<1>2. WrapTyped
  <2>1. NotMade \in [live : BOOLEAN, enabled : BOOLEAN, ctx : BOOLEAN,
                     activators : SUBSET Activators, block : Blocks \union {Nowhere}]
    BY DEF NotMade
  <2>2. Free \in [room : 0 .. MostTriggers, cells : Seq(WrapTriggers)] /\ Len(Free.cells) <= Free.room
    BY WrapAssumption DEF Free
  <2>3. memory \in [Blocks -> [room : 0 .. MostTriggers, cells : Seq(WrapTriggers)]]
        /\ \A b \in Blocks : Len(memory[b].cells) <= memory[b].room
    BY <1>1, <2>2
  <2>4. wrapped \in [Wrapped -> [live : BOOLEAN, enabled : BOOLEAN, ctx : BOOLEAN,
                                 activators : SUBSET Activators, block : Blocks \union {Nowhere}]]
    BY <1>1, <2>1
  <2>5. dispatched \in [Activators \X Receivers -> 0 .. MostTimes]
    BY <1>1, WrapAssumption
  <2> QED BY <1>1, <2>3, <2>4, <2>5 DEF WrapTyped
<1>3. OwnBlocks
  BY <1>1 DEF OwnBlocks, NotMade
<1>4. Started
  BY <1>1 DEF Started
<1>5. ASSUME NEW m \in Wrapped PROVE Exact(m)
  <2>1. ~ wrapped[m].live
    BY <1>1 DEF NotMade
  <2> QED BY <2>1 DEF Exact
<1> QED BY <1>2, <1>3, <1>4, <1>5 DEF WrapInv

LEMMA WrapStep == WrapInv /\ [WrapNext]_wrapVars => WrapInv'
<1> SUFFICES ASSUME WrapInv, [WrapNext]_wrapVars PROVE WrapInv'
  OBVIOUS
<1>1. CASE WrapNext
  BY <1>1, ConstructKeeps, ConstructCopyKeeps, DestructKeeps, EnabledKeeps, InterruptorsKeep, ActivatorsKeep,
     TriggersKeep, ClearKeeps, RemoveDispatchKeeps, AddDispatchKeeps, CopyKeeps DEF WrapNext
<1>2. CASE UNCHANGED wrapVars
  <2>1. wrapped' = wrapped /\ memory' = memory /\ dispatched' = dispatched /\ drifted' = drifted /\ reshaped' = reshaped
    BY <1>2 DEF wrapVars
  <2>2. \A n \in Wrapped : Cells(n)' = Cells(n)
    BY <2>1 DEF Cells
  <2>3. \A n \in Wrapped : Own(n)' = Own(n) /\ Kinds(n)' = Kinds(n)
    BY <2>1, <2>2 DEF Own, Kinds
  <2>4. WrapTyped' /\ OwnBlocks' /\ (Started => Started')
    BY <2>1, <2>2, <2>3 DEF WrapInv, WrapTyped, OwnBlocks, Started
  <2>5. ASSUME NEW n \in Wrapped, Exact(n) PROVE Exact(n)'
    <3>1. \A p \in DOMAIN dispatched : Expected(n, p)' = Expected(n, p)
      BY <2>1, <2>3 DEF Expected
    <3> QED BY <2>1, <2>3, <2>5, <3>1 DEF Exact
  <2> QED BY <2>1, <2>4, <2>5 DEF WrapInv
<1> QED BY <1>1, <1>2

LEMMA WrapInvSays == WrapInv => HeardWhileEnabled
<1> SUFFICES ASSUME WrapInv, ~ reshaped PROVE HeardWhileEnabled
  BY DEF HeardWhileEnabled
<1>1. WrapTyped /\ OwnBlocks /\ Started /\ \A m \in Wrapped : Exact(m)
  BY DEF WrapInv
<1>2. ASSUME NEW p \in DOMAIN dispatched, dispatched[p] > 0
      PROVE  \E m \in Wrapped : /\ wrapped[m].live /\ p[2] \in Own(m)
                                /\ p[2][2] # 0 => Cells(m)[p[2][2]].actor = m
  <2>1. PICK m \in Wrapped : wrapped[m].live /\ p[2] \in Own(m)
    BY <1>1, <1>2 DEF Started
  <2>2. ASSUME p[2][2] # 0 PROVE Cells(m)[p[2][2]].actor = m
    <3>1. PICK i \in 1 .. Len(Cells(m)) : p[2] = << wrapped[m].block, i >>
      BY <1>1, <2>1, <2>2, OwnIs
    <3>2. wrapped[m].block # Nowhere
      <4> SUFFICES ASSUME wrapped[m].block = Nowhere PROVE FALSE
        OBVIOUS
      <4>1. Cells(m) = << >>
        BY DEF Cells
      <4> QED BY <3>1, <4>1
    <3>3. i \in DOMAIN Cells(m) /\ p[2][2] = i
      BY <1>1, <3>1, CellsAre
    <3> QED BY <1>1, <3>2, <3>3 DEF OwnBlocks
  <2> QED BY <2>1, <2>2
<1>3. ASSUME NEW m \in Wrapped \ drifted, wrapped[m].live, NEW p \in DOMAIN dispatched, p[2] \in Own(m)
      PROVE  dispatched[p] = IF wrapped[m].enabled
                             THEN Added([q \in {p} |-> 0], m, wrapped[m].activators, wrapped[m].block, Kinds(m))[p]
                             ELSE 0
  BY <1>1, <1>3 DEF Exact, Expected, Anew
<1> QED BY <1>2, <1>3 DEF HeardWhileEnabled

LEMMA WrapsStay == WrapSpec => []HeardWhileEnabled
<1>1. WrapSpec => []WrapInv
  BY WrapStarts, WrapStep, PTL DEF WrapSpec
<1> QED BY <1>1, WrapInvSays, PTL

\* What macros of C++, their memory and the dispatchers are.
LEMMA WrapsTyped == WrapSpec => []WrapTypeOK
<1>1. WrapInv => WrapTypeOK
  BY DEF WrapInv, WrapTyped, WrapTypeOK
<1> QED BY <1>1, WrapStarts, WrapStep, PTL DEF WrapSpec

-----------------------------------------------------------------------------
(* Typing: the keys that a typist has down are those that what it has sent *)
(* left down.                                                              *)

TypedKeys == TypeKeys \union {ShiftKey}

\* The keys that the first n signals leave down.
LeftDown(signals, n) ==
  {k \in TypedKeys : \E i \in 1..n : signals[i] = Stroke("set", k) /\ \A j \in i + 1..n : signals[j] # Stroke("unset", k)}

Resting == [at : {"next"}, text : Seq(Chars), total : Nat]
Amid == [at : {"send"}, text : Seq(Chars), total : Nat, c : Chars, j : Nat, count : Nat,
         down : SUBSET TypedKeys, sent : Seq(Strokes), torn : BOOLEAN]

TypingTyped ==
  /\ characters \in Seq(Seq(Strokes)) /\ Len(characters) <= LastChar + 1
  /\ meant \in [Chars -> Seq(Strokes)]
  /\ typing \in [Typists -> {NotTyping} \union Resting \union Amid]
  /\ keysDown \subseteq TypedKeys /\ stuck \subseteq TypedKeys
  /\ typed \in 0..TypingBudget

\* The characters are what was asked for.
AsAsked == \A c \in Chars : meant[c] = SignalsOf(characters, c) /\ Released(meant[c])

\* What a typist has sent and has down, as long as its character is what it began to send.
OnTheWay(t) ==
  LET y == typing[t]
  IN Sending(t) =>
       /\ y.j <= y.count
       /\ ~ y.torn => /\ y.count = Len(meant[y.c])
                      /\ y.sent = SubSeq(meant[y.c], 1, y.j)
                      /\ y.down = LeftDown(meant[y.c], y.j)

\* Keys that are down are some typist's, or were left down.
Pressed == \A k \in keysDown \ stuck : \E t \in Typists : Sending(t) /\ k \in typing[t].down

TypingInv ==
  /\ TypingTyped /\ AsAsked
  /\ \A t \in Typists : OnTheWay(t)
  /\ Pressed

\* What a key types is what it is meant to (setCharacterKey).
LEMMA KeysAsMeant ==
  ASSUME NEW key \in TypeKeys, NEW shiftFlag \in BOOLEAN
  PROVE  /\ KeySignals(key, shiftFlag) = KeyMeant(key, shiftFlag)
         /\ KeyMeant(key, shiftFlag) \in Seq(Strokes) /\ Released(KeyMeant(key, shiftFlag))
<1>1. /\ Stroke("set", key) \in Strokes /\ Stroke("unset", key) \in Strokes /\ Pause \in Strokes
      /\ Stroke("set", ShiftKey) \in Strokes /\ Stroke("unset", ShiftKey) \in Strokes
  BY DEF Strokes
<1>2. \A k : /\ Stroke("set", k).apply = "set" /\ Stroke("unset", k).apply = "unset"
             /\ Stroke("set", k).key = k /\ Pause.apply = "none"
  BY DEF Stroke, Pause
<1>3. CASE shiftFlag
  <2>1. KeyMeant(key, shiftFlag) =
          << Stroke("set", ShiftKey), Pause, Stroke("set", key), Pause, Stroke("unset", key), Pause, Stroke("unset", ShiftKey) >>
    BY <1>3 DEF KeyMeant
  <2>2. KeySignals(key, shiftFlag) = KeyMeant(key, shiftFlag)
    <3> DEFINE at(i) == IF i % 2 = 1 THEN Pause
                        ELSE Stroke(IF i \div 2 < 2 THEN "set" ELSE "unset", IF i \in {0, 6} THEN ShiftKey ELSE key)
    <3>1. KeySignals(key, shiftFlag) = [i \in 1..7 |-> at(i - 1)]
      BY <1>3 DEF KeySignals, Gears
    <3>2. /\ at(0) = Stroke("set", ShiftKey) /\ at(1) = Pause /\ at(2) = Stroke("set", key) /\ at(3) = Pause
          /\ at(4) = Stroke("unset", key) /\ at(5) = Pause /\ at(6) = Stroke("unset", ShiftKey)
      OBVIOUS
    <3> HIDE DEF at
    <3>3. \A i \in 1..7 : i = 1 \/ i = 2 \/ i = 3 \/ i = 4 \/ i = 5 \/ i = 6 \/ i = 7
      OBVIOUS
    <3>4. ASSUME NEW i \in 1..7 PROVE at(i - 1) = KeyMeant(key, shiftFlag)[i]
      BY <2>1, <3>2, <3>3
    <3>5. DOMAIN KeyMeant(key, shiftFlag) = 1..7 /\ KeyMeant(key, shiftFlag) \in Seq(Strokes)
      BY <1>1, <2>1
    <3> QED BY <3>1, <3>4, <3>5
  <2>3. Released(KeyMeant(key, shiftFlag))
    <3> DEFINE s == KeyMeant(key, shiftFlag)
    <3>1. /\ Len(s) = 7 /\ DOMAIN s = 1..7
          /\ s[1] = Stroke("set", ShiftKey) /\ s[2] = Pause /\ s[3] = Stroke("set", key) /\ s[4] = Pause
          /\ s[5] = Stroke("unset", key) /\ s[6] = Pause /\ s[7] = Stroke("unset", ShiftKey)
      BY <2>1
    <3> HIDE DEF s
    <3>2. ASSUME NEW i \in 1..7, s[i].apply = "set" PROVE \E j \in i + 1..7 : s[j] = Stroke("unset", s[i].key)
      <4>1. i = 1 \/ i = 3
        BY <1>2, <3>1, <3>2
      <4>2. CASE i = 1
        <5>1. s[7] = Stroke("unset", s[i].key) /\ 7 \in i + 1..7
          BY <1>2, <3>1, <4>2
        <5> QED BY <5>1
      <4>3. CASE i = 3
        <5>1. s[5] = Stroke("unset", s[i].key) /\ 5 \in i + 1..7
          BY <1>2, <3>1, <4>3
        <5> QED BY <5>1
      <4> QED BY <4>1, <4>2, <4>3
    <3> QED BY <3>1, <3>2 DEF Released, s
  <2>4. KeyMeant(key, shiftFlag) \in Seq(Strokes)
    BY <1>1, <2>1
  <2> QED BY <2>2, <2>3, <2>4
<1>4. CASE ~ shiftFlag
  <2>1. KeyMeant(key, shiftFlag) = << Stroke("set", key), Pause, Stroke("unset", key) >>
    BY <1>4 DEF KeyMeant
  <2>2. KeySignals(key, shiftFlag) = KeyMeant(key, shiftFlag)
    <3> DEFINE at(i) == IF i % 2 = 1 THEN Pause ELSE Stroke(IF i \div 2 < 1 THEN "set" ELSE "unset", key)
    <3>1. KeySignals(key, shiftFlag) = [i \in 1..3 |-> at(i - 1)]
      BY <1>4 DEF KeySignals, Gears
    <3>2. at(0) = Stroke("set", key) /\ at(1) = Pause /\ at(2) = Stroke("unset", key)
      OBVIOUS
    <3> HIDE DEF at
    <3>3. \A i \in 1..3 : i = 1 \/ i = 2 \/ i = 3
      OBVIOUS
    <3>4. ASSUME NEW i \in 1..3 PROVE at(i - 1) = KeyMeant(key, shiftFlag)[i]
      BY <2>1, <3>2, <3>3
    <3>5. DOMAIN KeyMeant(key, shiftFlag) = 1..3 /\ KeyMeant(key, shiftFlag) \in Seq(Strokes)
      BY <1>1, <2>1
    <3> QED BY <3>1, <3>4, <3>5
  <2>3. Released(KeyMeant(key, shiftFlag))
    <3> DEFINE s == KeyMeant(key, shiftFlag)
    <3>1. /\ Len(s) = 3 /\ DOMAIN s = 1..3
          /\ s[1] = Stroke("set", key) /\ s[2] = Pause /\ s[3] = Stroke("unset", key)
      BY <2>1
    <3> HIDE DEF s
    <3>2. ASSUME NEW i \in 1..3, s[i].apply = "set" PROVE \E j \in i + 1..3 : s[j] = Stroke("unset", s[i].key)
      <4>1. i = 1
        BY <1>2, <3>1, <3>2
      <4>2. s[3] = Stroke("unset", s[i].key) /\ 3 \in i + 1..3
        BY <1>2, <3>1, <4>1
      <4> QED BY <4>2
    <3> QED BY <3>1, <3>2 DEF Released, s
  <2>4. KeyMeant(key, shiftFlag) \in Seq(Strokes)
    BY <1>1, <2>1
  <2> QED BY <2>2, <2>3, <2>4
<1> QED BY <1>3, <1>4

\* Making room for a character changes none (characterRef).
LEMMA EnsuredKeeps ==
  ASSUME NEW chars \in Seq(Seq(Strokes)), Len(chars) <= LastChar + 1, NEW c \in Chars
  PROVE  /\ Ensured(chars, c) \in Seq(Seq(Strokes))
         /\ Len(Ensured(chars, c)) <= LastChar + 1 /\ c + 1 \in 1..Len(Ensured(chars, c))
         /\ \A d \in Chars : SignalsOf(Ensured(chars, c), d) = SignalsOf(chars, d)
<1> DEFINE more == c + 1 - Len(chars)
           pad == [i \in 1..more |-> << >>]
<1>1. c \in Nat /\ c <= LastChar /\ LastChar \in Nat /\ Len(chars) \in Nat /\ more \in Int
  BY TypingAssumption DEF Chars
<1>2. << >> \in Seq(Strokes)
  OBVIOUS
<1>3. pad \in Seq(Seq(Strokes)) /\ Len(pad) = IF more > 0 THEN more ELSE 0
  <2>1. CASE more > 0
    <3>1. more \in Nat /\ pad \in [1..more -> Seq(Strokes)]
      BY <1>1, <1>2, <2>1
    <3> HIDE DEF more, pad
    <3> QED BY <2>1, <3>1
  <2>2. CASE ~ (more > 0)
    <3>1. 1..more = {}
      BY <1>1, <2>2
    <3>2. pad = << >>
      BY <3>1
    <3>3. << >> \in Seq(Seq(Strokes)) /\ Len(<< >>) = 0
      OBVIOUS
    <3> HIDE DEF pad, more
    <3> QED BY <2>2, <3>2, <3>3
  <2> QED BY <2>1, <2>2
<1>4. ASSUME NEW i \in 1..Len(pad) PROVE pad[i] = << >>
  <2>1. i \in 1..more
    <3> HIDE DEF pad, more
    <3> QED BY <1>1, <1>3
  <2> QED BY <2>1
<1>5. Ensured(chars, c) = chars \o pad
  BY DEF Ensured
<1>6. Len(pad) = (IF more > 0 THEN more ELSE 0) /\ more = c + 1 - Len(chars)
  BY <1>3
<1> HIDE DEF more, pad
<1>7. /\ chars \o pad \in Seq(Seq(Strokes)) /\ Len(chars \o pad) = Len(chars) + Len(pad)
      /\ \A i \in 1..Len(chars) + Len(pad) : (chars \o pad)[i] = IF i <= Len(chars) THEN chars[i] ELSE pad[i - Len(chars)]
  BY <1>3, ConcatProperties
<1>8. ASSUME NEW d \in Chars PROVE SignalsOf(Ensured(chars, c), d) = SignalsOf(chars, d)
  <2>1. d \in Nat
    BY <1>1, <1>8 DEF Chars
  <2>2. CASE d < Len(chars)
    <3>1. d + 1 \in 1..Len(chars) + Len(pad) /\ d + 1 <= Len(chars) /\ d < Len(chars) + Len(pad)
      BY <1>1, <1>6, <2>1, <2>2
    <3> QED BY <1>5, <1>7, <2>2, <3>1 DEF SignalsOf
  <2>3. CASE ~ (d < Len(chars)) /\ d < Len(chars) + Len(pad)
    <3>1. d + 1 \in 1..Len(chars) + Len(pad) /\ ~ (d + 1 <= Len(chars)) /\ d + 1 - Len(chars) \in 1..Len(pad)
      BY <1>1, <1>6, <2>1, <2>3
    <3> QED BY <1>4, <1>5, <1>7, <2>3, <3>1 DEF SignalsOf
  <2>4. CASE ~ (d < Len(chars)) /\ ~ (d < Len(chars) + Len(pad))
    BY <1>5, <1>7, <2>4 DEF SignalsOf
  <2> QED BY <2>2, <2>3, <2>4
<1> QED BY <1>1, <1>5, <1>6, <1>7, <1>8

\* What is asked for one character (setCharacter, setCharacterKey and removeCharacter).
Reset(chars, c, signals, new) ==
  /\ new \in Seq(Seq(Strokes)) /\ Len(new) = Len(chars)
  /\ \A d \in Chars : SignalsOf(new, d) = IF d = c THEN signals ELSE SignalsOf(chars, d)

LEMMA AskedOne ==
  ASSUME NEW chars \in Seq(Seq(Strokes)), NEW c \in Chars, c + 1 \in 1..Len(chars), NEW signals \in Seq(Strokes)
  PROVE  Reset(chars, c, signals, [chars EXCEPT ![c + 1] = signals])
<1> DEFINE new == [chars EXCEPT ![c + 1] = signals]
<1>1. new \in Seq(Seq(Strokes)) /\ Len(new) = Len(chars) /\ \A i \in 1..Len(chars) : new[i] = IF i = c + 1 THEN signals ELSE chars[i]
  OBVIOUS
<1> HIDE DEF new
<1>2. ASSUME NEW d \in Chars PROVE SignalsOf(new, d) = IF d = c THEN signals ELSE SignalsOf(chars, d)
  <2>1. d \in Nat /\ c \in Nat
    BY TypingAssumption DEF Chars
  <2>2. CASE d < Len(chars)
    <3>1. d + 1 \in 1..Len(chars) /\ (d + 1 = c + 1 <=> d = c)
      BY <2>1, <2>2
    <3> QED BY <1>1, <2>2, <3>1 DEF SignalsOf
  <2>3. CASE ~ (d < Len(chars))
    <3>1. d # c
      BY <2>1, <2>3
    <3> QED BY <1>1, <2>3, <3>1 DEF SignalsOf
  <2> QED BY <2>2, <2>3
<1>3. Reset(chars, c, signals, new)
  BY <1>1, <1>2 DEF Reset
<1> QED BY <1>3 DEF new

LEMMA SmallerNumbers == OpToRel(<, Nat) = {p \in Nat \X Nat : p[1] < p[2]}
BY Zenon DEF OpToRel

\* A set of numbers up to a number that is not empty has a greatest one.
LEMMA GreatestNumber ==
  ASSUME NEW n \in Nat, NEW T \in SUBSET (1..n), T # {}
  PROVE  Max(T) \in T /\ \A i \in T : Max(T) >= i
<1> DEFINE R == {p \in Nat \X Nat : p[1] < p[2]}
           D == {n - i : i \in T}
<1>1. IsWellFoundedOn(R, Nat)
  BY SmallerNumbers, NatLessThanWellFounded, Zenon
<1>2. D \subseteq Nat /\ D # {}
  <2>1. ASSUME NEW i \in T PROVE n - i \in Nat
    OBVIOUS
  <2> QED BY <2>1
<1> HIDE DEF R, D
<1>3. PICK x \in D : \A y \in D : ~ (<< y, x >> \in R)
  BY <1>1, <1>2, WFMin
<1>4. ASSUME NEW y \in D PROVE x <= y
  <2>1. x \in Nat /\ y \in Nat
    BY <1>2
  <2>2. ~ (y < x)
    BY <1>3, <2>1 DEF R
  <2> QED BY <2>1, <2>2
<1>5. PICK i \in T : x = n - i
  BY DEF D
<1>6. ASSUME NEW k \in T PROVE i >= k
  <2>1. n - k \in D
    BY DEF D
  <2> QED BY <1>4, <1>5, <2>1
<1>7. \E m \in T : \A k \in T : m >= k
  BY <1>6
<1> QED BY <1>7 DEF Max

\* Nor does dropping the last ones without signals (trimCharacters).
LEMMA TrimmedKeeps ==
  ASSUME NEW chars \in Seq(Seq(Strokes))
  PROVE  /\ Trimmed(chars) \in Seq(Seq(Strokes)) /\ Len(Trimmed(chars)) <= Len(chars)
         /\ \A d \in Chars : SignalsOf(Trimmed(chars), d) = SignalsOf(chars, d)
<1> DEFINE I == {i \in 1..Len(chars) : chars[i] # << >>}
           last == IF I # {} THEN Max(I) ELSE 0
<1>1. Len(chars) \in Nat
  OBVIOUS
<1>2. last \in 0..Len(chars) /\ \A i \in 1..Len(chars) : chars[i] # << >> => i <= last
  <2>1. CASE I = {}
    <3>1. last = 0 /\ \A i \in 1..Len(chars) : ~ chars[i] # << >>
      BY <2>1
    <3> HIDE DEF last, I
    <3> QED BY <1>1, <3>1
  <2>2. CASE I # {}
    <3>1. I \in SUBSET (1..Len(chars))
      OBVIOUS
    <3>2. Max(I) \in I /\ \A i \in I : Max(I) >= i
      BY <1>1, <2>2, <3>1, GreatestNumber
    <3>3. last = Max(I)
      BY <2>2
    <3>4. \A i \in 1..Len(chars) : chars[i] # << >> => i \in I
      OBVIOUS
    <3>5. last \in 1..Len(chars) /\ \A i \in I : last >= i /\ i \in Nat
      BY <3>1, <3>2, <3>3
    <3> HIDE DEF last, I
    <3> QED BY <1>1, <3>4, <3>5
  <2> QED BY <2>1, <2>2
<1>3. Trimmed(chars) = SubSeq(chars, 1, last)
  BY DEF Trimmed, SelectLastInSeq
<1> HIDE DEF last
<1>4. /\ SubSeq(chars, 1, last) \in Seq(Seq(Strokes)) /\ Len(SubSeq(chars, 1, last)) = last
      /\ \A i \in 1..last : SubSeq(chars, 1, last)[i] = chars[i]
  BY <1>1, <1>2
<1>5. ASSUME NEW d \in Chars PROVE SignalsOf(Trimmed(chars), d) = SignalsOf(chars, d)
  <2>1. d \in Nat
    BY TypingAssumption DEF Chars
  <2>2. CASE d < last
    <3>1. d + 1 \in 1..last /\ d < Len(chars)
      BY <1>1, <1>2, <2>1, <2>2
    <3> QED BY <1>3, <1>4, <2>2, <3>1 DEF SignalsOf
  <2>3. CASE ~ (d < last) /\ d < Len(chars)
    <3>1. d + 1 \in 1..Len(chars) /\ ~ (d + 1 <= last)
      BY <1>1, <1>2, <2>1, <2>3
    <3>2. chars[d + 1] = << >>
      BY <1>2, <3>1
    <3> QED BY <1>3, <1>4, <2>3, <3>2 DEF SignalsOf
  <2>4. CASE ~ (d < last) /\ ~ (d < Len(chars))
    BY <1>3, <1>4, <2>4 DEF SignalsOf
  <2> QED BY <2>2, <2>3, <2>4
<1> QED BY <1>2, <1>3, <1>4, <1>5

\* What one more signal presses or releases, and that nothing is left down in the end.
LEMMA HeldStep ==
  ASSUME NEW signals \in Seq(Strokes), NEW n \in Nat, n < Len(signals)
  PROVE  LeftDown(signals, n + 1) = LET s == signals[n + 1]
                                IN IF s.apply = "set" THEN LeftDown(signals, n) \union {s.key}
                                   ELSE IF s.apply = "unset" THEN LeftDown(signals, n) \ {s.key} ELSE LeftDown(signals, n)
<1> DEFINE s == signals[n + 1]
<1>1. s \in Strokes /\ Len(signals) \in Nat
  OBVIOUS
<1>2. \/ s.apply = "set" /\ s.key \in TypedKeys /\ s = Stroke("set", s.key)
      \/ s.apply = "unset" /\ s.key \in TypedKeys /\ s = Stroke("unset", s.key)
      \/ s.apply = "none"
  BY <1>1 DEF Strokes, Stroke, Pause, TypedKeys
<1>3. \A k : /\ s = Stroke("set", k) <=> s.apply = "set" /\ s = Stroke("set", s.key) /\ k = s.key
             /\ s = Stroke("unset", k) <=> s.apply = "unset" /\ s = Stroke("unset", s.key) /\ k = s.key
  BY DEF Stroke
<1> HIDE DEF s
<1>4. ASSUME NEW k \in TypedKeys
      PROVE  k \in LeftDown(signals, n + 1) <=> s = Stroke("set", k) \/ (k \in LeftDown(signals, n) /\ s # Stroke("unset", k))
  <2>1. ASSUME k \in LeftDown(signals, n + 1) PROVE s = Stroke("set", k) \/ (k \in LeftDown(signals, n) /\ s # Stroke("unset", k))
    <3>1. PICK i \in 1..n + 1 : signals[i] = Stroke("set", k) /\ \A j \in i + 1..n + 1 : signals[j] # Stroke("unset", k)
      BY <2>1 DEF LeftDown
    <3>2. CASE i = n + 1
      BY <3>1, <3>2 DEF s
    <3>3. CASE i # n + 1
      <4>1. i \in 1..n /\ n + 1 \in i + 1..n + 1 /\ \A j \in i + 1..n : j \in i + 1..n + 1
        BY <3>3
      <4>2. k \in LeftDown(signals, n) /\ s # Stroke("unset", k)
        BY <3>1, <4>1 DEF LeftDown, s
      <4> QED BY <4>2
    <3> QED BY <3>2, <3>3
  <2>2. ASSUME s = Stroke("set", k) PROVE k \in LeftDown(signals, n + 1)
    <3>1. n + 1 \in 1..n + 1 /\ \A j \in n + 1 + 1..n + 1 : FALSE
      OBVIOUS
    <3> QED BY <2>2, <3>1 DEF LeftDown, s
  <2>3. ASSUME k \in LeftDown(signals, n), s # Stroke("unset", k) PROVE k \in LeftDown(signals, n + 1)
    <3>1. PICK i \in 1..n : signals[i] = Stroke("set", k) /\ \A j \in i + 1..n : signals[j] # Stroke("unset", k)
      BY <2>3 DEF LeftDown
    <3>2. i \in 1..n + 1 /\ \A j \in i + 1..n + 1 : j \in i + 1..n \/ j = n + 1
      OBVIOUS
    <3>3. \A j \in i + 1..n + 1 : signals[j] # Stroke("unset", k)
      BY <2>3, <3>1, <3>2 DEF s
    <3> QED BY <3>1, <3>2, <3>3 DEF LeftDown
  <2> QED BY <2>1, <2>2, <2>3
<1>5. LeftDown(signals, n) \subseteq TypedKeys /\ LeftDown(signals, n + 1) \subseteq TypedKeys
  BY DEF LeftDown
<1>6. CASE s.apply = "set"
  <2>1. \A k \in TypedKeys : k \in LeftDown(signals, n + 1) <=> k = s.key \/ k \in LeftDown(signals, n)
    BY <1>2, <1>3, <1>4, <1>6
  <2> QED BY <1>2, <1>5, <1>6, <2>1 DEF s
<1>7. CASE s.apply = "unset"
  <2>1. \A k \in TypedKeys : k \in LeftDown(signals, n + 1) <=> k \in LeftDown(signals, n) /\ k # s.key
    BY <1>2, <1>3, <1>4, <1>7
  <2> QED BY <1>2, <1>5, <1>7, <2>1 DEF s
<1>8. CASE s.apply = "none"
  <2>1. \A k \in TypedKeys : k \in LeftDown(signals, n + 1) <=> k \in LeftDown(signals, n)
    BY <1>3, <1>4, <1>8
  <2>2. LeftDown(signals, n + 1) = LeftDown(signals, n)
    BY <1>5, <2>1
  <2> QED BY <1>8, <2>2 DEF s
<1> QED BY <1>2, <1>6, <1>7, <1>8

LEMMA NothingHeld ==
  ASSUME NEW signals \in Seq(Strokes)
  PROVE  LeftDown(signals, 0) = {} /\ (Released(signals) => LeftDown(signals, Len(signals)) = {})
<1>1. LeftDown(signals, 0) = {}
  BY DEF LeftDown
<1>2. ASSUME Released(signals), NEW k \in LeftDown(signals, Len(signals)) PROVE FALSE
  <2>1. PICK i \in 1..Len(signals) :
          signals[i] = Stroke("set", k) /\ \A j \in i + 1..Len(signals) : signals[j] # Stroke("unset", k)
    BY <1>2 DEF LeftDown
  <2>2. signals[i].apply = "set" /\ signals[i].key = k /\ i \in DOMAIN signals
    BY <2>1 DEF Stroke
  <2> QED BY <1>2, <2>1, <2>2 DEF Released
<1> QED BY <1>1, <1>2

\* Where a typist is.
LEMMA TypistIs ==
  ASSUME TypingTyped, NEW t \in Typists
  PROVE  /\ typing[t] \in {NotTyping} \union Resting \union Amid
         /\ Sending(t) <=> typing[t] \in Amid
         /\ typing[t].at = "next" <=> typing[t] \in Resting
<1>1. typing[t] \in {NotTyping} \union Resting \union Amid
  BY DEF TypingTyped
<1>2. typing[t] = NotTyping => typing[t].at = "idle"
  BY DEF NotTyping
<1>3. typing[t] \in Resting => typing[t].at = "next"
  BY DEF Resting
<1>4. typing[t] \in Amid => typing[t].at = "send"
  BY DEF Amid
<1> QED BY <1>1, <1>2, <1>3, <1>4 DEF Sending

\* A typist that begins a text, or leaves a character.
LEMMA LeavesKeeps ==
  ASSUME TypingInv, NEW t \in Typists, NEW r \in {NotTyping} \union Resting, typing' = [typing EXCEPT ![t] = r],
         UNCHANGED << characters, keysDown, meant >>, typed' \in 0..TypingBudget,
         stuck' = IF Sending(t) THEN stuck \union typing[t].down ELSE stuck
  PROVE  TypingInv'
<1>1. TypingTyped /\ AsAsked /\ Pressed /\ \A u \in Typists : OnTheWay(u)
  BY DEF TypingInv
<1>2. typing'[t] = r /\ \A u \in Typists \ {t} : typing'[u] = typing[u]
  BY <1>1 DEF TypingTyped
<1>3. typing' \in [Typists -> {NotTyping} \union Resting \union Amid]
  BY <1>1 DEF TypingTyped
<1>4. stuck' \subseteq TypedKeys
  <2>1. CASE Sending(t)
    <3>1. typing[t].down \subseteq TypedKeys
      BY <1>1, <2>1, TypistIs DEF Amid
    <3> QED BY <1>1, <2>1, <3>1 DEF TypingTyped
  <2>2. CASE ~ Sending(t)
    BY <1>1, <2>2 DEF TypingTyped
  <2> QED BY <2>1, <2>2
<1>5. TypingTyped'
  BY <1>1, <1>3, <1>4 DEF TypingTyped
<1>6. AsAsked'
  BY <1>1 DEF AsAsked, SignalsOf
<1>7. ~ (r.at = "send")
  BY DEF Resting, NotTyping
<1>8. ASSUME NEW u \in Typists PROVE OnTheWay(u)'
  <2>1. CASE u = t
    BY <1>2, <1>7, <2>1 DEF OnTheWay, Sending
  <2>2. CASE u # t
    <3>1. typing'[u] = typing[u] /\ OnTheWay(u)
      BY <1>1, <1>2, <2>2
    <3> QED BY <3>1 DEF OnTheWay, Sending
  <2> QED BY <2>1, <2>2
<1>9. Pressed'
  <2> SUFFICES ASSUME NEW k \in keysDown', k \notin stuck'
               PROVE  \E u \in Typists : typing'[u].at = "send" /\ k \in typing'[u].down
    BY DEF Pressed, Sending
  <2>1. k \in keysDown \ stuck
    BY DEF Sending
  <2>2. PICK u \in Typists : Sending(u) /\ k \in typing[u].down
    BY <1>1, <2>1 DEF Pressed
  <2>3. u # t
    BY <2>2
  <2> QED BY <1>2, <2>2, <2>3 DEF Sending
<1> QED BY <1>5, <1>6, <1>8, <1>9 DEF TypingInv

LEMMA TypesKeep == TypingInv /\ (\E t \in Typists : Types(t) \/ Skips(t) \/ Throws(t) \/ Follows(t) \/ Ends(t)) => TypingInv'
<1> SUFFICES ASSUME TypingInv, NEW t \in Typists, Types(t) \/ Skips(t) \/ Throws(t) \/ Follows(t) \/ Ends(t)
             PROVE  TypingInv'
  OBVIOUS
<1>1. TypingTyped /\ typed \in 0..TypingBudget /\ Len(characters) \in Nat /\ TypingBudget \in Nat
  BY TypingAssumption DEF TypingInv, TypingTyped
<1>2. CASE Types(t)
  <2>1. PICK words \in TypedTexts :
          /\ ~ Typing(t) /\ typed < TypingBudget /\ typed' = typed + 1
          /\ typing' = [typing EXCEPT ![t] = [at |-> "next", text |-> words, total |-> Len(characters)]]
          /\ UNCHANGED << characters, keysDown, meant, stuck >>
    BY <1>2 DEF Types
  <2>2. [at |-> "next", text |-> words, total |-> Len(characters)] \in Resting
    BY <1>1, TypingAssumption DEF Resting
  <2>3. ~ Sending(t) /\ typed' \in 0..TypingBudget
    BY <1>1, <2>1 DEF Sending, Typing
  <2> QED BY <2>1, <2>2, <2>3, LeavesKeeps
<1>3. CASE Skips(t)
  <2>1. /\ typing[t].at = "next" /\ typing[t].text # << >> /\ typing' = [typing EXCEPT ![t].text = Tail(@)]
        /\ UNCHANGED << characters, keysDown, typed, meant, stuck >>
    BY <1>3 DEF Skips
  <2>2. typing[t] \in Resting /\ ~ Sending(t)
    BY <1>1, <2>1, TypistIs DEF Sending
  <2> DEFINE r == [typing[t] EXCEPT !.text = Tail(@)]
  <2>3. typing' = [typing EXCEPT ![t] = r]
    BY <1>1, <2>1 DEF TypingTyped
  <2>4. r \in Resting
    <3> DEFINE y == typing[t]
    <3>1. y \in Resting /\ y.text # << >> /\ r = [y EXCEPT !.text = Tail(y.text)]
      BY <2>1, <2>2
    <3> HIDE DEF y, r
    <3>2. y.text \in Seq(Chars)
      BY <3>1 DEF Resting
    <3>3. Tail(y.text) \in Seq(Chars)
      BY <3>1, <3>2
    <3> QED BY <3>1, <3>3 DEF Resting
  <2> HIDE DEF r
  <2> QED BY <1>1, <2>1, <2>2, <2>3, <2>4, LeavesKeeps
<1>4. CASE Throws(t)
  <2>1. /\ Sending(t) /\ stuck' = stuck \union typing[t].down /\ typing' = [typing EXCEPT ![t] = NotTyping]
        /\ UNCHANGED << characters, keysDown, typed, meant >>
    BY <1>4 DEF Throws
  <2> QED BY <1>1, <2>1, LeavesKeeps
<1>5. CASE Follows(t)
  <2> DEFINE r == [at |-> "next", text |-> typing[t].text, total |-> typing[t].total]
  <2>1. /\ Sending(t) /\ stuck' = stuck \union typing[t].down /\ typing' = [typing EXCEPT ![t] = r]
        /\ UNCHANGED << characters, keysDown, typed, meant >>
    BY <1>1, <1>5 DEF Follows, TypingTyped
  <2>2. r \in Resting
    BY <1>1, <2>1, TypistIs DEF Resting, Amid
  <2> HIDE DEF r
  <2> QED BY <1>1, <2>1, <2>2, LeavesKeeps
<1>6. CASE Ends(t)
  <2>1. /\ typing[t].at = "next" /\ typing' = [typing EXCEPT ![t] = NotTyping]
        /\ UNCHANGED << characters, keysDown, typed, meant, stuck >>
    BY <1>6 DEF Ends
  <2>2. ~ Sending(t)
    BY <2>1 DEF Sending
  <2> QED BY <1>1, <2>1, <2>2, LeavesKeeps
<1> QED BY <1>2, <1>3, <1>4, <1>5, <1>6

LEMMA ReadsKeep == TypingInv /\ (\E t \in Typists : Reads(t)) => TypingInv'
<1> SUFFICES ASSUME TypingInv, NEW t \in Typists, Reads(t) PROVE TypingInv'
  OBVIOUS
<1>1. TypingTyped /\ AsAsked /\ Pressed /\ \A u \in Typists : OnTheWay(u)
  BY DEF TypingInv
<1> DEFINE c == Head(typing[t].text)
           signals == characters'[c + 1]
           r == [at |-> "send", text |-> Tail(typing[t].text), total |-> typing[t].total, c |-> c, j |-> 0,
                 count |-> Len(signals), down |-> {}, sent |-> << >>, torn |-> FALSE]
<1>2. /\ typing[t].at = "next" /\ typing[t].text # << >> /\ characters' = Ensured(characters, c)
      /\ typing' = [typing EXCEPT ![t] = r]
      /\ keysDown' = keysDown /\ typed' = typed /\ meant' = meant /\ stuck' = stuck
  BY <1>1 DEF Reads, TypingTyped
<1>3. /\ c \in Chars /\ Tail(typing[t].text) \in Seq(Chars) /\ typing[t].total \in Nat
  <2>1. typing[t].text \in Seq(Chars) /\ typing[t].total \in Nat
    BY <1>1, <1>2, TypistIs DEF Resting
  <2> QED BY <1>2, <2>1
<1>4. /\ characters' \in Seq(Seq(Strokes)) /\ Len(characters') <= LastChar + 1 /\ c + 1 \in 1..Len(characters')
      /\ \A d \in Chars : SignalsOf(characters', d) = SignalsOf(characters, d)
  BY <1>1, <1>2, <1>3, EnsuredKeeps DEF TypingTyped
<1>5. signals = meant[c] /\ signals \in Seq(Strokes) /\ Len(signals) \in Nat
  <2>1. signals = SignalsOf(characters', c)
    <3>1. c \in Nat /\ signals = characters'[c + 1]
      BY <1>3 DEF Chars
    <3> HIDE DEF c, signals
    <3> QED BY <1>4, <3>1 DEF SignalsOf
  <2>2. signals \in Seq(Strokes)
    BY <1>4
  <2> QED BY <1>1, <1>3, <1>4, <2>1, <2>2 DEF AsAsked
<1>6. r \in Amid
  <2>1. << >> \in Seq(Strokes)
    OBVIOUS
  <2> HIDE DEF c, signals
  <2> QED BY <1>3, <1>5, <2>1 DEF Amid
<1>7. /\ r.at = "send" /\ r.c = c /\ r.j = 0 /\ r.count = Len(signals) /\ r.down = {} /\ r.sent = << >> /\ ~ r.torn
  OBVIOUS
<1> HIDE DEF r, c, signals
<1>8. typing'[t] = r /\ \A u \in Typists \ {t} : typing'[u] = typing[u]
  BY <1>1, <1>2 DEF TypingTyped
<1>9. TypingTyped'
  <2>1. typing' \in [Typists -> {NotTyping} \union Resting \union Amid]
    BY <1>1, <1>2, <1>6 DEF TypingTyped
  <2> QED BY <1>1, <1>2, <1>4, <2>1 DEF TypingTyped
<1>10. AsAsked'
  BY <1>1, <1>2, <1>4 DEF AsAsked
<1>11. ASSUME NEW u \in Typists PROVE OnTheWay(u)'
  <2>1. CASE u = t
    <3>1. SubSeq(meant[c], 1, 0) = << >> /\ LeftDown(meant[c], 0) = {}
      BY <1>5, NothingHeld
    <3>2. r.j <= r.count /\ r.count = Len(meant[r.c]) /\ r.sent = SubSeq(meant[r.c], 1, r.j) /\ r.down = LeftDown(meant[r.c], r.j)
      BY <1>5, <1>7, <3>1
    <3> QED BY <1>2, <1>8, <2>1, <3>2 DEF OnTheWay
  <2>2. CASE u # t
    <3>1. typing'[u] = typing[u] /\ OnTheWay(u)
      BY <1>1, <1>8, <2>2
    <3> QED BY <1>2, <3>1 DEF OnTheWay, Sending
  <2> QED BY <2>1, <2>2
<1>12. Pressed'
  <2> SUFFICES ASSUME NEW k \in keysDown \ stuck PROVE \E u \in Typists : typing'[u].at = "send" /\ k \in typing'[u].down
    BY <1>2 DEF Pressed, Sending
  <2>1. PICK u \in Typists : Sending(u) /\ k \in typing[u].down
    BY <1>1 DEF Pressed
  <2>2. u # t
    BY <1>2, <2>1 DEF Sending
  <2> QED BY <1>8, <2>1, <2>2 DEF Sending
<1> QED BY <1>9, <1>10, <1>11, <1>12 DEF TypingInv

\* Which keys are down after a signal.
PressedAfter(s, keys) == IF s.apply = "set" THEN keys \union {s.key} ELSE IF s.apply = "unset" THEN keys \ {s.key} ELSE keys

LEMMA SendsKeep == TypingInv /\ (\E t \in Typists : Sends(t)) => TypingInv'
<1> SUFFICES ASSUME TypingInv, NEW t \in Typists, Sends(t) PROVE TypingInv'
  OBVIOUS
<1>1. TypingTyped /\ AsAsked /\ Pressed /\ \A u \in Typists : OnTheWay(u)
  BY DEF TypingInv
<1> DEFINE y == typing[t]
<1>2. PICK s \in Readable(t) :
        /\ Sending(t) /\ y.j < y.count
        /\ keysDown' = PressedAfter(s, keysDown)
        /\ typing' = [typing EXCEPT ![t].j = @ + 1, ![t].down = PressedAfter(s, @),
                                    ![t].sent = IF typing[t].torn THEN @ ELSE Append(@, s)]
        /\ characters' = characters /\ typed' = typed /\ meant' = meant /\ stuck' = stuck
  BY DEF Sends, PressedAfter
<1>3. y \in Amid
  BY <1>1, <1>2, TypistIs
<1>4. /\ y.c \in Chars /\ y.j \in Nat /\ y.count \in Nat /\ y.down \subseteq TypedKeys /\ y.sent \in Seq(Strokes) /\ y.torn \in BOOLEAN
      /\ y.text \in Seq(Chars) /\ y.total \in Nat /\ y.at = "send"
  BY <1>3 DEF Amid
<1>5. meant[y.c] \in Seq(Strokes) /\ meant[y.c] = SignalsOf(characters, y.c) /\ y.c \in Nat
  BY <1>1, <1>4, TypingAssumption DEF TypingTyped, AsAsked, Chars
<1>6. ASSUME ~ y.torn PROVE /\ y.count = Len(meant[y.c]) /\ y.sent = SubSeq(meant[y.c], 1, y.j)
                            /\ y.down = LeftDown(meant[y.c], y.j) /\ s = meant[y.c][y.j + 1] /\ y.j < Len(meant[y.c])
  <2>1. y.count = Len(meant[y.c]) /\ y.sent = SubSeq(meant[y.c], 1, y.j) /\ y.down = LeftDown(meant[y.c], y.j)
    BY <1>1, <1>2, <1>6 DEF OnTheWay
  <2>2. meant[y.c] # << >>
    BY <1>2, <1>4, <2>1
  <2>3. meant[y.c] = characters[y.c + 1]
    BY <1>5, <2>2 DEF SignalsOf
  <2>4. s = characters[y.c + 1][y.j + 1]
    BY <1>2, <1>6 DEF Readable, Signals
  <2> QED BY <1>2, <2>1, <2>3, <2>4
<1>7. s \in Strokes
  <2>1. CASE y.torn
    BY <2>1 DEF Readable
  <2>2. CASE ~ y.torn
    BY <1>4, <1>5, <1>6, <2>2
  <2> QED BY <1>4, <2>1, <2>2
<1>8. ASSUME NEW keys \in SUBSET TypedKeys PROVE PressedAfter(s, keys) \subseteq TypedKeys
  <2>1. s.apply = "set" => s.key \in TypedKeys
    BY <1>7 DEF Strokes, Stroke, Pause, TypedKeys
  <2> QED BY <2>1 DEF PressedAfter
<1> DEFINE r == [at |-> "send", text |-> y.text, total |-> y.total, c |-> y.c, j |-> y.j + 1, count |-> y.count,
                 down |-> PressedAfter(s, y.down), sent |-> IF y.torn THEN y.sent ELSE Append(y.sent, s), torn |-> y.torn]
<1>9. typing' = [typing EXCEPT ![t] = r]
  <2> DEFINE sent == IF y.torn THEN y.sent ELSE Append(y.sent, s)
             down == PressedAfter(s, y.down)
  <2>5. typing'[t] = [[[y EXCEPT !.j = y.j + 1] EXCEPT !.down = down] EXCEPT !.sent = sent]
    BY <1>1, <1>2 DEF TypingTyped
  <2>6. r = [at |-> "send", text |-> y.text, total |-> y.total, c |-> y.c, j |-> y.j + 1, count |-> y.count,
             down |-> down, sent |-> sent, torn |-> y.torn]
    OBVIOUS
  <2>7. y \in Amid /\ y.at = "send"
    BY <1>3, <1>4
  <2> HIDE DEF y, r, down, sent
  <2>2. typing'[t] = r
    BY <2>5, <2>6, <2>7 DEF Amid
  <2> USE DEF y
  <2>3. \A u \in Typists \ {t} : typing'[u] = typing[u]
    BY <1>1, <1>2 DEF TypingTyped
  <2>4. typing' = [u \in Typists |-> typing'[u]]
    BY <1>1, <1>2 DEF TypingTyped
  <2> HIDE DEF r
  <2> QED BY <1>1, <2>2, <2>3, <2>4 DEF TypingTyped
<1>10. r \in Amid
  <2>1. (IF y.torn THEN y.sent ELSE Append(y.sent, s)) \in Seq(Strokes)
    BY <1>4, <1>7
  <2>2. PressedAfter(s, y.down) \in SUBSET TypedKeys
    BY <1>4, <1>8
  <2> QED BY <1>4, <2>1, <2>2 DEF Amid
<1>11. /\ r.at = "send" /\ r.c = y.c /\ r.j = y.j + 1 /\ r.count = y.count /\ r.down = PressedAfter(s, y.down) /\ r.torn = y.torn
       /\ r.sent = IF y.torn THEN y.sent ELSE Append(y.sent, s)
  OBVIOUS
<1> HIDE DEF r, y
<1>12. typing'[t] = r /\ \A u \in Typists \ {t} : typing'[u] = typing[u]
  BY <1>1, <1>9 DEF TypingTyped
<1>13. TypingTyped'
  <2>1. typing' \in [Typists -> {NotTyping} \union Resting \union Amid]
    BY <1>1, <1>9, <1>10 DEF TypingTyped
  <2>2. keysDown' \subseteq TypedKeys
    BY <1>1, <1>2, <1>8 DEF TypingTyped
  <2> QED BY <1>1, <1>2, <2>1, <2>2 DEF TypingTyped
<1>14. AsAsked'
  BY <1>1, <1>2 DEF AsAsked, SignalsOf
<1>15. ASSUME NEW u \in Typists PROVE OnTheWay(u)'
  <2>1. CASE u = t
    <3>1. r.j <= r.count
      BY <1>2, <1>4, <1>11
    <3>2. ASSUME ~ r.torn
          PROVE  r.count = Len(meant[r.c]) /\ r.sent = SubSeq(meant[r.c], 1, r.j) /\ r.down = LeftDown(meant[r.c], r.j)
      <4> DEFINE m == meant[y.c]
      <4>1. /\ ~ y.torn /\ y.count = Len(m) /\ y.sent = SubSeq(m, 1, y.j) /\ y.down = LeftDown(m, y.j)
            /\ s = m[y.j + 1] /\ y.j < Len(m) /\ m \in Seq(Strokes)
        BY <1>5, <1>6, <1>11, <3>2
      <4> HIDE DEF m
      <4>2. Append(SubSeq(m, 1, y.j), m[y.j + 1]) = SubSeq(m, 1, y.j + 1)
        BY <1>4, <4>1
      <4>3. LeftDown(m, y.j + 1) = PressedAfter(s, LeftDown(m, y.j))
        BY <1>4, <4>1, HeldStep DEF PressedAfter
      <4> QED BY <1>11, <4>1, <4>2, <4>3 DEF m
    <3> QED BY <1>2, <1>12, <2>1, <3>1, <3>2 DEF OnTheWay
  <2>2. CASE u # t
    <3>1. typing'[u] = typing[u] /\ OnTheWay(u)
      BY <1>1, <1>12, <2>2
    <3> QED BY <1>2, <3>1 DEF OnTheWay, Sending
  <2> QED BY <2>1, <2>2
<1>16. Pressed'
  <2> SUFFICES ASSUME NEW k \in keysDown', k \notin stuck
               PROVE  \E u \in Typists : typing'[u].at = "send" /\ k \in typing'[u].down
    BY <1>2 DEF Pressed, Sending
  <2>1. CASE k \in PressedAfter(s, y.down)
    BY <1>11, <1>12, <2>1
  <2>2. CASE k \notin PressedAfter(s, y.down)
    <3>1. k \in keysDown /\ k \notin y.down
      BY <1>2, <2>2 DEF PressedAfter
    <3>2. PICK u \in Typists : Sending(u) /\ k \in typing[u].down
      BY <1>1, <3>1 DEF Pressed
    <3>3. u # t
      BY <3>1, <3>2 DEF y
    <3> QED BY <1>12, <3>2, <3>3 DEF Sending
  <2> QED BY <2>1, <2>2
<1> QED BY <1>13, <1>14, <1>15, <1>16 DEF TypingInv

\* The owner changes characters as they were asked for.
LEMMA EditsKeep ==
  ASSUME TypingInv, NEW chars \in Seq(Seq(Strokes)), Len(chars) <= LastChar + 1, NEW meaning \in [Chars -> Seq(Strokes)],
         \A c \in Chars : meaning[c] = SignalsOf(chars, c) /\ Released(meaning[c]), Edits(chars, meaning)
  PROVE  TypingInv'
<1>1. TypingTyped /\ AsAsked /\ Pressed /\ \A u \in Typists : OnTheWay(u)
  BY DEF TypingInv
<1> DEFINE Changed(t) == Sending(t) /\ SignalsOf(chars, typing[t].c) # SignalsOf(characters, typing[t].c)
<1>2. /\ typed < TypingBudget /\ typed' = typed + 1 /\ characters' = chars /\ meant' = meaning
      /\ typing' = [t \in Typists |-> IF Changed(t) THEN [typing[t] EXCEPT !.torn = TRUE, !.sent = << >>] ELSE typing[t]]
      /\ keysDown' = keysDown /\ stuck' = stuck
  BY DEF Edits
<1>3. ASSUME NEW t \in Typists
      PROVE  /\ typing'[t] \in {NotTyping} \union Resting \union Amid
             /\ typing'[t].at = "send" <=> Sending(t)
             /\ Sending(t) => typing'[t].down = typing[t].down
             /\ OnTheWay(t)'
  <2>1. CASE Changed(t)
    <3> DEFINE y == typing[t]
               r == [y EXCEPT !.torn = TRUE, !.sent = << >>]
    <3>1. typing'[t] = r
      BY <1>2, <2>1
    <3>2. y \in Amid /\ Sending(t) /\ y.j <= y.count
      BY <1>1, <2>1, TypistIs DEF OnTheWay
    <3>3. << >> \in Seq(Strokes)
      OBVIOUS
    <3> HIDE DEF y
    <3>4. r \in Amid /\ r.at = "send" /\ r.down = y.down /\ r.torn /\ r.j = y.j /\ r.count = y.count
      BY <3>2, <3>3 DEF Amid
    <3> HIDE DEF r
    <3>5. OnTheWay(t)'
      BY <3>1, <3>2, <3>4 DEF OnTheWay
    <3> QED BY <3>1, <3>2, <3>4, <3>5 DEF y
  <2>2. CASE ~ Changed(t)
    <3>1. typing'[t] = typing[t]
      BY <1>2, <2>2
    <3>2. Sending(t) => meaning[typing[t].c] = meant[typing[t].c]
      <4> SUFFICES ASSUME Sending(t) PROVE meaning[typing[t].c] = meant[typing[t].c]
        OBVIOUS
      <4>1. typing[t].c \in Chars
        BY <1>1, TypistIs DEF Amid
      <4> QED BY <1>1, <2>2, <4>1 DEF AsAsked
    <3>3. OnTheWay(t)'
      <4>1. OnTheWay(t)
        BY <1>1
      <4> QED BY <1>2, <3>1, <3>2, <4>1 DEF OnTheWay, Sending
    <3>4. typing[t] \in {NotTyping} \union Resting \union Amid
      BY <1>1, TypistIs
    <3> QED BY <3>1, <3>3, <3>4 DEF Sending
  <2> QED BY <2>1, <2>2
<1>4. TypingTyped'
  <2>4. typed \in 0..TypingBudget /\ TypingBudget \in Nat
    BY <1>1, TypingAssumption DEF TypingTyped
  <2>1. typed' \in 0..TypingBudget
    <3>1. typed < TypingBudget /\ typed' = typed + 1
      BY <1>2
    <3> QED BY <2>4, <3>1
  <2>2. typing' = [t \in Typists |-> typing'[t]]
    BY <1>2
  <2>3. typing' \in [Typists -> {NotTyping} \union Resting \union Amid]
    BY <1>3, <2>2
  <2> QED BY <1>1, <1>2, <2>1, <2>3 DEF TypingTyped
<1>5. AsAsked'
  BY <1>2 DEF AsAsked
<1>6. Pressed'
  BY <1>1, <1>2, <1>3 DEF Pressed, Sending
<1> QED BY <1>3, <1>4, <1>5, <1>6 DEF TypingInv

\* One character is asked for.
LEMMA OneEditKeeps ==
  ASSUME TypingInv, NEW c \in Chars, NEW signals \in Seq(Strokes), Released(signals),
         Edits([Ensured(characters, c) EXCEPT ![c + 1] = signals], [meant EXCEPT ![c] = signals])
  PROVE  TypingInv'
<1> DEFINE all == Ensured(characters, c)
           chars == [all EXCEPT ![c + 1] = signals]
           meaning == [meant EXCEPT ![c] = signals]
<1>1. TypingTyped /\ AsAsked
  BY DEF TypingInv
<1>2. /\ all \in Seq(Seq(Strokes)) /\ Len(all) <= LastChar + 1 /\ c + 1 \in 1..Len(all)
      /\ \A d \in Chars : SignalsOf(all, d) = SignalsOf(characters, d)
  BY <1>1, EnsuredKeeps DEF TypingTyped
<1> HIDE DEF all
<1>3. /\ chars \in Seq(Seq(Strokes)) /\ Len(chars) <= LastChar + 1
      /\ \A d \in Chars : SignalsOf(chars, d) = IF d = c THEN signals ELSE SignalsOf(all, d)
  <2>1. Reset(all, c, signals, chars)
    BY <1>2, AskedOne
  <2> HIDE DEF chars
  <2> QED BY <1>2, <2>1 DEF Reset
<1>4. meaning \in [Chars -> Seq(Strokes)] /\ \A d \in Chars : meaning[d] = IF d = c THEN signals ELSE meant[d]
  BY <1>1 DEF TypingTyped
<1>5. Edits(chars, meaning)
  BY DEF all
<1> HIDE DEF chars, meaning
<1>6. \A d \in Chars : meaning[d] = SignalsOf(chars, d) /\ Released(meaning[d])
  BY <1>1, <1>2, <1>3, <1>4 DEF AsAsked
<1> QED BY <1>3, <1>4, <1>5, <1>6, EditsKeep

LEMMA OwnerKeeps ==
  TypingInv /\ (setCharacterKey \/ setCharacter \/ removeCharacter \/ trimCharacters \/ clearCharacters) => TypingInv'
<1> SUFFICES ASSUME TypingInv, setCharacterKey \/ setCharacter \/ removeCharacter \/ trimCharacters \/ clearCharacters
             PROVE  TypingInv'
  OBVIOUS
<1>1. /\ TypingTyped /\ AsAsked /\ characters \in Seq(Seq(Strokes)) /\ Len(characters) <= LastChar + 1
      /\ meant \in [Chars -> Seq(Strokes)] /\ LastChar \in Nat
  BY TypingAssumption DEF TypingInv, TypingTyped
<1>0. << >> \in Seq(Strokes) /\ Released(<< >>) /\ << >> \in Seq(Seq(Strokes)) /\ Len(<< >>) = 0
  BY DEF Released
<1>2. CASE setCharacterKey
  <2>1. PICK c \in Chars, key \in TypeKeys, shiftFlag \in BOOLEAN :
          Edits([Ensured(characters, c) EXCEPT ![c + 1] = KeySignals(key, shiftFlag)],
                [meant EXCEPT ![c] = KeyMeant(key, shiftFlag)])
    BY <1>2 DEF setCharacterKey
  <2>2. /\ KeySignals(key, shiftFlag) = KeyMeant(key, shiftFlag)
        /\ KeyMeant(key, shiftFlag) \in Seq(Strokes) /\ Released(KeyMeant(key, shiftFlag))
    BY KeysAsMeant
  <2> QED BY <2>1, <2>2, OneEditKeeps
<1>3. CASE setCharacter
  <2>1. PICK c \in Chars, signals \in Lists :
          Edits([Ensured(characters, c) EXCEPT ![c + 1] = signals], [meant EXCEPT ![c] = signals])
    BY <1>3 DEF setCharacter
  <2>2. signals \in Seq(Strokes) /\ Released(signals)
    BY TypingAssumption
  <2> QED BY <2>1, <2>2, OneEditKeeps
<1>4. CASE removeCharacter
  <2>1. PICK c \in Chars :
          Edits(IF c < Len(characters) THEN [characters EXCEPT ![c + 1] = << >>] ELSE characters,
                [meant EXCEPT ![c] = << >>])
    BY <1>4 DEF removeCharacter
  <2> DEFINE meaning == [meant EXCEPT ![c] = << >>]
  <2>2. meaning \in [Chars -> Seq(Strokes)] /\ \A d \in Chars : meaning[d] = IF d = c THEN << >> ELSE meant[d]
    BY <1>0, <1>1
  <2>3. CASE c < Len(characters)
    <3> DEFINE chars == [characters EXCEPT ![c + 1] = << >>]
    <3>1. c + 1 \in 1..Len(characters)
      BY <1>1, <2>3 DEF Chars
    <3>2. /\ chars \in Seq(Seq(Strokes)) /\ Len(chars) = Len(characters)
          /\ \A d \in Chars : SignalsOf(chars, d) = IF d = c THEN << >> ELSE SignalsOf(characters, d)
      <4>1. Reset(characters, c, << >>, chars)
        BY <1>0, <1>1, <3>1, AskedOne
      <4> HIDE DEF chars
      <4> QED BY <4>1 DEF Reset
    <3>3. Edits(chars, meaning)
      BY <2>1, <2>3
    <3> HIDE DEF chars, meaning
    <3>4. \A d \in Chars : meaning[d] = SignalsOf(chars, d) /\ Released(meaning[d])
      BY <1>0, <1>1, <2>2, <3>2 DEF AsAsked
    <3> QED BY <1>1, <2>2, <3>2, <3>3, <3>4, EditsKeep
  <2>4. CASE ~ (c < Len(characters))
    <3>1. Edits(characters, meaning)
      BY <2>1, <2>4
    <3>2. SignalsOf(characters, c) = << >>
      BY <2>4 DEF SignalsOf
    <3> HIDE DEF meaning
    <3>3. \A d \in Chars : meaning[d] = SignalsOf(characters, d) /\ Released(meaning[d])
      BY <1>0, <1>1, <2>2, <3>2 DEF AsAsked
    <3> QED BY <1>1, <2>2, <3>1, <3>3, EditsKeep
  <2> QED BY <2>3, <2>4
<1>5. CASE trimCharacters
  <2>1. Edits(Trimmed(characters), meant)
    BY <1>5 DEF trimCharacters
  <2>2. /\ Trimmed(characters) \in Seq(Seq(Strokes)) /\ Len(Trimmed(characters)) <= Len(characters)
        /\ \A d \in Chars : SignalsOf(Trimmed(characters), d) = SignalsOf(characters, d)
    BY <1>1, TrimmedKeeps
  <2>3. Len(Trimmed(characters)) <= LastChar + 1
    BY <1>1, <2>2
  <2>4. \A d \in Chars : meant[d] = SignalsOf(Trimmed(characters), d) /\ Released(meant[d])
    BY <1>1, <2>2 DEF AsAsked
  <2> QED BY <1>1, <2>1, <2>2, <2>3, <2>4, EditsKeep
<1>6. CASE clearCharacters
  <2> DEFINE meaning == [c \in Chars |-> << >>]
  <2>1. Edits(<< >>, meaning)
    BY <1>6 DEF clearCharacters
  <2>2. meaning \in [Chars -> Seq(Strokes)] /\ \A d \in Chars : meaning[d] = << >>
    BY <1>0
  <2>3. ASSUME NEW d \in Chars PROVE SignalsOf(<< >>, d) = << >>
    BY <1>0, <1>1 DEF SignalsOf, Chars
  <2>4. Len(<< >>) <= LastChar + 1
    BY <1>0, <1>1
  <2> HIDE DEF meaning
  <2>5. \A d \in Chars : meaning[d] = SignalsOf(<< >>, d) /\ Released(meaning[d])
    BY <1>0, <2>2, <2>3
  <2> QED BY <1>0, <2>1, <2>2, <2>4, <2>5, EditsKeep
<1> QED BY <1>2, <1>3, <1>4, <1>5, <1>6

LEMMA TypingStep == TypingInv /\ [TypingNext]_typingVars => TypingInv'
<1> SUFFICES ASSUME TypingInv, [TypingNext]_typingVars PROVE TypingInv'
  OBVIOUS
<1>1. CASE TypingNext /\ ~ TypingDone
  BY <1>1, TypesKeep, ReadsKeep, SendsKeep, OwnerKeeps DEF TypingNext
<1>2. CASE UNCHANGED typingVars
  <2>1. /\ characters' = characters /\ keysDown' = keysDown /\ typing' = typing /\ typed' = typed
        /\ meant' = meant /\ stuck' = stuck
    BY <1>2 DEF typingVars
  <2>2. TypingTyped' /\ AsAsked' /\ Pressed'
    BY <2>1 DEF TypingInv, TypingTyped, AsAsked, SignalsOf, Pressed, Sending
  <2>3. ASSUME NEW t \in Typists PROVE OnTheWay(t)'
    <3>1. OnTheWay(t)
      BY DEF TypingInv
    <3> QED BY <2>1, <3>1 DEF OnTheWay, Sending
  <2> QED BY <2>2, <2>3 DEF TypingInv
<1> QED BY <1>1, <1>2 DEF TypingDone

LEMMA TypingStarts == TypingInit => TypingInv
<1> SUFFICES ASSUME TypingInit PROVE TypingInv
  OBVIOUS
<1>1. /\ characters = [i \in 1..Len(KeyVals) |-> KeySignals(KeyVals[i], i - 1 \in Shifted)]
      /\ meant = [c \in Chars |-> IF c < Len(KeyVals) THEN KeyMeant(KeyVals[c + 1], c \in Shifted) ELSE << >>]
      /\ keysDown = {} /\ stuck = {} /\ typing = [t \in Typists |-> NotTyping] /\ typed = 0
  BY DEF TypingInit
<1>2. /\ KeyVals \in Seq(TypeKeys) /\ Len(KeyVals) \in Nat /\ Len(KeyVals) <= LastChar + 1
      /\ TypingBudget \in Nat /\ \A c \in Chars : c \in Nat
  BY TypingAssumption DEF Chars
<1>3. ASSUME NEW i \in 1..Len(KeyVals)
      PROVE  /\ KeySignals(KeyVals[i], i - 1 \in Shifted) = KeyMeant(KeyVals[i], i - 1 \in Shifted)
             /\ KeyMeant(KeyVals[i], i - 1 \in Shifted) \in Seq(Strokes) /\ Released(KeyMeant(KeyVals[i], i - 1 \in Shifted))
  <2> DEFINE shiftFlag == i - 1 \in Shifted
  <2>1. KeyVals[i] \in TypeKeys /\ shiftFlag \in BOOLEAN
    BY <1>2
  <2> HIDE DEF shiftFlag
  <2>2. /\ KeySignals(KeyVals[i], shiftFlag) = KeyMeant(KeyVals[i], shiftFlag)
        /\ KeyMeant(KeyVals[i], shiftFlag) \in Seq(Strokes) /\ Released(KeyMeant(KeyVals[i], shiftFlag))
    BY <2>1, KeysAsMeant
  <2> QED BY <2>2 DEF shiftFlag
<1>4. characters \in Seq(Seq(Strokes)) /\ Len(characters) = Len(KeyVals)
  <2>1. characters \in [1..Len(KeyVals) -> Seq(Strokes)]
    BY <1>1, <1>3
  <2> QED BY <1>2, <2>1
<1>5. << >> \in Seq(Strokes) /\ Released(<< >>)
  BY DEF Released
<1>6. ASSUME NEW c \in Chars PROVE meant[c] = SignalsOf(characters, c) /\ Released(meant[c]) /\ meant[c] \in Seq(Strokes)
  <2>1. CASE c < Len(KeyVals)
    <3>1. c + 1 \in 1..Len(KeyVals) /\ c + 1 - 1 = c
      BY <1>2, <2>1
    <3>2. /\ characters[c + 1] = KeyMeant(KeyVals[c + 1], c \in Shifted)
          /\ KeyMeant(KeyVals[c + 1], c \in Shifted) \in Seq(Strokes) /\ Released(KeyMeant(KeyVals[c + 1], c \in Shifted))
      <4> DEFINE i == c + 1
      <4>1. i \in 1..Len(KeyVals) /\ i - 1 = c
        BY <1>2, <3>1
      <4>2. characters[i] = KeySignals(KeyVals[i], i - 1 \in Shifted)
        BY <1>1, <4>1
      <4>3. /\ KeySignals(KeyVals[i], i - 1 \in Shifted) = KeyMeant(KeyVals[i], i - 1 \in Shifted)
            /\ KeyMeant(KeyVals[i], i - 1 \in Shifted) \in Seq(Strokes) /\ Released(KeyMeant(KeyVals[i], i - 1 \in Shifted))
        BY <1>3, <4>1
      <4> QED BY <4>1, <4>2, <4>3, Zenon
    <3> QED BY <1>1, <1>4, <2>1, <3>2 DEF SignalsOf
  <2>2. CASE ~ (c < Len(KeyVals))
    BY <1>1, <1>4, <1>5, <2>2 DEF SignalsOf
  <2> QED BY <2>1, <2>2
<1>7. TypingTyped
  <2>1. meant \in [Chars -> Seq(Strokes)]
    <3>1. meant = [c \in Chars |-> meant[c]]
      BY <1>1
    <3> QED BY <1>6, <3>1
  <2>2. typing \in [Typists -> {NotTyping} \union Resting \union Amid]
    BY <1>1
  <2> QED BY <1>1, <1>2, <1>4, <2>1, <2>2 DEF TypingTyped
<1>8. Pressed
  BY <1>1 DEF Pressed
<1>9. ASSUME NEW t \in Typists PROVE OnTheWay(t)
  <2>1. ~ Sending(t)
    BY <1>1 DEF Sending, NotTyping
  <2> QED BY <2>1 DEF OnTheWay
<1> QED BY <1>6, <1>7, <1>8, <1>9 DEF TypingInv, AsAsked

LEMMA TypingInvSays == TypingInv => TypesCleanly /\ TypingTypeOK
<1> SUFFICES ASSUME TypingInv PROVE TypesCleanly /\ TypingTypeOK
  OBVIOUS
<1>1. TypingTyped /\ AsAsked /\ Pressed /\ \A t \in Typists : OnTheWay(t)
  BY DEF TypingInv
<1>2. ASSUME NEW t \in Typists, Sending(t), ~ typing[t].torn
      PROVE  /\ IsPrefix(typing[t].sent, meant[typing[t].c])
             /\ typing[t].j = typing[t].count => typing[t].sent = meant[typing[t].c] /\ typing[t].down = {}
  <2> DEFINE y == typing[t]
             m == meant[y.c]
  <2>1. y.c \in Chars /\ y.j \in Nat /\ y.count \in Nat
    BY <1>1, <1>2, TypistIs DEF Amid
  <2>2. m \in Seq(Strokes) /\ Released(m)
    BY <1>1, <2>1 DEF TypingTyped, AsAsked
  <2>3. y.j <= y.count /\ y.count = Len(m) /\ y.sent = SubSeq(m, 1, y.j) /\ y.down = LeftDown(m, y.j)
    BY <1>1, <1>2 DEF OnTheWay
  <2> HIDE DEF y, m
  <2>4. Len(y.sent) = y.j /\ y.sent \in Seq(Strokes)
    BY <2>1, <2>2, <2>3
  <2>5. SubSeq(y.sent, 1, Len(y.sent)) = y.sent
    BY <2>4
  <2>6. IsPrefix(y.sent, m)
    BY <2>1, <2>3, <2>4, <2>5 DEF IsPrefix
  <2>7. y.j = y.count => y.sent = m /\ y.down = {}
    BY <2>1, <2>2, <2>3, NothingHeld
  <2> QED BY <2>6, <2>7 DEF y, m
<1>3. SentAsMeant
  BY <1>2 DEF SentAsMeant
<1>4. NothingStuck
  <2>1. keysDown \subseteq stuck \union UNION {typing[t].down : t \in {u \in Typists : Sending(u)}}
    BY <1>1 DEF Pressed
  <2> QED BY <1>2, <2>1 DEF NothingStuck
<1>5. TypingTypeOK
  BY <1>1 DEF TypingTyped, TypingTypeOK, TypedKeys
<1> QED BY <1>3, <1>4, <1>5 DEF TypesCleanly

LEMMA TextsStay == TypingSpec => []TypesCleanly
<1>1. TypingSpec => []TypingInv
  BY TypingStarts, TypingStep, PTL DEF TypingSpec
<1> QED BY <1>1, TypingInvSays, PTL

\* What characters and typists are.
LEMMA TypingStaysTyped == TypingSpec => []TypingTypeOK
BY TypingStarts, TypingStep, TypingInvSays, PTL DEF TypingSpec

-----------------------------------------------------------------------------
(* Encrypted strings: whatever a call comes to, there is a provider as     *)
(* long as the text is encrypted, and the text is read if it returns.      *)

SafeKeys == Providers \union {NoProvider}
SafeIvs == Vectors \union {ZeroVector}
SafeCiphers == [of : Phrases \union {Garbled}, key : SafeKeys, iv : SafeIvs, stateless : BOOLEAN]
SafeStringsOf ==
  [made : BOOLEAN, cryptic : BOOLEAN, provider : SafeKeys, iv : SafeIvs, tag : BOOLEAN, stateless : BOOLEAN,
   cipher : SafeCiphers, plain : Phrases]

\* A string that is encrypted only with a provider.
Cryptic(s) == s \in SafeStringsOf /\ (s.cryptic => s.provider # NoProvider)

\* What a call that ends with a text t comes to.
LeavesText(outcomes, t) ==
  \A o \in outcomes : o.ok \in BOOLEAN /\ Cryptic(o.s) /\ (o.ok => Shown(o.s) = t)

EmptySafe(s) == Cryptic(s) /\ s.cipher = NoCipher /\ s.plain = Blank

LEMMA NoCipherIs == NoCipher \in SafeCiphers
BY SafeAssumption DEF NoCipher, SafeCiphers, SafeKeys, SafeIvs

LEMMA NoStringIs == NoString \in SafeStringsOf
BY NoCipherIs, SafeAssumption DEF NoString, SafeStringsOf, SafeKeys, SafeIvs

LEMMA ClearedIs ==
  ASSUME NEW s, Cryptic(s)
  PROVE  EmptySafe(Cleared(s)) /\ Cleared(s).cryptic = s.cryptic /\ Cleared(s).provider = s.provider
BY NoCipherIs, SafeAssumption DEF Cleared, Cryptic, EmptySafe, SafeStringsOf

LEMMA EmptiedShows ==
  ASSUME NEW s, EmptySafe(s)
  PROVE  Shown(s) = Blank /\ (s.cryptic => IsBlank(s))
BY DEF EmptySafe, Shown, IsBlank, Cryptic, SafeStringsOf

LEMMA ShownIs ==
  ASSUME NEW s, Cryptic(s), ~ s.cryptic
  PROVE  Shown(s) = s.plain
BY DEF Shown, Cryptic, SafeStringsOf

LEMMA EncryptedIs ==
  ASSUME NEW s, Cryptic(s), NEW t \in Phrases, t # Blank, s.cryptic
  PROVE  Cryptic(Encrypted(s, t)) /\ Shown(Encrypted(s, t)) = t
<1> DEFINE c == [of |-> t, key |-> s.provider, iv |-> s.iv, stateless |-> s.stateless]
           e == Encrypted(s, t)
<1>1. c \in SafeCiphers /\ c # NoCipher
  BY DEF Cryptic, SafeStringsOf, SafeCiphers, NoCipher
<1>2. /\ e \in SafeStringsOf /\ e.cipher = c /\ e.tag = ~ s.stateless /\ e.cryptic = s.cryptic
      /\ e.provider = s.provider /\ e.iv = s.iv /\ e.stateless = s.stateless
  BY <1>1 DEF Encrypted, Cryptic, SafeStringsOf
<1>3. Opens(e) /\ ~ IsBlank(e)
  BY <1>1, <1>2 DEF Opens, IsBlank, SafeStringsOf
<1>4. e.cipher.of = t
  BY <1>2
<1> HIDE DEF e
<1>5. Cryptic(e) /\ Shown(e) = t
  BY <1>2, <1>3, <1>4 DEF Cryptic, Shown
<1> QED BY <1>5 DEF e

LEMMA HalfEncryptedIs ==
  ASSUME NEW s, Cryptic(s)
  PROVE  Cryptic(HalfEncrypted(s))
<1>1. [s.cipher EXCEPT !.of = Garbled] \in SafeCiphers
  BY DEF Cryptic, SafeStringsOf, SafeCiphers
<1>2. [s EXCEPT !.cipher.of = Garbled] = [s EXCEPT !.cipher = [s.cipher EXCEPT !.of = Garbled]]
  BY DEF Cryptic, SafeStringsOf
<1> QED BY <1>1, <1>2 DEF HalfEncrypted, Cryptic, SafeStringsOf

LEMMA ReturnedIs ==
  ASSUME NEW s
  PROVE  \A o \in Returned(s) : o.ok = TRUE /\ o.s = s
<1> DEFINE x == [s |-> s, ok |-> TRUE]
<1>1. x.s = s /\ x.ok = TRUE /\ Returned(s) = {x}
  BY DEF Returned
<1> HIDE DEF x
<1> QED BY <1>1

LEMMA ReturnedLeaves ==
  ASSUME NEW s, Cryptic(s)
  PROVE  LeavesText(Returned(s), Shown(s))
BY ReturnedIs DEF LeavesText

LEMMA ThrownLeaves ==
  ASSUME NEW s, Cryptic(s), NEW t
  PROVE  LeavesText(Thrown(s), t)
<1> DEFINE o == [s |-> s, ok |-> FALSE]
<1>1. o.s = s /\ o.ok = FALSE /\ Thrown(s) = {o}
  BY DEF Thrown
<1> HIDE DEF o
<1>2. \A x \in Thrown(s) : x.s = s /\ x.ok = FALSE
  BY <1>1
<1> QED BY <1>2 DEF LeavesText

LEMMA SetTextLeaves ==
  ASSUME NEW s, Cryptic(s), NEW t \in Phrases
  PROVE  LeavesText(setText(s, t), t)
<1>1. CASE t = Blank
  <2>1. setText(s, t) = Returned(Cleared(s))
    BY <1>1 DEF setText
  <2> QED BY <1>1, <2>1, ClearedIs, EmptiedShows, ReturnedLeaves DEF EmptySafe
<1>2. CASE t # Blank /\ ~ s.cryptic
  <2> DEFINE p == [s EXCEPT !.plain = t]
  <2>1. setText(s, t) = Returned(p)
    BY <1>2 DEF setText
  <2>2. Cryptic(p) /\ ~ p.cryptic /\ p.plain = t
    BY <1>2 DEF Cryptic, SafeStringsOf
  <2> HIDE DEF p
  <2> QED BY <2>1, <2>2, ShownIs, ReturnedLeaves
<1>3. CASE t # Blank /\ s.cryptic
  <2>1. setText(s, t) = Thrown(s) \union (IF s.provider = NoProvider THEN {}
                 ELSE Returned(Encrypted(s, t)) \union Thrown(HalfEncrypted(s)))
    BY <1>3 DEF setText
  <2>2. LeavesText(Thrown(s), t) /\ LeavesText(Thrown(HalfEncrypted(s)), t)
    BY HalfEncryptedIs, ThrownLeaves
  <2>3. LeavesText(Returned(Encrypted(s, t)), t)
    BY <1>3, EncryptedIs, ReturnedLeaves
  <2> QED BY <2>1, <2>2, <2>3 DEF LeavesText
<1> QED BY <1>1, <1>2, <1>3

LEMMA VectorKeeps ==
  ASSUME NEW s, Cryptic(s), NEW v \in SafeIvs
  PROVE  /\ Cryptic([s EXCEPT !.iv = v])
         /\ [s EXCEPT !.iv = v].cryptic = s.cryptic
         /\ ~ s.cryptic => Shown([s EXCEPT !.iv = v]) = Shown(s)
<1> DEFINE r == [s EXCEPT !.iv = v]
<1>1. Cryptic(r) /\ r.cryptic = s.cryptic /\ r.plain = s.plain
  BY DEF Cryptic, SafeStringsOf
<1> HIDE DEF r
<1>2. ~ s.cryptic => Shown(r) = Shown(s)
  BY <1>1, ShownIs
<1> QED BY <1>1, <1>2 DEF r

LEMMA ResetIvLeaves ==
  ASSUME NEW s, Cryptic(s), Shown(s) \in Phrases
  PROVE  LeavesText(resetIv(s), Shown(s))
<1>1. CASE s.cryptic
  <2>1. resetIv(s) = (UNION {setText([s EXCEPT !.iv = v], Shown(s)) : v \in Vectors})
                     \union (IF s.cryptic /\ ~ IsBlank(s) THEN Thrown(s) ELSE {})
    BY <1>1 DEF resetIv, Reading
  <2>2. \A v \in Vectors : LeavesText(setText([s EXCEPT !.iv = v], Shown(s)), Shown(s))
    BY VectorKeeps, SetTextLeaves DEF SafeIvs
  <2>3. LeavesText(Thrown(s), Shown(s))
    BY ThrownLeaves
  <2> QED BY <2>1, <2>2, <2>3 DEF LeavesText
<1>2. CASE ~ s.cryptic
  <2>1. resetIv(s) = Returned([s EXCEPT !.iv = ZeroVector])
    BY <1>2 DEF resetIv
  <2>2. ZeroVector \in SafeIvs
    BY DEF SafeIvs
  <2>3. /\ Cryptic([s EXCEPT !.iv = ZeroVector])
        /\ Shown([s EXCEPT !.iv = ZeroVector]) = Shown(s)
    BY <1>2, <2>2, VectorKeeps
  <2> QED BY <2>1, <2>3, ReturnedLeaves
<1> QED BY <1>1, <1>2 DEF Cryptic, SafeStringsOf

LEMMA SetIvLeaves ==
  ASSUME NEW s, Cryptic(s), Shown(s) \in Phrases, NEW v \in Vectors
  PROVE  LeavesText(setIv(s, v), Shown(s))
<1>0. v \in SafeIvs
  BY DEF SafeIvs
<1>1. CASE s.cryptic
  <2>1. setIv(s, v) = setText([s EXCEPT !.iv = v], Shown(s))
                     \union (IF s.cryptic /\ ~ IsBlank(s) THEN Thrown(s) ELSE {})
    BY <1>1 DEF setIv, Reading
  <2>2. LeavesText(setText([s EXCEPT !.iv = v], Shown(s)), Shown(s))
    BY <1>0, VectorKeeps, SetTextLeaves
  <2>3. LeavesText(Thrown(s), Shown(s))
    BY ThrownLeaves
  <2> QED BY <2>1, <2>2, <2>3 DEF LeavesText
<1>2. CASE ~ s.cryptic
  <2>1. setIv(s, v) = Returned([s EXCEPT !.iv = v])
    BY <1>2 DEF setIv
  <2>2. Cryptic([s EXCEPT !.iv = v]) /\ Shown([s EXCEPT !.iv = v]) = Shown(s)
    BY <1>0, <1>2, VectorKeeps
  <2> QED BY <2>1, <2>2, ReturnedLeaves
<1> QED BY <1>1, <1>2 DEF Cryptic, SafeStringsOf

\* The text is set after other changes that may throw.
LEMMA OnwardText ==
  ASSUME NEW O, NEW t \in Phrases, NEW u, LeavesText(O, u)
  PROVE  LeavesText(Onward(O, LAMBDA r : setText(r, t)), t)
<1>1. Onward(O, LAMBDA r : setText(r, t)) = UNION {IF o.ok THEN setText(o.s, t) ELSE {o} : o \in O}
  BY DEF Onward
<1>2. \A o \in O : LeavesText(IF o.ok THEN setText(o.s, t) ELSE {o}, t)
  <2> SUFFICES ASSUME NEW o \in O
               PROVE  LeavesText(IF o.ok THEN setText(o.s, t) ELSE {o}, t)
    OBVIOUS
  <2>1. o.ok \in BOOLEAN /\ Cryptic(o.s)
    BY DEF LeavesText
  <2>2. CASE o.ok
    BY <2>1, <2>2, SetTextLeaves
  <2>3. CASE ~ o.ok
    <3>1. LeavesText({o}, t)
      BY <2>1, <2>3 DEF LeavesText
    <3> QED BY <2>3, <3>1
  <2> QED BY <2>1, <2>2, <2>3
<1> QED BY <1>1, <1>2 DEF LeavesText

LEMMA SetTextCrypticLeaves ==
  ASSUME NEW s, Cryptic(s), NEW t \in Phrases, NEW cryptic \in BOOLEAN
  PROVE  LeavesText(setTextCryptic(s, t, cryptic), t)
<1>1. CASE cryptic # s.cryptic /\ s.provider # NoProvider
  <2> DEFINE e == [Cleared(s) EXCEPT !.cryptic = cryptic]
  <2>1. EmptySafe(e)
    BY <1>1, ClearedIs DEF EmptySafe, Cryptic, SafeStringsOf
  <2>2. setTextCryptic(s, t, cryptic) = Onward(resetIv(e), LAMBDA r : setText(r, t))
    BY <1>1 DEF setTextCryptic
  <2> HIDE DEF e
  <2>3. LeavesText(resetIv(e), Shown(e))
    BY <2>1, EmptiedShows, SafeAssumption, ResetIvLeaves DEF EmptySafe
  <2>4. LeavesText(Onward(resetIv(e), LAMBDA r : setText(r, t)), t)
    BY <2>3, OnwardText
  <2> QED BY <2>2, <2>4
<1>2. CASE ~ (cryptic # s.cryptic /\ s.provider # NoProvider)
  BY <1>2, SetTextLeaves DEF setTextCryptic
<1> QED BY <1>1, <1>2

LEMMA SetCrypticLeaves ==
  ASSUME NEW s, Cryptic(s), Shown(s) \in Phrases, NEW cryptic \in BOOLEAN
  PROVE  LeavesText(setCryptic(s, cryptic), Shown(s))
<1>1. CASE cryptic # s.cryptic /\ s.provider # NoProvider
  <2>1. setCryptic(s, cryptic) = setTextCryptic(s, Shown(s), cryptic)
                                 \union (IF s.cryptic /\ ~ IsBlank(s) THEN Thrown(s) ELSE {})
    BY <1>1 DEF setCryptic, Reading
  <2>2. LeavesText(setTextCryptic(s, Shown(s), cryptic), Shown(s)) /\ LeavesText(Thrown(s), Shown(s))
    BY SetTextCrypticLeaves, ThrownLeaves
  <2> QED BY <2>1, <2>2 DEF LeavesText
<1>2. CASE ~ (cryptic # s.cryptic /\ s.provider # NoProvider)
  BY <1>2, ReturnedLeaves DEF setCryptic
<1> QED BY <1>1, <1>2

\* A string without a provider any more is first read in plain text.
LEMMA PlainLeaves ==
  ASSUME NEW s, EmptySafe(s), s.provider # NoProvider
  PROVE  \A o \in setCryptic(s, FALSE) : o.ok = TRUE /\ EmptySafe(o.s) /\ o.s.cryptic = FALSE
<1>0. s.cryptic \in BOOLEAN /\ Cryptic(s)
  BY DEF EmptySafe, Cryptic, SafeStringsOf
<1>1. CASE s.cryptic
  <2> DEFINE e == [Cleared(s) EXCEPT !.cryptic = FALSE]
             f == [e EXCEPT !.iv = ZeroVector]
  <2>1. EmptySafe(e) /\ e.cryptic = FALSE
    BY <1>0, <1>1, ClearedIs DEF EmptySafe, Cryptic, SafeStringsOf
  <2>2. setCryptic(s, FALSE) = setTextCryptic(s, Blank, FALSE)
    <3>1. Shown(s) = Blank /\ IsBlank(s)
      BY <1>1, EmptiedShows
    <3>2. setCryptic(s, FALSE) = setTextCryptic(s, Shown(s), FALSE)
                                 \union (IF s.cryptic /\ ~ IsBlank(s) THEN Thrown(s) ELSE {})
      BY <1>1 DEF setCryptic, Reading
    <3>3. (IF s.cryptic /\ ~ IsBlank(s) THEN Thrown(s) ELSE {}) = {}
      BY <3>1
    <3> QED BY <3>1, <3>2, <3>3
  <2>3. setTextCryptic(s, Blank, FALSE) = Onward(resetIv(e), LAMBDA r : setText(r, Blank))
    BY <1>1 DEF setTextCryptic
  <2> HIDE DEF e
  <2>4. resetIv(e) = Returned(f)
    BY <2>1 DEF resetIv
  <2>5. Cryptic(f) /\ f.cryptic = FALSE
    BY <2>1 DEF EmptySafe, Cryptic, SafeStringsOf, SafeIvs
  <2> HIDE DEF f
  <2>6. setTextCryptic(s, Blank, FALSE) = setText(f, Blank)
    <3>1. Onward(resetIv(e), LAMBDA r : setText(r, Blank))
          = UNION {IF o.ok THEN setText(o.s, Blank) ELSE {o} : o \in resetIv(e)}
      BY DEF Onward
    <3>2. \A o \in resetIv(e) : o.ok = TRUE /\ o.s = f
      BY <2>4, ReturnedIs
    <3>3. \E o \in resetIv(e) : TRUE
      BY <2>4 DEF Returned
    <3> QED BY <2>3, <3>1, <3>2, <3>3
  <2>7. setText(f, Blank) = Returned(Cleared(f))
    BY DEF setText
  <2>8. EmptySafe(Cleared(f)) /\ Cleared(f).cryptic = FALSE
    BY <2>5, ClearedIs
  <2>9. setCryptic(s, FALSE) = Returned(Cleared(f))
    BY <2>2, <2>6, <2>7
  <2> QED BY <2>8, <2>9, ReturnedIs
<1>2. CASE ~ s.cryptic
  <2>1. setCryptic(s, FALSE) = Returned(s)
    BY <1>0, <1>2 DEF setCryptic
  <2> QED BY <1>0, <1>2, <2>1, ReturnedIs
<1> QED BY <1>0, <1>1, <1>2

LEMMA ProviderSet ==
  ASSUME NEW r, EmptySafe(r), NEW p \in SafeKeys, p = NoProvider => ~ r.cryptic, NEW t \in Phrases
  PROVE  LeavesText(Onward(resetIv([r EXCEPT !.provider = p]), LAMBDA q : setText(q, t)), t)
<1> DEFINE e == [r EXCEPT !.provider = p]
<1>1. EmptySafe(e)
  BY DEF EmptySafe, Cryptic, SafeStringsOf
<1> HIDE DEF e
<1>2. LeavesText(resetIv(e), Shown(e))
  BY <1>1, EmptiedShows, SafeAssumption, ResetIvLeaves DEF EmptySafe
<1>3. LeavesText(Onward(resetIv(e), LAMBDA q : setText(q, t)), t)
  BY <1>2, OnwardText
<1> QED BY <1>3 DEF e

LEMMA SetKeyProviderLeaves ==
  ASSUME NEW s, Cryptic(s), Shown(s) \in Phrases, NEW p \in SafeKeys
  PROVE  LeavesText(setKeyProvider(s, p), Shown(s))
<1>1. CASE p = s.provider
  BY <1>1, ReturnedLeaves DEF setKeyProvider
<1>2. CASE p # s.provider
  <2> DEFINE O == IF p = NoProvider THEN setCryptic(Cleared(s), FALSE) ELSE Returned(Cleared(s))
             t == Shown(s)
             W(r) == Onward(resetIv([r EXCEPT !.provider = p]), LAMBDA q : setText(q, t))
  <2>1. setKeyProvider(s, p) =
          Onward(O, LAMBDA r : Onward(resetIv([r EXCEPT !.provider = p]), LAMBDA q : setText(q, t)))
          \union (IF s.cryptic /\ ~ IsBlank(s) THEN Thrown(s) ELSE {})
    BY <1>2 DEF setKeyProvider, Reading
  <2>2. Onward(O, LAMBDA r : Onward(resetIv([r EXCEPT !.provider = p]), LAMBDA q : setText(q, t)))
        = UNION {IF o.ok THEN W(o.s) ELSE {o} : o \in O}
    BY DEF Onward
  <2>3. \A o \in O : o.ok = TRUE /\ EmptySafe(o.s) /\ (p = NoProvider => ~ o.s.cryptic)
    <3>1. EmptySafe(Cleared(s)) /\ Cleared(s).provider = s.provider
      BY ClearedIs
    <3>2. CASE p = NoProvider
      BY <1>2, <3>1, <3>2, PlainLeaves
    <3>3. CASE p # NoProvider
      BY <3>1, <3>3 DEF Returned
    <3> QED BY <3>2, <3>3
  <2>4. \A o \in O : LeavesText(W(o.s), t)
    BY <2>3, ProviderSet
  <2>5. LeavesText(Thrown(s), t)
    BY ThrownLeaves
  <2> HIDE DEF O, W
  <2> QED BY <2>1, <2>2, <2>3, <2>4, <2>5 DEF LeavesText
<1> QED BY <1>1, <1>2

LEMMA SetStatelessLeaves ==
  ASSUME NEW s, Cryptic(s), Shown(s) \in Phrases, NEW stateless \in BOOLEAN
  PROVE  LeavesText(setStateless(s, stateless), Shown(s))
<1>1. CASE stateless = s.stateless
  BY <1>1, ReturnedLeaves DEF setStateless
<1>2. CASE stateless # s.stateless /\ ~ s.cryptic
  <2> DEFINE p == [s EXCEPT !.stateless = stateless]
  <2>1. setStateless(s, stateless) = Returned(p)
    BY <1>2 DEF setStateless
  <2>2. Cryptic(p) /\ ~ p.cryptic /\ p.plain = s.plain
    BY <1>2 DEF Cryptic, SafeStringsOf
  <2> HIDE DEF p
  <2> QED BY <1>2, <2>1, <2>2, ShownIs, ReturnedLeaves
<1>3. CASE stateless # s.stateless /\ s.cryptic
  <2> DEFINE e == [Cleared(s) EXCEPT !.stateless = stateless]
  <2>1. setStateless(s, stateless) = setText(e, Shown(s))
                                     \union (IF s.cryptic /\ ~ IsBlank(s) THEN Thrown(s) ELSE {})
    BY <1>3 DEF setStateless, Reading
  <2>2. Cryptic(e)
    BY ClearedIs DEF EmptySafe, Cryptic, SafeStringsOf
  <2> HIDE DEF e
  <2>3. LeavesText(setText(e, Shown(s)), Shown(s)) /\ LeavesText(Thrown(s), Shown(s))
    BY <2>2, SetTextLeaves, ThrownLeaves
  <2> QED BY <2>1, <2>3 DEF LeavesText
<1> QED BY <1>1, <1>2, <1>3

SafeInv ==
  /\ safe \in SafeStringsOf /\ phrase \in Phrases /\ upset \in BOOLEAN
  /\ HoldsSafe

LEMMA GivesKeeps ==
  ASSUME SafeInv, NEW O, NEW t \in Phrases, LeavesText(O, t), Gives(O, t)
  PROVE  SafeInv'
<1>1. PICK o \in O :
        /\ safe.made /\ safe' = o.s /\ phrase' = (IF o.ok THEN t ELSE phrase)
        /\ upset' = (~ o.ok /\ (upset \/ o.s # safe))
  BY DEF Gives
<1>2. o.ok \in BOOLEAN /\ Cryptic(o.s) /\ (o.ok => Shown(o.s) = t)
  BY DEF LeavesText
<1>3. safe' \in SafeStringsOf /\ phrase' \in Phrases /\ upset' \in BOOLEAN
  BY <1>1, <1>2 DEF Cryptic, SafeInv
<1>4. safe'.cryptic => safe'.provider # NoProvider
  BY <1>1, <1>2 DEF Cryptic
<1>5. ~ upset' => Shown(safe') = phrase'
  <2>1. CASE o.ok
    BY <1>1, <1>2, <2>1
  <2>2. CASE ~ o.ok
    BY <1>1, <2>2 DEF SafeInv, HoldsSafe
  <2> QED BY <1>2, <2>1, <2>2
<1>6. Shown(safe)' = Shown(safe')
  BY DEF Shown, IsBlank, Opens
<1> QED BY <1>3, <1>4, <1>5, <1>6 DEF SafeInv, HoldsSafe

LEMMA StartsKeep ==
  ASSUME SafeInv, NEW s, Cryptic(s), Shown([s EXCEPT !.made = TRUE]) \in Phrases, NEW t \in Phrases, Starts(s, t)
  PROVE  SafeInv'
<1> DEFINE m == [s EXCEPT !.made = TRUE]
           O == Onward(resetIv(m), LAMBDA r : setText(r, t))
<1>1. Cryptic(m)
  BY DEF Cryptic, SafeStringsOf
<1>2. LeavesText(O, t)
  <2> HIDE DEF m
  <2>1. LeavesText(resetIv(m), Shown(m))
    BY <1>1, ResetIvLeaves DEF m
  <2> QED BY <2>1, OnwardText
<1>3. PICK o \in O : IF o.ok THEN safe' = o.s /\ phrase' = t /\ upset' = FALSE ELSE UNCHANGED safeVars
  BY DEF Starts
<1>4. o.ok \in BOOLEAN /\ Cryptic(o.s) /\ (o.ok => Shown(o.s) = t)
  <2> HIDE DEF O
  <2> QED BY <1>2 DEF LeavesText
<1> HIDE DEF O, m
<1>5. Shown(safe)' = Shown(safe')
  BY DEF Shown, IsBlank, Opens
<1>6. CASE o.ok
  BY <1>3, <1>4, <1>5, <1>6 DEF SafeInv, HoldsSafe, Cryptic
<1>7. CASE ~ o.ok
  BY <1>3, <1>5, <1>7 DEF safeVars, SafeInv, HoldsSafe
<1> QED BY <1>4, <1>6, <1>7

LEMMA SafeStays == SafeSpec => [](SafeTypeOK /\ HoldsSafe)
<1>1. SafeInit => SafeInv
  <2>1. NoString.made = FALSE
    BY DEF NoString
  <2> QED BY <2>1, NoStringIs, SafeAssumption DEF SafeInit, SafeInv, HoldsSafe
<1>2. SafeInv /\ [SafeNext]_safeVars => SafeInv'
  <2> SUFFICES ASSUME SafeInv, [SafeNext]_safeVars
               PROVE  SafeInv'
    OBVIOUS
  <2>0. safe.made => Cryptic(safe)
    BY DEF SafeInv, HoldsSafe, Cryptic
  <2>1. CASE SafeConstruct
    <3>1. PICK p \in SafeKeys, t \in Phrases, cryptic \in BOOLEAN :
            Starts([NoString EXCEPT !.cryptic = cryptic /\ p # NoProvider, !.provider = p], t)
      BY <2>1 DEF SafeConstruct, SafeKeys
    <3> DEFINE s == [NoString EXCEPT !.cryptic = cryptic /\ p # NoProvider, !.provider = p]
    <3>2. Cryptic(s) /\ s.cipher = NoCipher /\ s.plain = Blank
      BY NoStringIs DEF Cryptic, SafeStringsOf, NoString
    <3>3. EmptySafe([s EXCEPT !.made = TRUE])
      <4> HIDE DEF s
      <4> QED BY <3>2 DEF EmptySafe, Cryptic, SafeStringsOf
    <3> HIDE DEF s
    <3>4. Shown([s EXCEPT !.made = TRUE]) \in Phrases
      BY <3>3, EmptiedShows, SafeAssumption
    <3> QED BY <3>1, <3>2, <3>4, StartsKeep DEF s
  <2>2. CASE SafeCopy
    <3> DEFINE s == [NoString EXCEPT !.cryptic = safe.cryptic, !.provider = safe.provider, !.stateless = safe.stateless]
    <3>1. Cryptic(safe) /\ Shown(safe) \in Phrases /\ Starts(s, Shown(safe))
      BY <2>0, <2>2 DEF SafeCopy, SafeInv, HoldsSafe
    <3>2. Cryptic(s) /\ s.cipher = NoCipher /\ s.plain = Blank
      BY <3>1, NoStringIs DEF Cryptic, SafeStringsOf, NoString
    <3> HIDE DEF s
    <3>3. EmptySafe([s EXCEPT !.made = TRUE])
      BY <3>2 DEF EmptySafe, Cryptic, SafeStringsOf
    <3>4. Shown([s EXCEPT !.made = TRUE]) \in Phrases
      BY <3>3, EmptiedShows, SafeAssumption
    <3> QED BY <3>1, <3>2, <3>4, StartsKeep
  <2>3. CASE SafeDestruct
    BY <2>3, NoStringIs, SafeAssumption DEF SafeDestruct, SafeInv, HoldsSafe, NoString
  <2>4. ASSUME NEW t \in Phrases, Gives(setText(safe, t), t)
        PROVE  SafeInv'
    BY <2>0, <2>4, SetTextLeaves, GivesKeeps DEF Gives
  <2>5. ASSUME NEW t \in Phrases, NEW cryptic \in BOOLEAN, Gives(setTextCryptic(safe, t, cryptic), t)
        PROVE  SafeInv'
    <3>1. Cryptic(safe)
      BY <2>0, <2>5 DEF Gives
    <3>2. LeavesText(setTextCryptic(safe, t, cryptic), t)
      BY <3>1, SetTextCrypticLeaves
    <3> QED BY <2>5, <3>2, GivesKeeps
  <2>6. ASSUME NEW O, Keeps(O), Cryptic(safe) /\ Shown(safe) \in Phrases => LeavesText(O, Shown(safe))
        PROVE  SafeInv'
    <3>1. safe.made /\ ~ upset /\ Gives(O, phrase)
      BY <2>6 DEF Keeps, Gives
    <3>2. Cryptic(safe) /\ Shown(safe) = phrase /\ phrase \in Phrases
      BY <2>0, <3>1 DEF SafeInv, HoldsSafe
    <3> QED BY <2>6, <3>1, <3>2, GivesKeeps
  <2>7. CASE \E cryptic \in BOOLEAN : Keeps(setCryptic(safe, cryptic))
    BY <2>6, <2>7, SetCrypticLeaves
  <2>8. CASE \E p \in Providers \union {NoProvider} : Keeps(setKeyProvider(safe, p))
    BY <2>6, <2>8, SetKeyProviderLeaves DEF SafeKeys
  <2>9. CASE \E v \in Vectors : Keeps(setIv(safe, v))
    BY <2>6, <2>9, SetIvLeaves
  <2>10. CASE Keeps(resetIv(safe))
    BY <2>6, <2>10, ResetIvLeaves
  <2>11. CASE \E stateless \in BOOLEAN : Keeps(setStateless(safe, stateless))
    BY <2>6, <2>11, SetStatelessLeaves
  <2>12. CASE UNCHANGED safeVars
    BY <2>12 DEF safeVars, SafeInv, HoldsSafe, Shown, IsBlank, Opens
  <2> QED BY <2>1, <2>2, <2>3, <2>4, <2>5, <2>7, <2>8, <2>9, <2>10, <2>11, <2>12 DEF SafeNext
<1>3. SafeInv => SafeTypeOK /\ HoldsSafe
  BY DEF SafeInv, SafeTypeOK, SafeStringsOf, SafeCiphers, SafeKeys, SafeIvs
<1> QED BY <1>1, <1>2, <1>3, PTL DEF SafeSpec

-----------------------------------------------------------------------------
(* String sets (StringSets)                                                *)

SP == INSTANCE ArraysProofs WITH Before <- LowerText, Zero <- ZeroBytes, Garbage <- UnknownBytes,
                                 Limit <- SetLimit, FirstSize <- FirstStrings

LEMMA SetSameResize ==
  ASSUME NEW a, NEW n
  PROVE  Str!mcr_Array_resize(a, n) = SP!mcr_Array_resize(a, n)
BY Zenon DEF Str!mcr_Array_resize, SP!mcr_Array_resize, Str!Size, SP!Size, Str!mcr_Array_deinit,
   SP!mcr_Array_deinit, Str!Done, SP!Done, Str!Fails, SP!Fails, Str!Least, SP!Least, Str!Copies, SP!Copies

LEMMA SetSameMinused ==
  ASSUME NEW a, NEW n
  PROVE  Str!mcr_Array_minused(a, n) = SP!mcr_Array_minused(a, n)
BY SetSameResize DEF Str!mcr_Array_minused, SP!mcr_Array_minused, Str!Then, SP!Then, Str!Done, SP!Done

LEMMA SetSameMinsize ==
  ASSUME NEW a, NEW n
  PROVE  Str!mcr_Array_minsize(a, n) = SP!mcr_Array_minsize(a, n)
BY SetSameResize DEF Str!mcr_Array_minsize, SP!mcr_Array_minsize, Str!Size, SP!Size, Str!Done, SP!Done

LEMMA SetSameSmartsize ==
  ASSUME NEW a, NEW n
  PROVE  Str!mcr_Array_smartsize(a, n) = SP!mcr_Array_smartsize(a, n)
BY SetSameResize DEF Str!mcr_Array_smartsize, SP!mcr_Array_smartsize, Str!Size, SP!Size, Str!Done, SP!Done

LEMMA SetSameCopy ==
  ASSUME NEW a, NEW pos, NEW src
  PROVE  Str!mcr_Array_copy(a, pos, src) = SP!mcr_Array_copy(a, pos, src)
BY SetSameMinused DEF Str!mcr_Array_copy, SP!mcr_Array_copy, Str!Then, SP!Then, Str!Done, SP!Done, Str!Fails,
   SP!Fails, Str!Written, SP!Written

LEMMA SetSameFill ==
  ASSUME NEW a, NEW pos, NEW x, NEW n
  PROVE  Str!mcr_Array_fill(a, pos, x, n) = SP!mcr_Array_fill(a, pos, x, n)
BY SetSameMinused DEF Str!mcr_Array_fill, SP!mcr_Array_fill, Str!Then, SP!Then, Str!Done, SP!Done, Str!Written,
   SP!Written, Str!Least, SP!Least, Str!Copies, SP!Copies, Str!FillsNull, SP!FillsNull, Str!Wild, SP!Wild

LEMMA SetSameMinfill ==
  ASSUME NEW a, NEW n, NEW x
  PROVE  Str!mcr_Array_minfill(a, n, x) = SP!mcr_Array_minfill(a, n, x)
BY SetSameMinused, SetSameFill DEF Str!mcr_Array_minfill, SP!mcr_Array_minfill, Str!Then, SP!Then, Str!Done, SP!Done

LEMMA SetSameMove ==
  ASSUME NEW a, NEW to, NEW from, NEW n
  PROVE  Str!mcr_Array_move(a, to, from, n) = SP!mcr_Array_move(a, to, from, n)
BY SetSameMinused, SetSameFill DEF Str!mcr_Array_move, SP!mcr_Array_move, Str!Then, SP!Then, Str!Done, SP!Done,
   Str!Fails, SP!Fails, Str!Written, SP!Written, Str!Least, SP!Least

LEMMA SetSameInsert ==
  ASSUME NEW a, NEW pos, NEW src
  PROVE  Str!mcr_Array_insert(a, pos, src) = SP!mcr_Array_insert(a, pos, src)
BY SetSameMove, SetSameCopy, SetSameSmartsize DEF Str!mcr_Array_insert, SP!mcr_Array_insert, Str!Then, SP!Then,
   Str!Done, SP!Done, Str!Fails, SP!Fails

LEMMA SetSameRemoveIndex ==
  ASSUME NEW a, NEW pos, NEW n
  PROVE  Str!mcr_Array_remove_index(a, pos, n) = SP!mcr_Array_remove_index(a, pos, n)
BY SetSameMove DEF Str!mcr_Array_remove_index, SP!mcr_Array_remove_index, Str!Least, SP!Least

LEMMA SetSameArranged ==
  ASSUME NEW s
  PROVE  Str!Arranged(s) = SP!Arranged(s)
BY Zenon DEF Str!Arranged, SP!Arranged, Str!Cardinality, SP!Cardinality

LEMMA SetSameSort ==
  ASSUME NEW a
  PROVE  Str!mcr_Array_sort(a) = SP!mcr_Array_sort(a)
BY SetSameArranged DEF Str!mcr_Array_sort, SP!mcr_Array_sort, Str!Written, SP!Written, Str!Contents, SP!Contents

LEMMA SetSameResults ==
  ASSUME NEW a
  PROVE  Str!Done(a) = SP!Done(a) /\ Str!Fails(a) = SP!Fails(a) /\ Str!Size(a) = SP!Size(a)
         /\ Str!Contents(a) = SP!Contents(a) /\ Str!mcr_Array_pop(a) = SP!mcr_Array_pop(a)
         /\ Str!mcr_Array_clear(a) = SP!mcr_Array_clear(a) /\ Str!mcr_Array_deinit = SP!mcr_Array_deinit
         /\ \A m, n : Str!Least(m, n) = SP!Least(m, n) /\ Str!Copies(m, n) = SP!Copies(m, n)
BY DEF Str!Done, SP!Done, Str!Fails, SP!Fails, Str!Size, SP!Size, Str!Contents, SP!Contents, Str!mcr_Array_pop,
       SP!mcr_Array_pop, Str!mcr_Array_clear, SP!mcr_Array_clear, Str!mcr_Array_deinit, SP!mcr_Array_deinit,
       Str!Least, SP!Least, Str!Copies, SP!Copies

LEMMA SetSameCopies ==
  ASSUME NEW x, NEW n
  PROVE  Str!Copies(x, n) = SP!Copies(x, n)
BY DEF Str!Copies, SP!Copies

LEMMA SetSameFind ==
  ASSUME NEW a, NEW x
  PROVE  Str!mcr_Array_find(a, x) = SP!mcr_Array_find(a, x)
BY Zenon DEF Str!mcr_Array_find, SP!mcr_Array_find, Str!OneByOne, SP!OneByOne, Str!MapThenFoldSet, SP!MapThenFoldSet

-----------------------------------------------------------------------------
(* String sets: the strings that are used are those that the caller gave.  *)

Strs == Texts \union {Empty, ZeroBytes, UnknownBytes}
GivenTexts == Texts \union {Empty}

SetInv == strings \in Seq(GivenTexts) /\ SP!IsArray(set, Strs) /\ SP!Holds(set, strings)

LEMMA StrsAre ==
  /\ SP!Sizes /\ UnknownBytes \in Strs /\ ZeroBytes \in Strs /\ Empty \in GivenTexts /\ GivenTexts \subseteq Strs /\ GivenTexts \subseteq Nat
  /\ Texts \subseteq GivenTexts /\ SP!Ordering(Strs) /\ SP!Ordering(GivenTexts) /\ \A s \in Seq(GivenTexts) : s \in Seq(Strs)
<1>1. /\ SP!Sizes /\ UnknownBytes \in Strs /\ ZeroBytes \in Strs /\ Empty \in GivenTexts /\ GivenTexts \subseteq Strs
      /\ GivenTexts \subseteq Nat /\ Texts \subseteq GivenTexts /\ Strs \subseteq Int
  BY StringSetAssumption DEF SP!Sizes, Strs, GivenTexts, Empty, ZeroBytes, UnknownBytes
<1>2. SP!Ordering(Strs) /\ SP!Ordering(GivenTexts)
  BY <1>1 DEF SP!Ordering, LowerText
<1>3. ASSUME NEW s \in Seq(GivenTexts) PROVE s \in Seq(Strs)
  <2>1. Len(s) \in Nat /\ s \in [1..Len(s) -> GivenTexts]
    OBVIOUS
  <2>2. s \in [1..Len(s) -> Strs]
    BY <1>1, <2>1
  <2> QED BY <2>1, <2>2
<1> QED BY <1>1, <1>2, <1>3

LEMMA TextsAre ==
  ASSUME NEW texts \in TextSources
  PROVE  texts \in Seq(GivenTexts) /\ texts \in Seq(Strs) /\ Len(texts) \in Nat
<1>1. texts \in Seq(Texts)
  BY StringSetAssumption DEF TextSources
<1>2. texts \in Seq(GivenTexts)
  <2>1. Len(texts) \in Nat /\ texts \in [1..Len(texts) -> Texts]
    BY <1>1
  <2>2. texts \in [1..Len(texts) -> GivenTexts]
    BY <2>1, StrsAre
  <2> QED BY <2>1, <2>2
<1> QED BY <1>2, StrsAre

LEMMA UpToAre ==
  ASSUME NEW s \in Seq(GivenTexts), NEW n \in Int
  PROVE  /\ UpTo(s, n) = SubSeq(s, 1, SP!Least(n, Len(s))) /\ UpTo(s, n) \in Seq(GivenTexts)
         /\ n <= Len(s) => UpTo(s, n) = SubSeq(s, 1, n)
         /\ n >= 0 => From(s, n) \in Seq(GivenTexts)
<1>1. Str!Least(n, Len(s)) = SP!Least(n, Len(s)) /\ SP!Least(n, Len(s)) \in Int /\ SP!Least(n, Len(s)) <= Len(s)
  BY SetSameResults DEF SP!Least
<1>2. n <= Len(s) => SP!Least(n, Len(s)) = n
  BY DEF SP!Least
<1> QED BY <1>1, <1>2 DEF UpTo, From

LEMMA SetCallKeeps ==
  ASSUME SetInv, NEW result, NEW expected, StringCall(result, expected),
         SP!Leaves(result, Strs, strings, expected), expected \in Seq(GivenTexts)
  PROVE  SetInv'
<1>1. /\ result.failed \in BOOLEAN /\ SP!IsArray(result.arr, Strs)
      /\ SP!Holds(result.arr, IF result.failed THEN strings ELSE expected)
  BY DEF SP!Leaves
<1>2. set' = result.arr /\ strings' = IF result.failed THEN strings ELSE expected
  BY DEF StringCall
<1>3. strings' \in Seq(GivenTexts)
  BY <1>2 DEF SetInv
<1>4. SP!IsArray(set', Strs) /\ SP!Holds(set', strings')
  BY <1>1, <1>2
<1> QED BY <1>3, <1>4 DEF SetInv, SP!IsArray, SP!Holds

LEMMA SetDoneLeaves ==
  ASSUME NEW a, SP!IsArray(a, Strs), NEW s, NEW t, SP!Holds(a, t)
  PROVE  SP!Leaves(Str!Done(a), Strs, s, t)
<1>1. Str!Done(a).arr = a /\ ~ Str!Done(a).failed /\ Str!Done(a).failed \in BOOLEAN
  BY SetSameResults, SP!DoneIs
<1> QED BY <1>1 DEF SP!Leaves

\* Texts over strings that there are.
LEMMA ReplacedHolds ==
  ASSUME NEW b, SP!IsArray(b, Strs), NEW t \in Seq(Strs), SP!Holds(b, t), NEW pos \in Nat, NEW texts \in Seq(Strs),
         pos + Len(texts) <= Len(t)
  PROVE  SP!IsArray(Replaced(b, pos, texts), Strs) /\ SP!Holds(Replaced(b, pos, texts), SP!Over(t, pos, texts))
<1>1. Replaced(b, pos, texts) = SP!OverIn(b, pos, texts)
  BY DEF Replaced, SP!OverIn, Str!Written, SP!Written
<1>2. pos \in 0..Len(t) /\ SP!TakesOver(b, t, pos, texts)
  BY DEF SP!TakesOver, SP!Holds
<1> QED BY <1>1, <1>2, SP!WriteOver

LEMMA AtLeastIs ==
  ASSUME NEW s \in Seq(GivenTexts), NEW n \in Nat
  PROVE  /\ AtLeast(s, n) = s \o SP!Copies(Empty, n - Len(s)) /\ AtLeast(s, n) \in Seq(GivenTexts) /\ Len(AtLeast(s, n)) \in Nat
         /\ n <= Len(s) => AtLeast(s, n) = s
         /\ n >= Len(s) => Len(AtLeast(s, n)) = n
         /\ \A i \in 1..Len(AtLeast(s, n)) : AtLeast(s, n)[i] = IF i <= Len(s) THEN s[i] ELSE Empty
<1> DEFINE c == SP!Copies(Empty, n - Len(s))
<1>1. AtLeast(s, n) = s \o c
  BY SetSameCopies DEF AtLeast
<1>2. Len(s) \in Nat /\ n - Len(s) \in Int
  OBVIOUS
<1>3. /\ c \in Seq(GivenTexts) /\ Len(c) \in Nat /\ (n - Len(s) >= 0 => Len(c) = n - Len(s)) /\ (n - Len(s) <= 0 => Len(c) = 0)
      /\ \A i \in 1..Len(c) : c[i] = Empty
  BY <1>2, StrsAre, SP!CopiesAre
<1> HIDE DEF c
<1>4. SP!AsJoined(s \o c, GivenTexts, s, c)
  BY <1>3, SP!Joined
<1>5. n <= Len(s) => s \o c = s
  <2> SUFFICES ASSUME n <= Len(s) PROVE s \o c = s
    OBVIOUS
  <2>1. Len(c) = 0
    BY <1>2, <1>3
  <2>2. Len(s \o c) = Len(s) /\ s \o c \in Seq(GivenTexts) /\ \A i \in 1..Len(s) : (s \o c)[i] = s[i]
    BY <1>2, <1>4, <2>1 DEF SP!AsJoined
  <2> QED BY <2>2
<1>6. \A i \in 1..Len(s \o c) : (s \o c)[i] = IF i <= Len(s) THEN s[i] ELSE Empty
  BY <1>2, <1>3, <1>4 DEF SP!AsJoined
<1> QED BY <1>1, <1>2, <1>3, <1>4, <1>5, <1>6 DEF SP!AsJoined, c

LEMMA SetMinusedLeaves ==
  ASSUME NEW a, SP!IsArray(a, Strs), NEW s \in Seq(GivenTexts), SP!Holds(a, s), NEW n \in Nat
  PROVE  SP!Leaves(mcr_StringSet_minused(a, n), Strs, s, AtLeast(s, n))
<1>1. mcr_StringSet_minused(a, n) = SP!mcr_Array_minfill(a, n, Empty)
  BY SetSameMinfill DEF mcr_StringSet_minused
<1>2. Empty \in Strs /\ s \in Seq(Strs)
  BY StrsAre
<1>3. AtLeast(s, n) = s \o SP!Copies(Empty, n - Len(s))
  BY AtLeastIs
<1> QED BY <1>1, <1>2, <1>3, StrsAre, SP!MinfillLeaves

LEMMA SetMinusedEnough ==
  ASSUME NEW a, NEW n \in Nat, a.used >= n
  PROVE  mcr_StringSet_minused(a, n) = Str!Done(a)
BY DEF mcr_StringSet_minused, Str!mcr_Array_minfill

LEMMA StringMinusedKeeps ==
  ASSUME SetInv, StringMinused
  PROVE  SetInv'
<1>1. PICK n \in 0..SetLimit + 1 : StringCall(mcr_StringSet_minused(set, n), AtLeast(strings, n))
  BY DEF StringMinused
<1>2. n \in Nat
  BY StringSetAssumption
<1> QED BY <1>1, <1>2, SetMinusedLeaves, AtLeastIs, SetCallKeeps DEF SetInv

LEMMA SetResizeLeaves ==
  ASSUME NEW a, SP!IsArray(a, Strs), NEW s \in Seq(GivenTexts), SP!Holds(a, s), NEW n \in Nat
  PROVE  SP!Leaves(mcr_StringSet_resize(a, n), Strs, s, UpTo(s, n)) /\ UpTo(s, n) \in Seq(GivenTexts)
         /\ (n >= Len(s) => mcr_StringSet_resize(a, n) = Str!Done(a) /\ UpTo(s, n) = s)
<1>1. UpTo(s, n) = SubSeq(s, 1, SP!Least(n, Len(s))) /\ UpTo(s, n) \in Seq(GivenTexts) /\ a.used = Len(s) /\ Len(s) \in Nat
  <2>1. n \in Int
    OBVIOUS
  <2>2. UpTo(s, n) = SubSeq(s, 1, SP!Least(n, Len(s))) /\ UpTo(s, n) \in Seq(GivenTexts)
    BY <2>1, UpToAre
  <2>3. a.used = Len(s)
    BY DEF SP!Holds
  <2> QED BY <2>2, <2>3
<1>2. CASE n < Len(s)
  <2>1. mcr_StringSet_resize(a, n) = SP!mcr_Array_resize(a, n)
    BY <1>1, <1>2, SetSameResize DEF mcr_StringSet_resize
  <2> QED BY <1>1, <1>2, <2>1, StrsAre, SP!ResizeLeaves
<1>3. CASE n >= Len(s)
  <2>1. mcr_StringSet_resize(a, n) = Str!Done(a)
    BY <1>1, <1>3 DEF mcr_StringSet_resize
  <2>2. SP!Least(n, Len(s)) = Len(s)
    BY <1>1, <1>3 DEF SP!Least
  <2>3. UpTo(s, n) = s
    BY <1>1, <2>2
  <2> QED BY <1>1, <2>1, <2>3, SetDoneLeaves
<1> QED BY <1>1, <1>2, <1>3

LEMMA StringResizeKeeps ==
  ASSUME SetInv, StringResize
  PROVE  SetInv'
<1>1. PICK n \in 0..SetLimit : StringCall(mcr_StringSet_resize(set, n), UpTo(strings, n))
  BY DEF StringResize
<1>2. n \in Nat
  BY StringSetAssumption
<1> QED BY <1>1, <1>2, SetResizeLeaves, SetCallKeeps DEF SetInv

LEMMA OverIs ==
  ASSUME NEW s \in Seq(GivenTexts), NEW pos \in Nat, NEW texts \in Seq(GivenTexts)
  PROVE  /\ Over(s, pos, texts) \in Seq(GivenTexts)
         /\ Over(s, pos, texts) = SP!Over(AtLeast(s, pos + Len(texts)), pos, texts)
         /\ pos <= Len(s) => Over(s, pos, texts) = SP!Over(s, pos, texts)
<1> DEFINE L == Len(texts)
           u == AtLeast(s, pos)
           t == AtLeast(s, pos + L)
           o == SP!Over(u, pos, texts)
           w == SP!Over(t, pos, texts)
<1>0. L \in Nat /\ Len(s) \in Nat /\ pos + L \in Nat
  OBVIOUS
<1> HIDE DEF L
<1>1. /\ u \in Seq(GivenTexts) /\ Len(u) \in Nat /\ (pos <= Len(s) => u = s) /\ (pos >= Len(s) => Len(u) = pos)
      /\ \A i \in 1..Len(u) : u[i] = IF i <= Len(s) THEN s[i] ELSE Empty
  BY AtLeastIs
<1>2. /\ t \in Seq(GivenTexts) /\ Len(t) \in Nat /\ (pos + L <= Len(s) => t = s) /\ (pos + L >= Len(s) => Len(t) = pos + L)
      /\ \A i \in 1..Len(t) : t[i] = IF i <= Len(s) THEN s[i] ELSE Empty
  BY <1>0, AtLeastIs
<1> HIDE DEF u, t, L
<1>3. pos \in 0..Len(u) /\ pos \in 0..Len(t)
  BY <1>0, <1>1, <1>2
<1>4. SP!AsOver(o, GivenTexts, u, pos, texts) /\ SP!AsOver(w, GivenTexts, t, pos, texts)
  BY <1>1, <1>2, <1>3, SP!OverIs
<1>5. Over(s, pos, texts) = o
  <2>1. UpTo(u, pos) = SubSeq(u, 1, pos)
    BY <1>1, <1>3, UpToAre
  <2> QED BY <2>1 DEF Over, From, SP!Over, u
<1> HIDE DEF o, w
<1>6. /\ o \in Seq(GivenTexts) /\ (Len(u) <= pos + L => Len(o) = pos + L) /\ (pos + L <= Len(u) => Len(o) = Len(u))
      /\ \A i \in 1..Len(o) : /\ i <= pos => o[i] = u[i]
                              /\ pos < i /\ i <= pos + L => o[i] = texts[i - pos]
                              /\ pos + L < i => o[i] = u[i]
  BY <1>4 DEF SP!AsOver, L
<1>7. /\ w \in Seq(GivenTexts) /\ (Len(t) <= pos + L => Len(w) = pos + L) /\ (pos + L <= Len(t) => Len(w) = Len(t))
      /\ \A i \in 1..Len(w) : /\ i <= pos => w[i] = t[i]
                              /\ pos < i /\ i <= pos + L => w[i] = texts[i - pos]
                              /\ pos + L < i => w[i] = t[i]
  BY <1>4 DEF SP!AsOver, L
<1>8. Len(o) = Len(w)
  BY <1>0, <1>1, <1>2, <1>6, <1>7
<1>9. ASSUME NEW i \in 1..Len(o) PROVE o[i] = w[i]
  <2>1. CASE i <= pos
    <3>1. i \in 1..Len(u) /\ i \in 1..Len(t)
      BY <1>3, <2>1
    <3> QED BY <1>1, <1>2, <1>6, <1>7, <1>8, <2>1, <3>1
  <2>2. CASE pos < i /\ i <= pos + L
    BY <1>6, <1>7, <1>8, <2>2
  <2>3. CASE pos + L < i
    <3>1. i \in 1..Len(u) /\ i \in 1..Len(t)
      BY <1>0, <1>1, <1>2, <1>6, <1>7, <1>8, <2>3
    <3> QED BY <1>1, <1>2, <1>6, <1>7, <1>8, <2>3, <3>1
  <2> QED BY <1>0, <2>1, <2>2, <2>3
<1>10. o = w
  <2>1. o \in Seq(GivenTexts) /\ w \in Seq(GivenTexts)
    BY <1>6, <1>7
  <2> QED BY <1>8, <1>9, <2>1
<1>11. pos <= Len(s) => o = SP!Over(s, pos, texts)
  BY <1>1 DEF o
<1> QED BY <1>5, <1>6, <1>10, <1>11 DEF w, t, L

LEMMA SetCopyLeaves ==
  ASSUME NEW a, SP!IsArray(a, Strs), NEW s \in Seq(GivenTexts), SP!Holds(a, s), NEW pos \in Nat, NEW texts \in Seq(GivenTexts)
  PROVE  /\ texts # << >> => SP!Leaves(mcr_StringSet_copy(a, pos, texts), Strs, s, Over(s, pos, texts))
         /\ texts = << >> => mcr_StringSet_copy(a, pos, texts) = Str!Done(a)
         /\ pos + Len(texts) <= Len(s) => ~ mcr_StringSet_copy(a, pos, texts).failed
<1> DEFINE n == pos + Len(texts)
           m == mcr_StringSet_minused(a, n)
           r == mcr_StringSet_copy(a, pos, texts)
           t == AtLeast(s, n)
           o == Over(s, pos, texts)
<1>1. n \in Nat /\ Len(texts) \in Nat /\ texts \in Seq(Strs)
  BY StrsAre
<1>2. texts = << >> => r = Str!Done(a) /\ ~ r.failed
  BY DEF mcr_StringSet_copy, Str!Done
<1>3. CASE texts = << >>
  BY <1>2, <1>3
<1>4. CASE texts # << >>
  <2>1. SP!Leaves(m, Strs, s, t)
    BY <1>1, SetMinusedLeaves
  <2>2. t \in Seq(GivenTexts) /\ t \in Seq(Strs) /\ pos + Len(texts) <= Len(t)
    <3>1. t \in Seq(GivenTexts) /\ (n <= Len(s) => t = s) /\ (n >= Len(s) => Len(t) = n)
      BY <1>1, AtLeastIs
    <3>2. t \in Seq(Strs)
      BY <3>1, StrsAre
    <3> HIDE DEF t
    <3>3. n <= Len(t)
      BY <1>1, <3>1
    <3> QED BY <3>1, <3>2, <3>3
  <2>3. r = IF m.failed THEN m ELSE Str!Done(Replaced(m.arr, pos, texts))
    BY <1>4 DEF mcr_StringSet_copy, Str!Then
  <2>4. n <= Len(s) => ~ m.failed
    <3> SUFFICES ASSUME n <= Len(s) PROVE ~ m.failed
      OBVIOUS
    <3>1. a.used >= n
      BY <1>1 DEF SP!Holds
    <3> QED BY <1>1, <3>1, SetMinusedEnough DEF Str!Done
  <2>5. o = SP!Over(t, pos, texts)
    BY <1>1, OverIs
  <2> HIDE DEF r, m, t, o
  <2>6. CASE m.failed
    <3>1. r = m
      BY <2>3, <2>6
    <3>2. SP!Leaves(r, Strs, s, o)
      BY <2>1, <2>6, <3>1 DEF SP!Leaves
    <3>3. ~ pos + Len(texts) <= Len(s)
      BY <2>4, <2>6
    <3> QED BY <1>4, <3>2, <3>3 DEF r, o
  <2>7. CASE ~ m.failed
    <3>1. SP!IsArray(m.arr, Strs) /\ SP!Holds(m.arr, t)
      BY <2>1, <2>7 DEF SP!Leaves
    <3>2. SP!IsArray(Replaced(m.arr, pos, texts), Strs) /\ SP!Holds(Replaced(m.arr, pos, texts), o)
      BY <1>1, <2>2, <2>5, <3>1, ReplacedHolds
    <3>3. SP!Leaves(r, Strs, s, o)
      BY <2>3, <2>7, <3>2, SetDoneLeaves
    <3>4. ~ r.failed
      BY <2>3, <2>7 DEF Str!Done
    <3> QED BY <1>4, <3>3, <3>4 DEF r, o
  <2> QED BY <2>6, <2>7
<1> QED BY <1>3, <1>4

LEMMA StringCopyKeeps ==
  ASSUME SetInv, StringCopy
  PROVE  SetInv'
<1>1. PICK pos \in 0..Held + 1, texts \in TextSources :
        StringCall(mcr_StringSet_copy(set, pos, texts), IF texts = << >> THEN strings ELSE Over(strings, pos, texts))
  BY DEF StringCopy
<1>2. pos \in Nat /\ texts \in Seq(GivenTexts)
  BY TextsAre DEF Held, SetInv
<1>3. CASE texts = << >>
  <2>1. SP!Leaves(mcr_StringSet_copy(set, pos, texts), Strs, strings, strings)
    BY <1>2, <1>3, SetCopyLeaves, SetDoneLeaves DEF SetInv
  <2> QED BY <1>1, <1>3, <2>1, SetCallKeeps DEF SetInv
<1>4. CASE texts # << >>
  <2>1. SP!Leaves(mcr_StringSet_copy(set, pos, texts), Strs, strings, Over(strings, pos, texts))
    BY <1>2, <1>4, SetCopyLeaves DEF SetInv
  <2>2. Over(strings, pos, texts) \in Seq(GivenTexts)
    BY <1>2, OverIs DEF SetInv
  <2> QED BY <1>1, <1>4, <2>1, <2>2, SetCallKeeps
<1> QED BY <1>3, <1>4

\* Behind the last string, texts are appended.
LEMMA SetAppendLeaves ==
  ASSUME NEW a, SP!IsArray(a, Strs), NEW s \in Seq(GivenTexts), SP!Holds(a, s), NEW texts \in Seq(GivenTexts)
  PROVE  SP!Leaves(mcr_StringSet_append(a, texts), Strs, s, s \o texts)
<1>1. a.used = Len(s) /\ Len(s) \in Nat /\ texts \in Seq(Strs) /\ s \in Seq(Strs)
  BY StrsAre DEF SP!Holds
<1>2. mcr_StringSet_append(a, texts) = mcr_StringSet_copy(a, Len(s), texts)
  BY <1>1 DEF mcr_StringSet_append
<1>3. CASE texts = << >>
  <2>1. s \o texts = s
    BY <1>3
  <2> QED BY <1>1, <1>2, <1>3, <2>1, SetCopyLeaves, SetDoneLeaves
<1>4. CASE texts # << >>
  <2>1. Over(s, Len(s), texts) = s \o texts
    <3>1. Over(s, Len(s), texts) = SP!Over(s, Len(s), texts)
      BY <1>1, OverIs
    <3> QED BY <3>1, SP!OverTheEnd
  <2> QED BY <1>1, <1>2, <1>4, <2>1, SetCopyLeaves
<1> QED BY <1>3, <1>4

LEMMA StringAppendKeeps ==
  ASSUME SetInv, StringAppend
  PROVE  SetInv'
<1>1. PICK texts \in TextSources : StringCall(mcr_StringSet_append(set, texts), strings \o texts)
  BY DEF StringAppend
<1>2. texts \in Seq(GivenTexts) /\ strings \o texts \in Seq(GivenTexts)
  BY TextsAre DEF SetInv
<1> QED BY <1>1, <1>2, SetAppendLeaves, SetCallKeeps DEF SetInv

LEMMA SameElements ==
  ASSUME NEW E, NEW s \in Seq(E), NEW t \in Seq(E), Len(s) = Len(t), \A i \in 1..Len(s) : s[i] = t[i]
  PROVE  s = t
OBVIOUS

\* Texts behind a part that stays.
LEMMA TailOver ==
  ASSUME NEW s \in Seq(GivenTexts), NEW texts \in Seq(GivenTexts), NEW w \in Seq(GivenTexts), Len(w) = Len(s) + Len(texts),
         \A i \in 1..Len(s) : w[i] = s[i]
  PROVE  SP!Over(w, Len(s), texts) = s \o texts
<1> DEFINE o == SP!Over(w, Len(s), texts)
           j == s \o texts
<1>1. Len(s) \in Nat /\ Len(texts) \in Nat /\ Len(s) \in 0..Len(w)
  OBVIOUS
<1>2. SP!AsOver(o, GivenTexts, w, Len(s), texts) /\ SP!AsJoined(j, GivenTexts, s, texts)
  BY <1>1, SP!OverIs, SP!Joined
<1> HIDE DEF o, j
<1>3. /\ o \in Seq(GivenTexts) /\ Len(o) = Len(s) + Len(texts)
      /\ \A i \in 1..Len(o) : /\ i <= Len(s) => o[i] = w[i]
                              /\ Len(s) < i /\ i <= Len(s) + Len(texts) => o[i] = texts[i - Len(s)]
  BY <1>1, <1>2 DEF SP!AsOver
<1>4. /\ j \in Seq(GivenTexts) /\ Len(j) = Len(s) + Len(texts)
      /\ \A i \in 1..Len(s) : j[i] = s[i]
      /\ \A i \in 1..Len(j) : Len(s) < i => j[i] = texts[i - Len(s)]
  BY <1>1, <1>2 DEF SP!AsJoined
<1>5. ASSUME NEW i \in 1..Len(o) PROVE o[i] = j[i]
  <2>1. CASE i <= Len(s)
    BY <1>1, <1>3, <1>4, <2>1
  <2>2. CASE Len(s) < i
    BY <1>1, <1>3, <1>4, <2>2
  <2> QED BY <1>1, <2>1, <2>2
<1>6. o = j
  <2>1. o \in Seq(GivenTexts) /\ j \in Seq(GivenTexts) /\ Len(o) = Len(j)
    BY <1>3, <1>4
  <2> QED BY <1>5, <2>1, SameElements
<1> QED BY <1>6 DEF o, j

LEMMA SetInsertLeaves ==
  ASSUME NEW a, SP!IsArray(a, Strs), NEW s \in Seq(GivenTexts), SP!Holds(a, s), NEW texts \in Seq(GivenTexts)
  PROVE  SP!Leaves(mcr_StringSet_insert(a, Len(s), texts), Strs, s, s \o texts)
<1> DEFINE n == Len(texts)
           z == SP!Copies(ZeroBytes, n)
           e == SP!Copies(Empty, n)
           i == SP!mcr_Array_insert(a, Len(s), z)
           f == SP!mcr_Array_fill(i.arr, Len(s), Empty, n)
           r == mcr_StringSet_insert(a, Len(s), texts)
           w == SP!Over(s \o z, Len(s), e)
<1>1. a.used = Len(s) /\ Len(s) \in Nat /\ n \in Nat /\ texts \in Seq(Strs) /\ s \in Seq(Strs)
  BY StrsAre DEF SP!Holds
<1>2. CASE n = 0
  <2>1. s \o texts = s
    BY <1>1, <1>2
  <2>2. r = Str!Done(a)
    BY <1>2 DEF mcr_StringSet_insert
  <2> QED BY <2>1, <2>2, SetDoneLeaves
<1>3. CASE n # 0
  <2>1. r = IF i.failed THEN i ELSE IF f.failed THEN f ELSE Str!Done(Replaced(f.arr, Len(s), texts))
    <3> DEFINE p == Str!mcr_Array_insert(a, Len(s), Str!Copies(ZeroBytes, n))
               g == Str!mcr_Array_fill(p.arr, Len(s), Empty, n)
    <3>1. p = i /\ g = f
      BY SetSameInsert, SetSameFill, SetSameCopies
    <3>2. ~ Len(s) > a.used
      BY <1>1
    <3>3. r = IF p.failed THEN p ELSE IF g.failed THEN g ELSE Str!Done(Replaced(g.arr, Len(s), texts))
      BY <1>3, <3>2 DEF mcr_StringSet_insert, Str!Then
    <3> HIDE DEF p, g, i, f, r
    <3> QED BY <3>1, <3>3
  <2>2. /\ z \in Seq(Strs) /\ Len(z) = n /\ e \in Seq(Strs) /\ e \in Seq(GivenTexts) /\ Len(e) = n
    BY <1>1, StrsAre, SP!CopiesAre
  <2>3. SP!Between(s, Len(s), z) = s \o z
    BY <1>1, <2>2, SP!OverTheEnd
  <2>4. SP!Leaves(i, Strs, s, s \o z)
    <3>1. Len(s) \in 0..Len(s)
      BY <1>1
    <3>2. SP!Leaves(i, Strs, s, SP!Between(s, Len(s), z))
      BY <1>1, <2>2, <3>1, StrsAre, SP!InsertLeaves
    <3> QED BY <2>3, <3>2
  <2>5. /\ s \o z \in Seq(Strs) /\ Len(s \o z) = Len(s) + n /\ s \o e \in Seq(GivenTexts)
        /\ \A k \in 1..Len(s) : (s \o z)[k] = s[k]
    <3> HIDE DEF z, e, n
    <3>1. SP!AsJoined(s \o z, Strs, s, z)
      BY <1>1, <2>2, SP!Joined
    <3> QED BY <1>1, <2>2, <3>1 DEF SP!AsJoined
  <2> DEFINE v == s \o z
  <2> HIDE DEF v, z, e, i, f, r, w, n
  <2>6. CASE i.failed
    <3>1. r = i
      BY <2>1, <2>6
    <3> QED BY <2>4, <2>6, <3>1 DEF SP!Leaves, r
  <2>7. CASE ~ i.failed
    <3>1. SP!IsArray(i.arr, Strs) /\ SP!Holds(i.arr, v)
      BY <2>4, <2>7 DEF SP!Leaves, v
    <3>2. v \in Seq(Strs) /\ Len(v) = Len(s) + n
      BY <2>5 DEF v
    <3>3. Len(s) + n <= SetLimit
      BY <1>1, <3>1, <3>2, StringSetAssumption DEF SP!IsArray, SP!Holds
    <3>4. ~ f.failed
      <4>1. Len(s) + n \in Nat
        BY <1>1
      <4> QED BY <1>1, <3>1, <3>3, <4>1, StrsAre, SP!FillFits DEF f
    <3>5. w = SP!Over(v, Len(s), e)
      BY DEF w, v
    <3>6. SP!Leaves(f, Strs, v, w)
      <4>1. Len(s) \in 0..Len(v) /\ Len(s) + n >= Len(v) /\ Empty \in Strs
        BY <1>1, <3>2, StrsAre
      <4>2. ~ SP!FillsNull(i.arr, Len(s), Empty, n)
        BY <1>3 DEF SP!FillsNull
      <4> QED BY <1>1, <3>1, <3>2, <3>5, <4>1, <4>2, StrsAre, SP!FillLeaves DEF f, e
    <3>7. SP!IsArray(f.arr, Strs) /\ SP!Holds(f.arr, w)
      BY <3>4, <3>6 DEF SP!Leaves
    <3>8. w \in Seq(GivenTexts) /\ w \in Seq(Strs) /\ Len(w) = Len(s) + Len(texts) /\ \A k \in 1..Len(s) : w[k] = s[k]
      <4>1. SP!AsOver(w, Strs, v, Len(s), e)
        <5>1. Len(s) \in 0..Len(v)
          BY <1>1, <3>2
        <5> QED BY <2>2, <3>2, <3>5, <5>1, SP!OverIs
      <4>2. w \in Seq(Strs) /\ Len(w) = Len(s) + n /\ \A k \in 1..Len(w) : k <= Len(s) => w[k] = v[k]
        BY <1>1, <2>2, <3>2, <4>1 DEF SP!AsOver
      <4>3. \A k \in 1..Len(s) : w[k] = s[k]
        BY <1>1, <2>5, <4>2 DEF v
      <4>4. \A k \in 1..Len(w) : w[k] \in GivenTexts
        <5>1. ASSUME NEW k \in 1..Len(w), Len(s) < k PROVE w[k] \in GivenTexts
          <6>1. w[k] = e[k - Len(s)] /\ k - Len(s) \in 1..Len(e)
            BY <1>1, <2>2, <3>2, <4>1, <4>2, <5>1 DEF SP!AsOver
          <6> QED BY <2>2, <6>1
        <5>2. ASSUME NEW k \in 1..Len(w), k <= Len(s) PROVE w[k] \in GivenTexts
          BY <1>1, <4>3, <5>2
        <5> QED BY <1>1, <5>1, <5>2
      <4>5. w \in Seq(GivenTexts)
        BY <4>2, <4>4
      <4> QED BY <4>2, <4>3, <4>5 DEF n
    <3>9. SP!IsArray(Replaced(f.arr, Len(s), texts), Strs) /\ SP!Holds(Replaced(f.arr, Len(s), texts), SP!Over(w, Len(s), texts))
      BY <1>1, <3>7, <3>8, ReplacedHolds
    <3>10. SP!Over(w, Len(s), texts) = s \o texts
      BY <3>8, TailOver
    <3>11. r = Str!Done(Replaced(f.arr, Len(s), texts))
      BY <2>1, <2>7, <3>4
    <3> QED BY <3>9, <3>10, <3>11, SetDoneLeaves DEF r
  <2> QED BY <2>6, <2>7
<1> QED BY <1>2, <1>3

LEMMA StringInsertKeeps ==
  ASSUME SetInv, Mishandled = {}, StringInsert
  PROVE  SetInv'
<1>1. PICK pos \in 0..Held, texts \in TextSources :
        /\ pos = Held
        /\ StringCall(mcr_StringSet_insert(set, pos, texts), UpTo(strings, pos) \o texts \o From(strings, pos))
  BY DEF StringInsert
<1>2. texts \in Seq(GivenTexts) /\ strings \in Seq(GivenTexts) /\ Len(strings) \in Nat /\ Len(strings) \in Int
  BY TextsAre DEF SetInv
<1>3. UpTo(strings, Held) \o texts \o From(strings, Held) = strings \o texts
  <2>1. UpTo(strings, Held) = strings
    <3>1. UpTo(strings, Len(strings)) = SubSeq(strings, 1, Len(strings))
      <4>1. Len(strings) <= Len(strings)
        BY <1>2
      <4> QED BY <1>2, <4>1, UpToAre
    <3> QED BY <1>2, <3>1 DEF Held
  <2>2. From(strings, Held) = << >>
    BY <1>2 DEF From, Held
  <2>3. (strings \o texts) \o << >> = strings \o texts
    BY <1>2
  <2> QED BY <2>1, <2>2, <2>3
<1>4. SP!Leaves(mcr_StringSet_insert(set, Held, texts), Strs, strings, strings \o texts)
  BY <1>2, SetInsertLeaves DEF SetInv, Held
<1>5. strings \o texts \in Seq(GivenTexts)
  BY <1>2
<1> QED BY <1>1, <1>3, <1>4, <1>5, SetCallKeeps

LEMMA SetReplaceLeaves ==
  ASSUME NEW a, SP!IsArray(a, Strs), NEW s \in Seq(GivenTexts), SP!Holds(a, s), NEW texts \in Seq(GivenTexts)
  PROVE  SP!Leaves(mcr_StringSet_replace(a, texts), Strs, s, texts)
<1> DEFINE n == Len(texts)
           c == mcr_StringSet_resize(a, n)
           m == mcr_StringSet_copy(c.arr, 0, texts)
           r == mcr_StringSet_replace(a, texts)
           t == UpTo(s, n)
<1>1. n \in Nat /\ n \in Int /\ Len(s) \in Nat
  OBVIOUS
<1>2. CASE texts = << >>
  <2>1. r = Str!Done(Str!mcr_Array_deinit)
    BY <1>2 DEF mcr_StringSet_replace
  <2>2. SP!IsArray(Str!mcr_Array_deinit, Strs) /\ SP!Holds(Str!mcr_Array_deinit, << >>)
    BY StrsAre, SetSameResults, SP!DeinitIs
  <2> QED BY <1>2, <2>1, <2>2, SetDoneLeaves
<1>3. CASE texts # << >>
  <2>1. r = IF c.failed THEN c ELSE m
    BY <1>3 DEF mcr_StringSet_replace, Str!Then
  <2>2. SP!Leaves(c, Strs, s, t) /\ t \in Seq(GivenTexts) /\ (n >= Len(s) => t = s)
    BY <1>1, SetResizeLeaves
  <2>3. n <= Len(s) => Len(t) = n
    <3> SUFFICES ASSUME n <= Len(s) PROVE Len(t) = n
      OBVIOUS
    <3>1. t = SubSeq(s, 1, n)
      BY <1>1, UpToAre
    <3> HIDE DEF n
    <3> QED BY <1>1, <3>1
  <2> HIDE DEF r, c, m, t
  <2>4. CASE c.failed
    BY <2>1, <2>2, <2>4 DEF SP!Leaves, r
  <2>5. CASE ~ c.failed
    <3>1. SP!IsArray(c.arr, Strs) /\ SP!Holds(c.arr, t)
      BY <2>2, <2>5 DEF SP!Leaves
    <3>2. SP!Leaves(m, Strs, t, Over(t, 0, texts)) /\ (n <= Len(t) => ~ m.failed)
      <4>1. 0 \in Nat /\ 0 + Len(texts) = n
        BY <1>1
      <4> QED BY <1>3, <2>2, <3>1, <4>1, SetCopyLeaves DEF m
    <3>3. Over(t, 0, texts) = texts
      <4>1. 0 \in Nat /\ 0 <= Len(t) /\ Len(t) \in Nat /\ Len(t) <= n
        BY <1>1, <2>2, <2>3
      <4>2. Over(t, 0, texts) = SP!Over(t, 0, texts)
        BY <2>2, <4>1, OverIs
      <4>3. SubSeq(t, 1, 0) = << >> /\ SubSeq(t, 0 + n + 1, Len(t)) = << >>
        BY <1>1, <2>2, <4>1
      <4>4. << >> \o texts \o << >> = texts
        OBVIOUS
      <4> QED BY <4>2, <4>3, <4>4 DEF SP!Over, n
    <3>4. ~ m.failed \/ t = s
      BY <1>1, <2>2, <2>3, <3>2
    <3>5. SP!Leaves(m, Strs, s, texts)
      BY <3>2, <3>3, <3>4 DEF SP!Leaves
    <3>6. r = m
      BY <2>1, <2>5
    <3> QED BY <3>5, <3>6 DEF r
  <2> QED BY <2>4, <2>5
<1> QED BY <1>2, <1>3

LEMMA StringReplaceKeeps ==
  ASSUME SetInv, StringReplace
  PROVE  SetInv'
<1>1. PICK texts \in TextSources : StringCall(mcr_StringSet_replace(set, texts), texts)
  BY DEF StringReplace
<1>2. texts \in Seq(GivenTexts)
  BY TextsAre
<1> QED BY <1>1, <1>2, SetReplaceLeaves, SetCallKeeps DEF SetInv

LEMMA StringSetOneKeeps ==
  ASSUME SetInv, Mishandled = {}, StringSetOne
  PROVE  SetInv'
<1>1. PICK pos \in 0..Held, one \in Texts :
        pos < Held /\ StringCall(mcr_StringSet_set(set, pos, one), Over(strings, pos, << one >>))
  BY DEF StringSetOne
<1>2. pos \in Nat /\ Len(strings) \in Nat /\ pos + 1 <= Len(strings) /\ set.used = Len(strings)
  BY <1>1 DEF SetInv, Held, SP!Holds
<1>3. << one >> \in Seq(GivenTexts) /\ << one >> \in Seq(Strs) /\ Len(<< one >>) = 1 /\ strings \in Seq(GivenTexts) /\ strings \in Seq(Strs)
  <2>1. one \in GivenTexts /\ one \in Strs
    BY StrsAre
  <2> QED BY <2>1, StrsAre DEF SetInv
<1>4. mcr_StringSet_set(set, pos, one) = Str!Done(Replaced(set, pos, << one >>))
  <2>1. mcr_StringSet_minused(set, pos) = Str!Done(set)
    BY <1>2, SetMinusedEnough
  <2> QED BY <2>1, SetSameResults, SP!DoneIs DEF mcr_StringSet_set, Str!Then
<1>5. Over(strings, pos, << one >>) = SP!Over(strings, pos, << one >>) /\ Over(strings, pos, << one >>) \in Seq(GivenTexts)
  <2>1. pos <= Len(strings)
    BY <1>2
  <2> QED BY <1>2, <1>3, <2>1, OverIs
<1>6. /\ SP!IsArray(Replaced(set, pos, << one >>), Strs)
      /\ SP!Holds(Replaced(set, pos, << one >>), SP!Over(strings, pos, << one >>))
  BY <1>2, <1>3, ReplacedHolds DEF SetInv
<1>7. SP!Leaves(mcr_StringSet_set(set, pos, one), Strs, strings, Over(strings, pos, << one >>))
  BY <1>4, <1>5, <1>6, SetDoneLeaves
<1> QED BY <1>1, <1>5, <1>7, SetCallKeeps

LEMMA StringFillKeeps ==
  ASSUME SetInv, Mishandled = {}, StringFill
  PROVE  SetInv'
<1>1. PICK pos \in 0..Held, count \in 0..CopiesUpTo, one \in Texts :
        /\ pos + count < Held
        /\ StringCall(mcr_StringSet_fill(set, pos, count, one), Over(strings, pos, Str!Copies(one, count)))
  BY DEF StringFill
<1> DEFINE c == SP!Copies(one, count)
<1>2. pos \in Nat /\ count \in Nat /\ pos + count \in Nat /\ Len(strings) \in Nat /\ set.used = Len(strings) /\ pos + count < set.used
  BY <1>1, StringSetAssumption DEF SetInv, Held, SP!Holds
<1>3. /\ Str!Copies(one, count) = c /\ c \in Seq(GivenTexts) /\ c \in Seq(Strs) /\ Len(c) = count
      /\ strings \in Seq(GivenTexts) /\ strings \in Seq(Strs)
  <2>1. one \in GivenTexts /\ count \in Int
    BY <1>2, StrsAre
  <2> QED BY <1>2, <2>1, StrsAre, SetSameCopies, SP!CopiesAre DEF SetInv
<1> HIDE DEF c
<1>4. mcr_StringSet_fill(set, pos, count, one) = Str!Done(Replaced(set, pos, c))
  <2>1. mcr_StringSet_minused(set, pos + count) = Str!Done(set)
    BY <1>2, SetMinusedEnough
  <2> QED BY <1>2, <1>3, <2>1, SetSameResults, SP!DoneIs DEF mcr_StringSet_fill, Str!Then
<1>5. Over(strings, pos, c) = SP!Over(strings, pos, c) /\ Over(strings, pos, c) \in Seq(GivenTexts)
  BY <1>2, <1>3, OverIs
<1>6. SP!IsArray(Replaced(set, pos, c), Strs) /\ SP!Holds(Replaced(set, pos, c), SP!Over(strings, pos, c))
  <2>1. pos + Len(c) <= Len(strings)
    BY <1>2, <1>3
  <2> QED BY <1>2, <1>3, <2>1, ReplacedHolds DEF SetInv
<1>7. SP!Leaves(mcr_StringSet_fill(set, pos, count, one), Strs, strings, Over(strings, pos, c))
  BY <1>4, <1>5, <1>6, SetDoneLeaves
<1> QED BY <1>1, <1>3, <1>5, <1>7, SetCallKeeps

LEMMA SetWithoutIs ==
  ASSUME NEW s \in Seq(GivenTexts), NEW pos \in 0..Len(s), NEW count \in Nat, NEW n, n = SP!Least(pos + count, Len(s)) - pos
  PROVE  UpTo(s, pos) \o From(s, pos + count) = SP!Without(s, pos, n) /\ UpTo(s, pos) \o From(s, pos + count) \in Seq(GivenTexts)
<1>1. UpTo(s, pos) = SubSeq(s, 1, pos)
  BY UpToAre
<1>2. SubSeq(s, pos + count + 1, Len(s)) = SubSeq(s, pos + n + 1, Len(s))
  <2>1. CASE pos + count < Len(s)
    <3>1. n = count
      BY <2>1 DEF SP!Least
    <3> QED BY <3>1
  <2>2. CASE ~ pos + count < Len(s)
    <3>1. pos + n = Len(s)
      BY <2>2 DEF SP!Least
    <3>2. SubSeq(s, pos + count + 1, Len(s)) = << >> /\ SubSeq(s, Len(s) + 1, Len(s)) = << >>
      BY <2>2
    <3> QED BY <3>1, <3>2
  <2> QED BY <2>1, <2>2
<1>3. UpTo(s, pos) \o From(s, pos + count) = SP!Without(s, pos, n)
  BY <1>1, <1>2 DEF From, SP!Without
<1>4. pos + count \in Int /\ pos + count >= 0
  OBVIOUS
<1>5. UpTo(s, pos) \in Seq(GivenTexts) /\ From(s, pos + count) \in Seq(GivenTexts)
  BY <1>4, UpToAre
<1>6. UpTo(s, pos) \o From(s, pos + count) \in Seq(GivenTexts)
  BY <1>5
<1> QED BY <1>3, <1>6

LEMMA StringRemoveIndexKeeps ==
  ASSUME SetInv, StringRemoveIndex
  PROVE  SetInv'
<1> DEFINE Rest(pos, count) == UpTo(strings, pos) \o From(strings, pos + count)
<1>1. PICK pos \in 0..Held, count \in 0..CopiesUpTo :
        StringCall(Str!Done(Str!mcr_Array_remove_index(set, pos, count)), Rest(pos, count))
  BY DEF StringRemoveIndex
<1>2. pos \in 0..Len(strings) /\ count \in Nat /\ strings \in Seq(GivenTexts) /\ strings \in Seq(Strs)
  BY StringSetAssumption, StrsAre DEF Held, SetInv
<1> DEFINE n == SP!Least(pos + count, Len(strings)) - pos
           a == Str!mcr_Array_remove_index(set, pos, count)
<1>3. Rest(pos, count) = SP!Without(strings, pos, n) /\ Rest(pos, count) \in Seq(GivenTexts)
  BY <1>2, SetWithoutIs
<1> HIDE DEF Rest
<1>4. SP!IsArray(a, Strs) /\ SP!Holds(a, SP!Without(strings, pos, n))
  BY <1>2, StrsAre, SetSameRemoveIndex, SP!RemoveLeaves DEF SetInv
<1> HIDE DEF n, a
<1>5. SP!Leaves(Str!Done(a), Strs, strings, Rest(pos, count))
  BY <1>3, <1>4, SetDoneLeaves
<1> QED BY <1>1, <1>3, <1>5, SetCallKeeps DEF a

LEMMA StringPopKeeps ==
  ASSUME SetInv, StringPop
  PROVE  SetInv'
<1>0. strings \in Seq(GivenTexts) /\ strings \in Seq(Strs) /\ Len(strings) \in Nat
  BY StrsAre DEF SetInv
<1>1. UpTo(strings, Held - 1) = SubSeq(strings, 1, Len(strings) - 1) /\ UpTo(strings, Held - 1) \in Seq(GivenTexts)
  <2>2. Len(strings) - 1 \in Int /\ Len(strings) - 1 <= Len(strings)
    BY <1>0
  <2> QED BY <1>0, <2>2, UpToAre DEF Held
<1>2. SP!IsArray(Str!mcr_Array_pop(set), Strs) /\ SP!Holds(Str!mcr_Array_pop(set), UpTo(strings, Held - 1))
  BY <1>0, <1>1, SetSameResults, SP!PopLeaves DEF SetInv
<1>3. SP!Leaves(Str!Done(Str!mcr_Array_pop(set)), Strs, strings, UpTo(strings, Held - 1))
  BY <1>2, SetDoneLeaves
<1> QED BY <1>1, <1>3, SetCallKeeps DEF StringPop

LEMMA StringClearKeeps ==
  ASSUME SetInv, StringClear \/ StringDeinit
  PROVE  SetInv'
<1>1. SP!IsArray(Str!mcr_Array_clear(set), Strs) /\ SP!Holds(Str!mcr_Array_clear(set), << >>)
  BY SetSameResults, SP!ClearLeaves DEF SetInv
<1>2. SP!IsArray(Str!mcr_Array_deinit, Strs) /\ SP!Holds(Str!mcr_Array_deinit, << >>)
  BY StrsAre, SetSameResults, SP!DeinitIs
<1>3. /\ SP!Leaves(Str!Done(Str!mcr_Array_clear(set)), Strs, strings, << >>)
      /\ SP!Leaves(Str!Done(Str!mcr_Array_deinit), Strs, strings, << >>)
  BY <1>1, <1>2, SetDoneLeaves
<1>4. << >> \in Seq(GivenTexts)
  OBVIOUS
<1>5. CASE StringClear
  BY <1>3, <1>4, <1>5, SetCallKeeps DEF StringClear
<1>6. CASE StringDeinit
  BY <1>3, <1>4, <1>6, SetCallKeeps DEF StringDeinit
<1> QED BY <1>5, <1>6

LEMMA OrderedIs ==
  ASSUME NEW s \in Seq(GivenTexts)
  PROVE  Ordered(s) = SP!Arranged(s) /\ Ordered(s) \in Seq(GivenTexts) /\ SP!IsInOrder(Ordered(s))
<1>1. Ordered(s) = SP!Arranged(s)
  BY SetSameArranged DEF Ordered
<1> QED BY <1>1, StrsAre, SP!ArrangedIs DEF SP!IsArrangement

LEMMA SetSortLeaves ==
  ASSUME NEW a, SP!IsArray(a, Strs), NEW s \in Seq(GivenTexts), SP!Holds(a, s)
  PROVE  SP!IsArray(Str!mcr_Array_sort(a), Strs) /\ SP!Holds(Str!mcr_Array_sort(a), Ordered(s))
<1>1. s \in Seq(Strs) /\ Ordered(s) = SP!Arranged(s)
  BY StrsAre, OrderedIs
<1> QED BY <1>1, StrsAre, SetSameSort, SP!SortLeaves

LEMMA StringSortKeeps ==
  ASSUME SetInv, StringSort
  PROVE  SetInv'
<1>1. Ordered(strings) \in Seq(GivenTexts)
  BY OrderedIs DEF SetInv
<1>2. SP!IsArray(Str!mcr_Array_sort(set), Strs) /\ SP!Holds(Str!mcr_Array_sort(set), Ordered(strings))
  BY SetSortLeaves DEF SetInv
<1>3. SP!Leaves(Str!Done(Str!mcr_Array_sort(set)), Strs, strings, Ordered(strings))
  BY <1>2, SetDoneLeaves
<1> QED BY <1>1, <1>3, SetCallKeeps DEF StringSort

LEMMA GivenAre ==
  ASSUME NEW s \in Seq(GivenTexts)
  PROVE  \A i \in 1..Len(s) : s[i] \in GivenTexts /\ s[i] \in Nat
<1>1. \A i \in 1..Len(s) : s[i] \in GivenTexts
  OBVIOUS
<1> QED BY <1>1, StrsAre

LEMMA OrderIs ==
  ASSUME NEW s \in Seq(GivenTexts)
  PROVE  IsSorted(s, <=) <=> SP!IsInOrder(s)
BY GivenAre DEF IsSorted, SP!IsInOrder, LowerText

LEMMA CoversIs ==
  ASSUME NEW s \in Seq(GivenTexts), NEW one \in Texts
  PROVE  Contains(s, one) <=> SP!Covers(s, one)
<1>1. one \in Nat
  BY StringSetAssumption
<1> QED BY <1>1, GivenAre DEF Contains, SP!Covers, SP!Alike, LowerText

LEMMA SetAddLeaves ==
  ASSUME NEW a, SP!IsArray(a, Strs), NEW s \in Seq(GivenTexts), SP!Holds(a, s), SP!IsInOrder(s), NEW one \in Texts
  PROVE  /\ Contains(s, one) => SP!Leaves(mcr_StringSet_add(a, one, TRUE), Strs, s, s)
         /\ SP!Leaves(mcr_StringSet_add(a, one, FALSE), Strs, s, Ordered(Append(s, one)))
<1> DEFINE q == SP!mcr_Array_smartsize(a, 1)
           m == mcr_StringSet_append(q.arr, << one >>)
           r == mcr_StringSet_add(a, one, FALSE)
           t == Append(s, one)
<1>1. one \in GivenTexts /\ one \in Strs /\ s \in Seq(Strs) /\ << one >> \in Seq(GivenTexts) /\ t \in Seq(GivenTexts) /\ t = s \o << one >>
  <2>1. one \in GivenTexts /\ one \in Strs
    BY StrsAre
  <2> QED BY <2>1, StrsAre
<1>2. SP!Keeps(q, Strs, a)
  <2>1. 1 \in Nat
    OBVIOUS
  <2> QED BY <2>1, StrsAre, SP!SmartsizeKeeps
<1>3. q = Str!mcr_Array_smartsize(a, 1)
  BY SetSameSmartsize
<1> HIDE DEF q, t
<1>4. q.failed \in BOOLEAN /\ SP!IsArray(q.arr, Strs) /\ SP!Holds(q.arr, s) /\ SP!Leaves(q, Strs, s, s)
  BY <1>1, <1>2, SP!KeptHolds
<1>5. Contains(s, one) => SP!Leaves(mcr_StringSet_add(a, one, TRUE), Strs, s, s)
  <2> SUFFICES ASSUME Contains(s, one) PROVE mcr_StringSet_add(a, one, TRUE) = q
    BY <1>4
  <2>1. mcr_StringSet_find(a, one) # 0
    BY <1>1, CoversIs, StrsAre, SetSameFind, SP!FindCovers DEF mcr_StringSet_find
  <2> QED BY <1>3, <2>1 DEF mcr_StringSet_add
<1>6. SP!Leaves(r, Strs, s, Ordered(t))
  <2>1. r = IF q.failed THEN q ELSE IF m.failed THEN m ELSE Str!Done(Str!mcr_Array_sort(m.arr))
    BY <1>3 DEF mcr_StringSet_add, Str!Then
  <2>2. SP!Leaves(m, Strs, s, t)
    BY <1>1, <1>4, SetAppendLeaves
  <2> HIDE DEF m, r
  <2>3. CASE q.failed
    <3>1. r = q
      BY <2>1, <2>3
    <3> QED BY <1>4, <2>3, <3>1 DEF SP!Leaves
  <2>4. CASE ~ q.failed /\ m.failed
    <3>1. r = m
      BY <2>1, <2>4
    <3> QED BY <2>2, <2>4, <3>1 DEF SP!Leaves
  <2>5. CASE ~ q.failed /\ ~ m.failed
    <3>1. SP!IsArray(m.arr, Strs) /\ SP!Holds(m.arr, t)
      BY <2>2, <2>5 DEF SP!Leaves
    <3>2. SP!IsArray(Str!mcr_Array_sort(m.arr), Strs) /\ SP!Holds(Str!mcr_Array_sort(m.arr), Ordered(t))
      BY <1>1, <3>1, SetSortLeaves
    <3>3. r = Str!Done(Str!mcr_Array_sort(m.arr))
      BY <2>1, <2>5
    <3> QED BY <3>2, <3>3, SetDoneLeaves
  <2> QED BY <2>3, <2>4, <2>5
<1> QED BY <1>5, <1>6 DEF t

LEMMA StringAddKeeps ==
  ASSUME SetInv, Mishandled = {}, StringAdd
  PROVE  SetInv'
<1>1. PICK one \in Texts, unique \in BOOLEAN :
        /\ AreOrdered /\ (~ unique \/ Contains(strings, one))
        /\ StringCall(mcr_StringSet_add(set, one, unique),
                      IF unique /\ Contains(strings, one) THEN strings ELSE Ordered(Append(strings, one)))
  BY DEF StringAdd
<1>2. strings \in Seq(GivenTexts) /\ SP!IsInOrder(strings)
  BY <1>1, OrderIs DEF AreOrdered, SetInv
<1>3. Append(strings, one) \in Seq(GivenTexts)
  <2>1. one \in GivenTexts
    BY StrsAre
  <2> QED BY <1>2, <2>1
<1>4. /\ Contains(strings, one) => SP!Leaves(mcr_StringSet_add(set, one, TRUE), Strs, strings, strings)
      /\ SP!Leaves(mcr_StringSet_add(set, one, FALSE), Strs, strings, Ordered(Append(strings, one)))
  BY <1>2, SetAddLeaves DEF SetInv
<1>5. CASE unique = TRUE
  <2>1. StringCall(mcr_StringSet_add(set, one, TRUE), strings) /\ Contains(strings, one)
    BY <1>1, <1>5
  <2> QED BY <1>2, <1>4, <2>1, SetCallKeeps
<1>6. CASE unique = FALSE
  <2>1. StringCall(mcr_StringSet_add(set, one, FALSE), Ordered(Append(strings, one)))
    BY <1>1, <1>6
  <2>2. Ordered(Append(strings, one)) \in Seq(GivenTexts)
    BY <1>3, OrderedIs
  <2> QED BY <1>4, <2>1, <2>2, SetCallKeeps
<1> QED BY <1>5, <1>6

SetPurging(x, b, n) ==
  LET i == Str!mcr_Array_find(b, x) IN IF i = 0 THEN b ELSE Str!mcr_Array_remove_index(b, i - 1, 1)

SetPurges == INSTANCE FoldProofs WITH Op <- SetPurging

LEMMA SetRemoveFolds ==
  ASSUME NEW a, NEW x
  PROVE  Str!mcr_Array_remove(a, x) = SetPurges!Folded(x, a, SP!Turns(a))
BY DEF Str!mcr_Array_remove, SP!Turns, SetPurging, SetPurges!Folded, Str!OneByOne, Str!MapThenFoldSet,
   SetPurges!MapThenFoldSet, SetPurges!Greatest

LEMMA SetSameRemove ==
  ASSUME NEW a, SP!IsArray(a, Strs), SP!IsInOrder(SP!Contents(a)), NEW x \in Strs
  PROVE  Str!mcr_Array_remove(a, x) = SP!mcr_Array_remove(a, x)
<1> DEFINE w == SP!Purged(SP!Contents(a), x)
           B == SP!Removals(Strs, x, w)
           N == a.used
           turns == SP!Turns(a)
<1>1. a \in B /\ N \in Nat /\ turns \in Seq(Nat) /\ Len(turns) = N /\ \A n \in 1..N : turns[n] = n
  BY DEF SP!Removals, SP!IsArray, SP!Turns
<1> HIDE DEF w
<1>2. PICK g : SP!PurgesInTurn(g, Strs, a, x, w, SP!mcr_Array_remove(a, x))
  BY <1>1, StrsAre, SP!RemovesOneByOne
<1>3. /\ g[0] = a /\ g[N] = SP!mcr_Array_remove(a, x) /\ g \in [0..N -> B]
      /\ \A n \in 1..N : g[n] = SP!Purging(x, g[n - 1], n)
  BY <1>2 DEF SP!PurgesInTurn
<1>4. \A b, n : SetPurging(x, b, n) = SP!Purging(x, b, n)
  BY SetSameFind, SetSameRemoveIndex DEF SetPurging, SP!Purging
<1>5. SetPurges!Closed(x, B, Nat)
  BY <1>4, StrsAre, SP!PurgingClosed DEF SetPurges!Closed
<1> HIDE DEF turns, B
<1>6. PICK h \in [0..N -> B] : SetPurges!Steps(h, x, a, turns) /\ h[N] = SetPurges!Folded(x, a, turns)
  <2> HIDE DEF N
  <2> QED BY <1>1, <1>5, SetPurges!FoldSteps
<1>7. h[0] = a /\ \A n \in 1..N : h[n] = SetPurging(x, h[n - 1], n)
  BY <1>1, <1>6 DEF SetPurges!Steps
<1> DEFINE Q == {n \in 0..N : g[n] = h[n]}
<1>8. 0 \in Q
  BY <1>1, <1>3, <1>7
<1>9. ASSUME NEW n \in 0..N - 1, n \in Q PROVE n + 1 \in Q
  <2>1. n + 1 \in 1..N /\ (n + 1) - 1 = n /\ n + 1 \in 0..N
    BY <1>1
  <2> QED BY <1>3, <1>4, <1>7, <1>9, <2>1
<1> HIDE DEF Q
<1>10. \A n \in 0..N - 1 : n \in Q => n + 1 \in Q
  BY <1>9
<1>11. \A n \in 0..N : n \in Q
  <2> HIDE DEF N
  <2> QED BY <1>1, <1>8, <1>10, SetPurges!CountingUp
<1>12. g[N] = h[N]
  BY <1>1, <1>11 DEF Q
<1> QED BY <1>3, <1>6, <1>12, SetRemoveFolds DEF turns


LEMMA SetCountedIs ==
  ASSUME NEW s \in Seq(GivenTexts), NEW one \in Texts
  PROVE  /\ Cardinality({i \in 1..Len(s) : s[i] < one}) = SP!Cardinality(SP!Below(s, one))
         /\ Cardinality({i \in 1..Len(s) : s[i] = one}) = SP!Cardinality(SP!Likes(s, one))
<1>1. one \in Nat /\ \A i \in 1..Len(s) : s[i] \in Nat
  BY StringSetAssumption, GivenAre
<1>2. {i \in 1..Len(s) : s[i] < one} = SP!Below(s, one)
  BY <1>1 DEF SP!Below, LowerText
<1>3. {i \in 1..Len(s) : s[i] = one} = SP!Likes(s, one)
  BY <1>1 DEF SP!Likes, SP!Alike, LowerText
<1>4. \A S : Cardinality(S) = SP!Cardinality(S)
  BY DEF Cardinality, SP!Cardinality
<1> QED BY <1>2, <1>3, <1>4

LEMMA SetPurgedIs ==
  ASSUME NEW s \in Seq(GivenTexts), SP!IsInOrder(s), NEW one \in Texts, NEW before, NEW same,
         before = SP!Cardinality(SP!Below(s, one)), same = SP!Cardinality(SP!Likes(s, one))
  PROVE  LET t == UpTo(s, before) \o From(s, before + same) IN t = SP!Purged(s, one) /\ t \in Seq(GivenTexts)
<1>1. PICK i, j \in 0..Len(s) : SP!AsParted(s, one, i, j)
  BY StrsAre, SP!Parts
<1>2. before = i /\ same = j - i /\ i <= j
  <2>1. Len(s) \in Nat /\ i <= j
    BY <1>1 DEF SP!AsParted
  <2> QED BY <1>1, <2>1, SP!PartsCounted
<1>3. before \in 0..Len(s) /\ same \in Nat /\ same = SP!Least(before + same, Len(s)) - before
  BY <1>2 DEF SP!Least
<1>4. SP!Purged(s, one) = SP!Without(s, before, same)
  BY DEF SP!Purged
<1>5. /\ UpTo(s, before) \o From(s, before + same) = SP!Without(s, before, same)
      /\ UpTo(s, before) \o From(s, before + same) \in Seq(GivenTexts)
  BY <1>3, SetWithoutIs
<1> QED BY <1>4, <1>5

LEMMA StringRemoveKeeps ==
  ASSUME SetInv, StringRemove
  PROVE  SetInv'
<1> DEFINE before(one) == Cardinality({i \in 1..Held : strings[i] < one})
           same(one)   == Cardinality({i \in 1..Held : strings[i] = one})
           Left(one)   == UpTo(strings, before(one)) \o From(strings, before(one) + same(one))
<1>1. PICK one \in Texts : AreOrdered /\ StringCall(Str!Done(Str!mcr_Array_remove(set, one)), Left(one))
  BY DEF StringRemove
<1>2. strings \in Seq(GivenTexts) /\ strings \in Seq(Strs) /\ SP!IsInOrder(strings) /\ one \in Strs /\ SP!Contents(set) = strings
  <2>1. strings \in Seq(GivenTexts) /\ strings \in Seq(Strs) /\ one \in Strs
    BY StrsAre DEF SetInv
  <2>2. SP!IsInOrder(strings)
    BY <1>1, <2>1, OrderIs DEF AreOrdered
  <2> QED BY <2>1, <2>2, SP!HoldsIts DEF SetInv
<1>3. before(one) = SP!Cardinality(SP!Below(strings, one)) /\ same(one) = SP!Cardinality(SP!Likes(strings, one))
  BY <1>2, SetCountedIs DEF Held
<1> HIDE DEF before, same
<1>4. Left(one) = SP!Purged(strings, one) /\ Left(one) \in Seq(GivenTexts)
  BY <1>2, <1>3, SetPurgedIs
<1> HIDE DEF Left
<1> DEFINE a == Str!mcr_Array_remove(set, one)
<1>5. a = SP!mcr_Array_remove(set, one)
  BY <1>2, SetSameRemove DEF SetInv
<1>6. SP!IsArray(a, Strs) /\ SP!Holds(a, Left(one))
  BY <1>2, <1>4, <1>5, StrsAre, SP!RemoveAllLeaves DEF SetInv
<1> HIDE DEF a
<1>7. SP!Leaves(Str!Done(a), Strs, strings, Left(one))
  BY <1>6, SetDoneLeaves
<1> QED BY <1>1, <1>4, <1>7, SetCallKeeps DEF a

LEMMA SetHolds ==
  ASSUME SetInv
  PROVE  StringTypeOK /\ HoldsSet
<1>1. StringTypeOK
  BY DEF SetInv, StringTypeOK, SP!IsArray, Strs, GivenTexts
<1>2. strings \in Seq(Strs) /\ SP!Contents(set) = strings
  <2>1. strings \in Seq(Strs)
    BY StrsAre DEF SetInv
  <2> QED BY <2>1, SP!HoldsIts DEF SetInv
<1>3. Str!Contents(set) = strings
  BY <1>2, SetSameResults
<1> QED BY <1>1, <1>3 DEF HoldsSet

LEMMA SetStays ==
  ASSUME Mishandled = {}
  PROVE  StringSpec => [](StringTypeOK /\ HoldsSet)
<1>1. StringInit => SetInv
  <2>1. SP!IsArray(Str!mcr_Array_deinit, Strs) /\ SP!Holds(Str!mcr_Array_deinit, << >>) /\ << >> \in Seq(GivenTexts)
    BY StrsAre, SetSameResults, SP!DeinitIs
  <2> QED BY <2>1 DEF StringInit, SetInv
<1>2. SetInv /\ [StringNext]_setVars => SetInv'
  <2> SUFFICES ASSUME SetInv, [StringNext]_setVars PROVE SetInv'
    OBVIOUS
  <2>1. CASE UNCHANGED setVars
    BY <2>1 DEF setVars, SetInv, SP!IsArray, SP!Holds
  <2>2. CASE StringNext
    BY <2>2, StringMinusedKeeps, StringResizeKeeps, StringInsertKeeps, StringCopyKeeps, StringAppendKeeps,
       StringReplaceKeeps,
       StringSetOneKeeps, StringFillKeeps, StringRemoveIndexKeeps, StringPopKeeps, StringClearKeeps, StringSortKeeps,
       StringAddKeeps, StringRemoveKeeps, Zenon
    DEF StringNext
  <2> QED BY <2>1, <2>2
<1> QED BY <1>1, <1>2, SetHolds, PTL DEF StringSpec

-----------------------------------------------------------------------------
(* Maps                                                                    *)

MP == INSTANCE ArraysProofs WITH Before <- LowerKey, Zero <- P(0, 0), Garbage <- P(Freed, Freed),
                                 Limit <- MapLimit, FirstSize <- FirstPairs

LEMMA MapSameResize ==
  ASSUME NEW a, NEW n
  PROVE  Set!mcr_Array_resize(a, n) = MP!mcr_Array_resize(a, n)
BY Zenon DEF Set!mcr_Array_resize, MP!mcr_Array_resize, Set!Size, MP!Size, Set!mcr_Array_deinit,
   MP!mcr_Array_deinit, Set!Done, MP!Done, Set!Fails, MP!Fails, Set!Least, MP!Least, Set!Copies, MP!Copies

LEMMA MapSameMinused ==
  ASSUME NEW a, NEW n
  PROVE  Set!mcr_Array_minused(a, n) = MP!mcr_Array_minused(a, n)
BY MapSameResize DEF Set!mcr_Array_minused, MP!mcr_Array_minused, Set!Then, MP!Then, Set!Done, MP!Done

LEMMA MapSameMinsize ==
  ASSUME NEW a, NEW n
  PROVE  Set!mcr_Array_minsize(a, n) = MP!mcr_Array_minsize(a, n)
BY MapSameResize DEF Set!mcr_Array_minsize, MP!mcr_Array_minsize, Set!Size, MP!Size, Set!Done, MP!Done

LEMMA MapSameSmartsize ==
  ASSUME NEW a, NEW n
  PROVE  Set!mcr_Array_smartsize(a, n) = MP!mcr_Array_smartsize(a, n)
BY MapSameResize DEF Set!mcr_Array_smartsize, MP!mcr_Array_smartsize, Set!Size, MP!Size, Set!Done, MP!Done

LEMMA MapSameTrim ==
  ASSUME NEW a
  PROVE  Set!mcr_Array_trim(a) = MP!mcr_Array_trim(a)
BY MapSameResize DEF Set!mcr_Array_trim, MP!mcr_Array_trim

LEMMA MapSameCopy ==
  ASSUME NEW a, NEW pos, NEW src
  PROVE  Set!mcr_Array_copy(a, pos, src) = MP!mcr_Array_copy(a, pos, src)
BY MapSameMinused DEF Set!mcr_Array_copy, MP!mcr_Array_copy, Set!Then, MP!Then, Set!Done, MP!Done, Set!Fails,
   MP!Fails, Set!Written, MP!Written

LEMMA MapSameFill ==
  ASSUME NEW a, NEW pos, NEW x, NEW n
  PROVE  Set!mcr_Array_fill(a, pos, x, n) = MP!mcr_Array_fill(a, pos, x, n)
BY MapSameMinused DEF Set!mcr_Array_fill, MP!mcr_Array_fill, Set!Then, MP!Then, Set!Done, MP!Done, Set!Written,
   MP!Written, Set!Least, MP!Least, Set!Copies, MP!Copies, Set!FillsNull, MP!FillsNull, Set!Wild, MP!Wild

LEMMA MapSameMove ==
  ASSUME NEW a, NEW to, NEW from, NEW n
  PROVE  Set!mcr_Array_move(a, to, from, n) = MP!mcr_Array_move(a, to, from, n)
BY MapSameMinused, MapSameFill DEF Set!mcr_Array_move, MP!mcr_Array_move, Set!Then, MP!Then, Set!Done, MP!Done,
   Set!Fails, MP!Fails, Set!Written, MP!Written, Set!Least, MP!Least

LEMMA MapSameRemoveIndex ==
  ASSUME NEW a, NEW pos, NEW n
  PROVE  Set!mcr_Array_remove_index(a, pos, n) = MP!mcr_Array_remove_index(a, pos, n)
BY MapSameMove DEF Set!mcr_Array_remove_index, MP!mcr_Array_remove_index, Set!Least, MP!Least

LEMMA MapSameAppend ==
  ASSUME NEW a, NEW src
  PROVE  Set!mcr_Array_append(a, src) = MP!mcr_Array_append(a, src)
BY MapSameCopy, MapSameSmartsize DEF Set!mcr_Array_append, MP!mcr_Array_append, Set!Then, MP!Then, Set!Done, MP!Done

LEMMA MapSamePush ==
  ASSUME NEW a, NEW x
  PROVE  Set!mcr_Array_push(a, x) = MP!mcr_Array_push(a, x)
BY MapSameAppend DEF Set!mcr_Array_push, MP!mcr_Array_push

LEMMA MapSameArranged ==
  ASSUME NEW s
  PROVE  Set!Arranged(s) = MP!Arranged(s)
BY Zenon DEF Set!Arranged, MP!Arranged, Set!Cardinality, MP!Cardinality

LEMMA MapSameSort ==
  ASSUME NEW a
  PROVE  Set!mcr_Array_sort(a) = MP!mcr_Array_sort(a)
BY MapSameArranged DEF Set!mcr_Array_sort, MP!mcr_Array_sort, Set!Written, MP!Written, Set!Contents, MP!Contents

LEMMA MapSameResults ==
  ASSUME NEW a
  PROVE  Set!Done(a) = MP!Done(a) /\ Set!Fails(a) = MP!Fails(a) /\ Set!Size(a) = MP!Size(a)
         /\ Set!Contents(a) = MP!Contents(a) /\ Set!mcr_Array_pop(a) = MP!mcr_Array_pop(a)
         /\ Set!mcr_Array_clear(a) = MP!mcr_Array_clear(a) /\ Set!mcr_Array_deinit = MP!mcr_Array_deinit
         /\ \A m, n : Set!Least(m, n) = MP!Least(m, n) /\ Set!Copies(m, n) = MP!Copies(m, n)
BY DEF Set!Done, MP!Done, Set!Fails, MP!Fails, Set!Size, MP!Size, Set!Contents, MP!Contents, Set!mcr_Array_pop,
       MP!mcr_Array_pop, Set!mcr_Array_clear, MP!mcr_Array_clear, Set!mcr_Array_deinit, MP!mcr_Array_deinit,
       Set!Least, MP!Least, Set!Copies, MP!Copies

LEMMA MapSameCopies ==
  ASSUME NEW x, NEW n
  PROVE  Set!Copies(x, n) = MP!Copies(x, n)
BY DEF Set!Copies, MP!Copies

LEMMA MapSameFind ==
  ASSUME NEW a, NEW x
  PROVE  Set!mcr_Array_find(a, x) = MP!mcr_Array_find(a, x)
BY Zenon DEF Set!mcr_Array_find, MP!mcr_Array_find, Set!OneByOne, MP!OneByOne, Set!MapThenFoldSet, MP!MapThenFoldSet

-----------------------------------------------------------------------------
(* Maps: an array of pairs lists a function if it has each key once, in    *)
(* the order of the keys, with its value.                                  *)

Pairs == [key : MapKeys \union {Freed}, value : MapValues \union {Freed}]

PairLists(s, f) ==
  /\ \A i, j \in 1..Len(s) : i < j => s[i].key < s[j].key
  /\ \A i \in 1..Len(s) : s[i].key \in MapKeys /\ s[i].key \in DOMAIN f /\ f[s[i].key] = s[i].value
  /\ \A k \in DOMAIN f : \E i \in 1..Len(s) : s[i].key = k
  /\ f = [k \in DOMAIN f |-> f[k]]

IsMap(m, f) == MP!IsArray(m, Pairs) /\ \E s \in Seq(Pairs) : MP!Holds(m, s) /\ PairLists(s, f)

LEMMA PairsAre ==
  /\ MP!Sizes /\ P(Freed, Freed) \in Pairs /\ P(0, 0) \in Pairs /\ MP!Ordering(Pairs)
  /\ \A k \in MapKeys : \A v \in MapValues \union {Freed} :
       P(k, v) \in Pairs /\ P(k, v).key = k /\ P(k, v).value = v /\ P(k, 0) \in Pairs /\ P(k, 0).key = k
  /\ \A p \in Pairs : p.key \in Int /\ p.value \in MapValues \union {Freed}
<1>1. /\ MP!Sizes /\ P(Freed, Freed) \in Pairs /\ P(0, 0) \in Pairs
  BY MapAssumption DEF MP!Sizes, P, Pairs
<1>2. \A p \in Pairs : p.key \in Int /\ p.value \in MapValues \union {Freed}
  BY MapAssumption DEF Pairs
<1>3. MP!Ordering(Pairs)
  BY <1>2 DEF MP!Ordering, LowerKey
<1>4. ASSUME NEW k \in MapKeys, NEW v \in MapValues \union {Freed}
      PROVE  P(k, v) \in Pairs /\ P(k, v).key = k /\ P(k, v).value = v /\ P(k, 0) \in Pairs /\ P(k, 0).key = k
  BY MapAssumption DEF P, Pairs
<1> QED BY <1>1, <1>2, <1>3, <1>4

LEMMA MapDone ==
  ASSUME NEW a
  PROVE  /\ Set!Done(a).arr = a /\ ~ Set!Done(a).failed /\ Set!Done(a).failed \in BOOLEAN
         /\ Set!Fails(a).arr = a /\ Set!Fails(a).failed /\ Set!Fails(a).failed \in BOOLEAN
BY MapSameResults, MP!DoneIs, MP!FailsIs

\* Bisection finds the pair of a key.
LEMMA MapFinds ==
  ASSUME NEW m, MP!IsArray(m, Pairs), NEW s \in Seq(Pairs), MP!Holds(m, s), NEW f, PairLists(s, f), NEW k \in MapKeys
  PROVE  /\ MCR_MAP_ELEMENT(m, k) \in 0..Len(s)
         /\ MCR_MAP_ELEMENT(m, k) = 0 => k \notin DOMAIN f
         /\ MCR_MAP_ELEMENT(m, k) # 0 => /\ k \in DOMAIN f /\ s[MCR_MAP_ELEMENT(m, k)].key = k
                                         /\ m.cells[MCR_MAP_ELEMENT(m, k)] = s[MCR_MAP_ELEMENT(m, k)]
                                         /\ s[MCR_MAP_ELEMENT(m, k)].value = f[k]
<1> DEFINE i == MCR_MAP_ELEMENT(m, k)
           x == P(k, 0)
<1>1. x \in Pairs /\ x.key = k /\ k \in Int /\ MP!Ordering(Pairs)
  BY PairsAre, MapAssumption
<1>2. \A j \in 1..Len(s) : s[j] \in Pairs /\ s[j].key \in Int
  <2>1. \A j \in 1..Len(s) : s[j] \in Pairs
    OBVIOUS
  <2> QED BY <2>1, PairsAre
<1>3. i = MP!mcr_Array_find(m, x)
  BY MapSameFind DEF MCR_MAP_ELEMENT
<1>4. MP!IsInOrder(s)
  <2>1. ASSUME NEW j \in 1..Len(s), NEW n \in 1..Len(s), j < n PROVE ~ LowerKey(s[n], s[j])
    BY <1>2, <2>1 DEF PairLists, LowerKey
  <2> QED BY <2>1 DEF MP!IsInOrder
<1> HIDE DEF x, i
<1>5. MP!Finds(i, s, x)
  BY <1>1, <1>3, <1>4, MP!FindFinds
<1>6. \A j \in 1..Len(s) : MP!Alike(s[j], x) <=> s[j].key = k
  BY <1>1, <1>2 DEF MP!Alike, LowerKey
<1>7. i \in 0..Len(s) /\ (i # 0 => i \in 1..Len(s) /\ s[i].key = k) /\ (i = 0 => \A j \in 1..Len(s) : s[j].key # k)
  BY <1>5, <1>6 DEF MP!Finds
<1>8. i = 0 => k \notin DOMAIN f
  BY <1>7 DEF PairLists
<1>9. i # 0 => k \in DOMAIN f /\ s[i].value = f[k] /\ m.cells[i] = s[i]
  BY <1>7 DEF PairLists, MP!Holds
<1> QED BY <1>7, <1>8, <1>9 DEF i

\* Each key has one place, so that there are as many pairs as keys.
LEMMA KeysCounted ==
  ASSUME NEW s \in Seq(Pairs), NEW f, PairLists(s, f)
  PROVE  Cardinality(DOMAIN f) = Len(s) /\ IsFiniteSet(DOMAIN f)
<1> DEFINE g == [i \in 1..Len(s) |-> s[i].key]
<1>1. Len(s) \in Nat /\ \A i \in 1..Len(s) : s[i].key \in Int
  <2>1. \A j \in 1..Len(s) : s[j] \in Pairs
    OBVIOUS
  <2> QED BY <2>1, PairsAre
<1>2. ASSUME NEW i \in 1..Len(s), NEW j \in 1..Len(s), s[i].key = s[j].key PROVE i = j
  <2>1. i < j => s[i].key < s[j].key
    BY DEF PairLists
  <2>2. j < i => s[j].key < s[i].key
    BY DEF PairLists
  <2> QED BY <1>1, <1>2, <2>1, <2>2
<1>3. g \in Bijection(1..Len(s), DOMAIN f)
  <2>1. g \in [1..Len(s) -> DOMAIN f]
    BY DEF PairLists
  <2>2. \A i, j \in 1..Len(s) : g[i] = g[j] => i = j
    BY <1>2
  <2>3. \A k \in DOMAIN f : \E i \in 1..Len(s) : g[i] = k
    BY DEF PairLists
  <2> HIDE DEF g
  <2> QED BY <2>1, <2>2, <2>3 DEF Bijection, Injection, Surjection, IsInjective
<1> HIDE DEF g
<1>4. IsFiniteSet(1..Len(s)) /\ Cardinality(1..Len(s)) = Len(s)
  <2>1. 1 \in Int /\ Len(s) \in Int
    BY <1>1
  <2>2. /\ IsFiniteSet(1..Len(s))
        /\ Cardinality(1..Len(s)) = IF 1 > Len(s) THEN 0 ELSE Len(s) - 1 + 1
    BY <2>1, FS_Interval
  <2> QED BY <1>1, <2>2
<1>5. ExistsBijection(1..Len(s), DOMAIN f)
  BY <1>3 DEF ExistsBijection
<1> QED BY <1>4, <1>5, FS_Bijection

\* A pair gets another value.
LEMMA ListsChanged ==
  ASSUME NEW s \in Seq(Pairs), NEW f, PairLists(s, f), NEW i \in 1..Len(s), NEW v, NEW t \in Seq(Pairs), Len(t) = Len(s),
         t[i].key = s[i].key, t[i].value = v, \A j \in 1..Len(s) : j # i => t[j] = s[j]
  PROVE  PairLists(t, With(f, s[i].key, v))
<1> DEFINE k == s[i].key
           g == With(f, k, v)
<1>1. DOMAIN g = DOMAIN f /\ g = [j \in DOMAIN g |-> g[j]] /\ g[k] = v /\ \A j \in DOMAIN f : j # k => g[j] = f[j]
  BY DEF With, PairLists
<1>2. Len(s) \in Nat /\ \A j \in 1..Len(s) : s[j].key \in Int
  <2>1. \A j \in 1..Len(s) : s[j] \in Pairs
    OBVIOUS
  <2> QED BY <2>1, PairsAre
<1> HIDE DEF g
<1>3. \A j \in 1..Len(s) : t[j].key = s[j].key
  OBVIOUS
<1>4. \A j \in 1..Len(s) : j # i => s[j].key # k
  <2>1. ASSUME NEW j \in 1..Len(s), j # i, s[j].key = k PROVE FALSE
    <3>1. j < i => s[j].key < s[i].key
      BY DEF PairLists
    <3>2. i < j => s[i].key < s[j].key
      BY DEF PairLists
    <3> QED BY <1>2, <2>1, <3>1, <3>2
  <2> QED BY <2>1
<1>5. ASSUME NEW j \in 1..Len(t) PROVE t[j].key \in MapKeys /\ t[j].key \in DOMAIN g /\ g[t[j].key] = t[j].value
  <2>1. j \in 1..Len(s) /\ t[j].key = s[j].key /\ s[j].key \in MapKeys /\ s[j].key \in DOMAIN f /\ f[s[j].key] = s[j].value
    BY <1>3 DEF PairLists
  <2>2. CASE j = i
    BY <1>1, <2>1, <2>2
  <2>3. CASE j # i
    BY <1>1, <1>4, <2>1, <2>3
  <2> QED BY <2>2, <2>3
<1>6. \A j, n \in 1..Len(t) : j < n => t[j].key < t[n].key
  BY <1>3 DEF PairLists
<1>7. \A l \in DOMAIN g : \E j \in 1..Len(t) : t[j].key = l
  BY <1>1, <1>3 DEF PairLists
<1> QED BY <1>1, <1>5, <1>6, <1>7 DEF PairLists, g

\* A new pair finds its place.
LEMMA ListsMore ==
  ASSUME NEW s \in Seq(Pairs), NEW f, PairLists(s, f), NEW k \in MapKeys, k \notin DOMAIN f, NEW v \in MapValues \union {Freed},
         NEW t, MP!IsArrangement(t, Pairs, Append(s, P(k, v)))
  PROVE  t \in Seq(Pairs) /\ PairLists(t, With(f, k, v))
<1> DEFINE u == Append(s, P(k, v))
           g == With(f, k, v)
           N == Len(s)
           M == Len(u)
<1>0. P(k, v) \in Pairs /\ P(k, v).key = k /\ P(k, v).value = v /\ k \in Int
  BY PairsAre, MapAssumption
<1>1. u \in Seq(Pairs) /\ M = N + 1 /\ M \in Nat /\ N \in Nat /\ u[N + 1] = P(k, v) /\ \A j \in 1..N : u[j] = s[j]
  BY <1>0
<1>2. /\ DOMAIN g = DOMAIN f \union {k} /\ g = [j \in DOMAIN g |-> g[j]] /\ g[k] = v
      /\ \A j \in DOMAIN f : g[j] = f[j]
  BY DEF With
<1> HIDE DEF g, u
<1>3. /\ t \in Seq(Pairs) /\ Len(t) = M /\ MP!IsInOrder(t)
      /\ \E p \in [1..M -> 1..M] :
           /\ \A i, j \in 1..M : p[i] = p[j] => i = j
           /\ \A j \in 1..M : \E i \in 1..M : p[i] = j
           /\ \A i \in 1..M : t[i] = u[p[i]]
  <2>1. MP!IsArrangement(t, Pairs, u)
    BY DEF u
  <2> QED BY <2>1 DEF MP!IsArrangement
<1> HIDE DEF M
<1>4. PICK p \in [1..M -> 1..M] :
           /\ \A i, j \in 1..M : p[i] = p[j] => i = j
           /\ \A j \in 1..M : \E i \in 1..M : p[i] = j
           /\ \A i \in 1..M : t[i] = u[p[i]]
  BY <1>3
<1>5. /\ \A j \in 1..N : s[j].key \in MapKeys /\ s[j].key \in DOMAIN f /\ f[s[j].key] = s[j].value /\ s[j].key # k
      /\ \A i, j \in 1..N : i < j => s[i].key < s[j].key
  BY DEF PairLists
<1>6. \A j \in 1..M : j \in 1..N \/ j = N + 1
  BY <1>1
<1>7. \A j \in 1..M : u[j].key \in MapKeys /\ u[j].key \in DOMAIN g /\ g[u[j].key] = u[j].value /\ u[j].key \in Int
  <2> SUFFICES ASSUME NEW j \in 1..M
               PROVE  u[j].key \in MapKeys /\ u[j].key \in DOMAIN g /\ g[u[j].key] = u[j].value /\ u[j].key \in Int
    OBVIOUS
  <2>1. CASE j \in 1..N
    BY <1>1, <1>2, <1>5, <2>1, MapAssumption
  <2>2. CASE j = N + 1
    BY <1>0, <1>1, <1>2, <2>2
  <2> QED BY <1>6, <2>1, <2>2
<1>8. ASSUME NEW i \in 1..M, NEW j \in 1..M, u[i].key = u[j].key PROVE i = j
  <2>1. CASE i \in 1..N /\ j \in 1..N
    <3>1. u[i] = s[i] /\ u[j] = s[j] /\ i \in Int /\ j \in Int
      BY <1>1, <2>1
    <3>2. i < j => s[i].key < s[j].key
      BY <1>5, <2>1
    <3>3. j < i => s[j].key < s[i].key
      BY <1>5, <2>1
    <3> QED BY <1>7, <1>8, <3>1, <3>2, <3>3
  <2>2. CASE i = N + 1 /\ j \in 1..N
    BY <1>0, <1>1, <1>5, <1>8, <2>2
  <2>3. CASE i \in 1..N /\ j = N + 1
    BY <1>0, <1>1, <1>5, <1>8, <2>3
  <2> QED BY <1>6, <2>1, <2>2, <2>3
<1>9. ASSUME NEW i \in 1..M, NEW j \in 1..M, i < j PROVE t[i].key < t[j].key
  <2>1. p[i] \in 1..M /\ p[j] \in 1..M /\ t[i] = u[p[i]] /\ t[j] = u[p[j]] /\ p[i] # p[j]
    <3>1. i # j
      BY <1>9
    <3> QED BY <1>4, <3>1
  <2>2. t[i].key # t[j].key /\ t[i].key \in Int /\ t[j].key \in Int
    BY <1>7, <1>8, <2>1
  <2>3. ~ t[j].key < t[i].key
    BY <1>3, <1>9 DEF MP!IsInOrder, LowerKey
  <2> QED BY <2>2, <2>3
<1>10. ASSUME NEW j \in 1..M PROVE t[j].key \in MapKeys /\ t[j].key \in DOMAIN g /\ g[t[j].key] = t[j].value
  <2>1. p[j] \in 1..M /\ t[j] = u[p[j]]
    BY <1>4
  <2> QED BY <1>7, <2>1
<1>11. ASSUME NEW l \in DOMAIN g PROVE \E j \in 1..M : t[j].key = l
  <2>1. \E n \in 1..M : u[n].key = l
    <3>1. CASE l = k
      BY <1>0, <1>1, <3>1
    <3>2. CASE l \in DOMAIN f
      BY <1>1, <3>2 DEF PairLists
    <3> QED BY <1>2, <3>1, <3>2
  <2>2. PICK n \in 1..M : u[n].key = l
    BY <2>1
  <2>3. PICK j \in 1..M : p[j] = n
    BY <1>4
  <2> QED BY <1>4, <2>2, <2>3
<1> QED BY <1>2, <1>3, <1>9, <1>10, <1>11 DEF PairLists, g

\* A pair is removed.
LEMMA ListsLess ==
  ASSUME NEW s \in Seq(Pairs), NEW f, PairLists(s, f), NEW i \in 1..Len(s)
  PROVE  MP!Without(s, i - 1, 1) \in Seq(Pairs) /\ PairLists(MP!Without(s, i - 1, 1), Without(f, {s[i].key}))
<1> DEFINE t == MP!Without(s, i - 1, 1)
           k == s[i].key
           g == Without(f, {k})
           N == Len(s)
           At(j) == IF j < i THEN j ELSE j + 1
<1>0. N \in Nat /\ i - 1 \in 0..N /\ 1 \in 0..N - (i - 1) /\ i \in Int
  OBVIOUS
<1>1. /\ t \in Seq(Pairs) /\ Len(t) = N - 1
      /\ \A j \in 1..N - 1 : j <= i - 1 => t[j] = s[j]
      /\ \A j \in 1..N - 1 : i - 1 < j => t[j] = s[j + 1]
  BY <1>0, MP!WithoutIs
<1>2. DOMAIN g = DOMAIN f \ {k} /\ g = [j \in DOMAIN g |-> g[j]] /\ \A j \in DOMAIN g : g[j] = f[j]
  BY DEF Without, Restrict
<1> HIDE DEF t, g
<1>3. \A j \in 1..N : s[j].key \in Int
  <2>1. \A j \in 1..Len(s) : s[j] \in Pairs
    OBVIOUS
  <2> QED BY <2>1, PairsAre
<1>4. \A j \in 1..N - 1 : At(j) \in 1..N /\ At(j) # i /\ t[j] = s[At(j)]
  BY <1>0, <1>1
<1>5. \A j, n \in 1..N - 1 : j < n => At(j) < At(n)
  BY <1>0
<1>6. \A j \in 1..N : j # i => \E n \in 1..N - 1 : At(n) = j
  <2> SUFFICES ASSUME NEW j \in 1..N, j # i PROVE \E n \in 1..N - 1 : At(n) = j
    OBVIOUS
  <2>1. CASE j < i
    <3>1. j \in 1..N - 1 /\ At(j) = j
      BY <1>0, <2>1
    <3> QED BY <3>1
  <2>2. CASE j > i
    <3>1. j - 1 \in 1..N - 1 /\ At(j - 1) = j
      BY <1>0, <2>2
    <3> HIDE DEF At
    <3> QED BY <3>1
  <2> QED BY <1>0, <2>1, <2>2
<1> HIDE DEF At
<1>7. \A j \in 1..N : j # i => s[j].key # k
  <2>1. ASSUME NEW j \in 1..N, j # i, s[j].key = k PROVE FALSE
    <3>1. j < i => s[j].key < s[i].key
      BY DEF PairLists
    <3>2. i < j => s[i].key < s[j].key
      BY DEF PairLists
    <3> QED BY <1>3, <2>1, <3>1, <3>2
  <2> QED BY <2>1
<1>8. ASSUME NEW j \in 1..Len(t), NEW n \in 1..Len(t), j < n PROVE t[j].key < t[n].key
  <2>1. At(j) \in 1..N /\ At(n) \in 1..N /\ t[j] = s[At(j)] /\ t[n] = s[At(n)] /\ At(j) < At(n)
    BY <1>1, <1>4, <1>5, <1>8
  <2> QED BY <2>1 DEF PairLists
<1>9. ASSUME NEW j \in 1..Len(t) PROVE t[j].key \in MapKeys /\ t[j].key \in DOMAIN g /\ g[t[j].key] = t[j].value
  <2>1. At(j) \in 1..N /\ At(j) # i /\ t[j] = s[At(j)]
    BY <1>1, <1>4
  <2> QED BY <1>2, <1>7, <2>1 DEF PairLists
<1>10. ASSUME NEW l \in DOMAIN g PROVE \E j \in 1..Len(t) : t[j].key = l
  <2>1. PICK n \in 1..N : s[n].key = l
    BY <1>2 DEF PairLists
  <2>2. n # i
    BY <1>2, <2>1
  <2>3. PICK j \in 1..N - 1 : At(j) = n
    BY <1>6, <2>2
  <2> QED BY <1>1, <1>4, <2>1, <2>3
<1> QED BY <1>1, <1>2, <1>8, <1>9, <1>10 DEF PairLists, t, g

\* The first pairs stay.
LEMMA ListsFirst ==
  ASSUME NEW s \in Seq(Pairs), NEW f, PairLists(s, f), NEW n \in 0..Len(s)
  PROVE  SubSeq(s, 1, n) \in Seq(Pairs) /\ PairLists(SubSeq(s, 1, n), Restrict(f, {s[i].key : i \in 1..n}))
<1> DEFINE t == SubSeq(s, 1, n)
           S == {s[i].key : i \in 1..n}
           g == Restrict(f, S)
<1>1. t \in Seq(Pairs) /\ Len(t) = n /\ \A i \in 1..n : t[i] = s[i] /\ i \in 1..Len(s)
  OBVIOUS
<1>2. DOMAIN g = S /\ g = [j \in DOMAIN g |-> g[j]] /\ \A j \in S : g[j] = f[j]
  BY DEF Restrict
<1> HIDE DEF t, g
<1>3. \A i, j \in 1..Len(t) : i < j => t[i].key < t[j].key
  BY <1>1 DEF PairLists
<1>4. ASSUME NEW i \in 1..Len(t) PROVE t[i].key \in MapKeys /\ t[i].key \in DOMAIN g /\ g[t[i].key] = t[i].value
  BY <1>1, <1>2 DEF PairLists
<1>5. \A l \in DOMAIN g : \E i \in 1..Len(t) : t[i].key = l
  BY <1>1, <1>2
<1> QED BY <1>1, <1>2, <1>3, <1>4, <1>5 DEF PairLists, t, g

-----------------------------------------------------------------------------
(* What the calls leave of a map that lists a function                     *)

MapResult(r) == r = Set!Done(r.arr) \/ r = Set!Fails(r.arr)

MapLeaves(r, f, g) == MapResult(r) /\ r.failed \in BOOLEAN /\ IsMap(r.arr, IF r.failed THEN f ELSE g)

LEMMA MapDoneLeaves ==
  ASSUME NEW a, NEW f, NEW g, IsMap(a, g)
  PROVE  MapLeaves(Set!Done(a), f, g)
BY MapDone DEF MapLeaves, MapResult

LEMMA MapFailsLeaves ==
  ASSUME NEW a, NEW f, NEW g, IsMap(a, f)
  PROVE  MapLeaves(Set!Fails(a), f, g)
BY MapDone DEF MapLeaves, MapResult

LEMMA CellChanged ==
  ASSUME NEW m, MP!IsArray(m, Pairs), NEW s \in Seq(Pairs), MP!Holds(m, s), NEW i \in 1..Len(s), NEW x \in Pairs,
         NEW t, t = [s EXCEPT ![i] = x], NEW b, b = [m EXCEPT !.cells = [m.cells EXCEPT ![i] = x]]
  PROVE  /\ t \in Seq(Pairs) /\ Len(t) = Len(s) /\ t[i] = x /\ \A j \in 1..Len(s) : j # i => t[j] = s[j]
         /\ MP!IsArray(b, Pairs) /\ MP!Holds(b, t)
<1>1. t \in Seq(Pairs) /\ Len(t) = Len(s) /\ t[i] = x /\ \A j \in 1..Len(s) : j # i => t[j] = s[j]
  OBVIOUS
<1>2. /\ m \in [cells : Seq(Pairs), used : Nat] /\ Len(m.cells) \in Nat /\ m.used = Len(s) /\ m.used <= Len(m.cells)
      /\ Len(m.cells) <= MapLimit /\ i \in 1..Len(m.cells) /\ \A j \in 1..Len(s) : m.cells[j] = s[j] /\ j \in 1..Len(m.cells)
  BY DEF MP!IsArray, MP!Holds
<1> DEFINE w == [m.cells EXCEPT ![i] = x]
<1>3. w \in Seq(Pairs) /\ Len(w) = Len(m.cells) /\ w[i] = x /\ \A j \in 1..Len(m.cells) : j # i => w[j] = m.cells[j]
  BY <1>2
<1>4. b = [m EXCEPT !.cells = w]
  OBVIOUS
<1> HIDE DEF w
<1>5. b \in [cells : Seq(Pairs), used : Nat] /\ b.cells = w /\ b.used = m.used
  BY <1>2, <1>3, <1>4
<1>6. \A j \in 1..Len(s) : b.cells[j] = t[j]
  <2> SUFFICES ASSUME NEW j \in 1..Len(s) PROVE w[j] = t[j]
    BY <1>5
  <2>1. CASE j = i
    BY <1>1, <1>3, <2>1
  <2>2. CASE j # i
    BY <1>1, <1>2, <1>3, <2>2
  <2> QED BY <2>1, <2>2
<1> QED BY <1>1, <1>2, <1>3, <1>5, <1>6 DEF MP!IsArray, MP!Holds

LEMMA LastChanged ==
  ASSUME NEW E, NEW s \in Seq(E), NEW x \in E, NEW y \in E
  PROVE  Append(s, y) = [Append(s, x) EXCEPT ![Len(s) + 1] = y]
<1> DEFINE u == Append(s, y)
           p == Append(s, x)
           N == Len(s) + 1
           o == [p EXCEPT ![N] = y]
<1>1. N \in Nat /\ N >= 1 /\ \A i \in 1..N : i \in 1..Len(s) \/ i = N
  OBVIOUS
<1>2. u \in Seq(E) /\ Len(u) = N /\ u[N] = y /\ \A i \in 1..Len(s) : u[i] = s[i]
  OBVIOUS
<1>3. p \in Seq(E) /\ Len(p) = N /\ \A i \in 1..Len(s) : p[i] = s[i] /\ i # N
  OBVIOUS
<1> HIDE DEF u, p, N
<1>4. u \in [1..N -> E] /\ p \in [1..N -> E] /\ N \in 1..N
  BY <1>1, <1>2, <1>3
<1>5. o \in [1..N -> E] /\ o[N] = y /\ \A i \in 1..N : i # N => o[i] = p[i]
  BY <1>4
<1> HIDE DEF o
<1>6. \A i \in 1..N : u[i] = o[i]
  BY <1>1, <1>2, <1>3, <1>5
<1>7. u = o
  BY <1>4, <1>5, <1>6
<1> QED BY <1>7 DEF u, p, N, o

LEMMA MapMapLeaves ==
  ASSUME NEW m, NEW f, IsMap(m, f), NEW k \in MapKeys, NEW v \in MapValues \union {Freed}, NEW copied
  PROVE  MapLeaves(mcr_Map_map(m, k, v, copied), f, With(f, k, v))
<1> DEFINE r == mcr_Map_map(m, k, v, copied)
           found == MCR_MAP_ELEMENT(m, k)
           g == With(f, k, v)
<1>1. PICK s \in Seq(Pairs) : MP!IsArray(m, Pairs) /\ MP!Holds(m, s) /\ PairLists(s, f)
  BY DEF IsMap
<1>2. /\ found \in 0..Len(s) /\ (found = 0 => k \notin DOMAIN f)
      /\ found # 0 => s[found].key = k /\ m.cells[found] = s[found]
  BY <1>1, MapFinds
<1>3. Len(s) \in Nat /\ P(k, v) \in Pairs /\ P(k, v).key = k /\ P(k, v).value = v
  BY PairsAre
<1>4. CASE found # 0
  <2> DEFINE x == [s[found] EXCEPT !.value = v]
             t == [s EXCEPT ![found] = x]
             b == [m EXCEPT !.cells = [m.cells EXCEPT ![found] = x]]
  <2>1. found \in 1..Len(s) /\ s[found] \in Pairs
    BY <1>2, <1>4
  <2>2. x \in Pairs /\ x.key = k /\ x.value = v
    BY <1>2, <1>4, <2>1 DEF Pairs
  <2>3. r = Set!Done(b)
    <3>1. r = Set!Done([m EXCEPT !.cells[found].value = v])
      BY <1>4 DEF mcr_Map_map
    <3>2. [m EXCEPT !.cells[found].value = v] = b
      BY <1>2, <1>4
    <3> QED BY <3>1, <3>2
  <2> HIDE DEF x, found
  <2>4. /\ t \in Seq(Pairs) /\ Len(t) = Len(s) /\ t[found] = x /\ \A j \in 1..Len(s) : j # found => t[j] = s[j]
        /\ MP!IsArray(b, Pairs) /\ MP!Holds(b, t)
    BY <1>1, <2>1, <2>2, CellChanged
  <2> HIDE DEF t, b
  <2>5. PairLists(t, g)
    BY <1>1, <1>2, <1>4, <2>1, <2>2, <2>4, ListsChanged
  <2>6. IsMap(b, g)
    BY <2>4, <2>5 DEF IsMap
  <2> HIDE DEF r, g
  <2> QED BY <2>3, <2>6, MapDoneLeaves DEF r, g
<1>5. CASE found = 0
  <2> DEFINE q == Set!mcr_Array_push(m, P(0, 0))
             n == q.arr
             u == Append(s, P(k, v))
             c == [n EXCEPT !.cells = [n.cells EXCEPT ![Len(s) + 1] = P(k, v)]]
  <2>1. r = IF q.failed THEN q
            ELSE IF copied THEN Set!Done(Set!mcr_Array_sort([n EXCEPT !.cells[n.used] = P(k, v)]))
            ELSE Set!Fails(Set!mcr_Array_pop(n))
    BY <1>5 DEF mcr_Map_map, Set!Then
  <2>2. MP!Leaves(q, Pairs, s, Append(s, P(0, 0)))
    BY <1>1, PairsAre, MapSamePush, MP!PushLeaves
  <2>3. MapResult(q)
    <3>1. q = MP!mcr_Array_append(m, << P(0, 0) >>)
      BY MapSamePush DEF MP!mcr_Array_push
    <3> HIDE DEF q
    <3> QED BY <3>1, MP!AppendResults, MapSameResults DEF MP!IsResult, MapResult
  <2> HIDE DEF q
  <2>4. q.failed \in BOOLEAN /\ MP!IsArray(n, Pairs) /\ MP!Holds(n, IF q.failed THEN s ELSE Append(s, P(0, 0)))
    BY <2>2 DEF MP!Leaves
  <2>5. CASE q.failed
    <3>1. MP!Holds(n, s)
      BY <2>4, <2>5
    <3>2. IsMap(n, f) /\ r = q
      BY <1>1, <2>1, <2>4, <2>5, <3>1 DEF IsMap
    <3> HIDE DEF r, g
    <3> QED BY <2>3, <2>4, <2>5, <3>2 DEF MapLeaves, r, g
  <2>6. CASE ~ q.failed
    <3> DEFINE o == Append(s, P(0, 0))
    <3>0. MP!Holds(n, o)
      BY <2>4, <2>6
    <3>1. /\ o \in Seq(Pairs) /\ Len(o) = Len(s) + 1 /\ Len(s) + 1 \in 1..Len(o)
          /\ SubSeq(o, 1, Len(o) - 1) = s /\ \A j \in 1..Len(s) : o[j] = s[j]
      BY PairsAre
    <3>2. u = [o EXCEPT ![Len(s) + 1] = P(k, v)]
      BY <1>3, PairsAre, LastChanged
    <3> HIDE DEF o
    <3>3. CASE copied
      <4>1. u \in Seq(Pairs) /\ MP!IsArray(c, Pairs) /\ MP!Holds(c, u)
        <5> DEFINE j == Len(s) + 1
                   x == P(k, v)
                   w == [o EXCEPT ![j] = x]
                   b == [n EXCEPT !.cells = [n.cells EXCEPT ![j] = x]]
        <5>1. u = w /\ c = b
          BY <3>2
        <5>2. MP!IsArray(n, Pairs) /\ o \in Seq(Pairs) /\ j \in 1..Len(o) /\ x \in Pairs
          BY <1>3, <2>4, <3>1
        <5> HIDE DEF c, u, n, j, x
        <5>3. w \in Seq(Pairs) /\ MP!IsArray(b, Pairs) /\ MP!Holds(b, w)
          BY <3>0, <5>2, CellChanged
        <5> HIDE DEF b, w
        <5> QED BY <5>1, <5>3
      <4>2. r = Set!Done(Set!mcr_Array_sort(c))
        <5>1. n.used = Len(s) + 1
          BY <3>0, <3>1 DEF MP!Holds
        <5> QED BY <2>1, <2>6, <3>3, <5>1
      <4> DEFINE t == MP!Arranged(u)
                 d == Set!mcr_Array_sort(c)
      <4> HIDE DEF c
      <4>3. MP!IsArray(d, Pairs) /\ MP!Holds(d, t) /\ MP!IsArrangement(t, Pairs, u)
        <5> HIDE DEF u
        <5> QED BY <4>1, PairsAre, MapSameSort, MP!SortLeaves, MP!ArrangedIs
      <4> HIDE DEF t, d
      <4>4. t \in Seq(Pairs) /\ PairLists(t, g)
        BY <1>1, <1>2, <1>5, <4>3, ListsMore
      <4>5. IsMap(d, g)
        BY <4>3, <4>4 DEF IsMap
      <4> HIDE DEF r, g
      <4> QED BY <4>2, <4>5, MapDoneLeaves DEF r, g, d
    <3>4. CASE ~ copied
      <4>1. r = Set!Fails(MP!mcr_Array_pop(n))
        BY <2>1, <2>6, <3>4, MapSameResults
      <4>2. MP!IsArray(MP!mcr_Array_pop(n), Pairs) /\ MP!Holds(MP!mcr_Array_pop(n), s)
        BY <2>4, <3>0, <3>1, MP!PopLeaves
      <4>3. IsMap(MP!mcr_Array_pop(n), f)
        BY <1>1, <4>2 DEF IsMap
      <4> HIDE DEF r, g
      <4> QED BY <4>1, <4>3, MapFailsLeaves DEF r, g
    <3> QED BY <3>3, <3>4
  <2> QED BY <2>4, <2>5, <2>6
<1> QED BY <1>4, <1>5

\* One pair is taken out.
LEMMA PairRemoved ==
  ASSUME NEW m, MP!IsArray(m, Pairs), NEW s \in Seq(Pairs), MP!Holds(m, s), NEW f, PairLists(s, f), NEW i \in 1..Len(s)
  PROVE  /\ MP!IsArray(Set!mcr_Array_remove_index(m, i - 1, 1), Pairs)
         /\ MP!Holds(Set!mcr_Array_remove_index(m, i - 1, 1), MP!Without(s, i - 1, 1))
         /\ MP!Without(s, i - 1, 1) \in Seq(Pairs) /\ PairLists(MP!Without(s, i - 1, 1), Without(f, {s[i].key}))
<1>1. i - 1 \in 0..Len(s) /\ 1 \in Nat /\ 1 = MP!Least((i - 1) + 1, Len(s)) - (i - 1)
  BY DEF MP!Least
<1>2. /\ MP!IsArray(Set!mcr_Array_remove_index(m, i - 1, 1), Pairs)
      /\ MP!Holds(Set!mcr_Array_remove_index(m, i - 1, 1), MP!Without(s, i - 1, 1))
  BY <1>1, PairsAre, MapSameRemoveIndex, MP!RemoveLeaves
<1> QED BY <1>2, ListsLess

LEMMA MapUnmapLeaves ==
  ASSUME NEW m, NEW f, IsMap(m, f), NEW k \in MapKeys
  PROVE  IsMap(mcr_Map_unmap(m, k), Without(f, {k}))
<1> DEFINE found == MCR_MAP_ELEMENT(m, k)
           g == Without(f, {k})
<1>1. PICK s \in Seq(Pairs) : MP!IsArray(m, Pairs) /\ MP!Holds(m, s) /\ PairLists(s, f)
  BY DEF IsMap
<1>2. found \in 0..Len(s) /\ (found = 0 => k \notin DOMAIN f) /\ (found # 0 => s[found].key = k)
  BY <1>1, MapFinds
<1>3. CASE found = 0
  <2>1. g = f
    <3>1. DOMAIN f \ {k} = DOMAIN f /\ f = [j \in DOMAIN f |-> f[j]]
      BY <1>1, <1>2, <1>3 DEF PairLists
    <3> QED BY <3>1 DEF Without, Restrict
  <2>2. mcr_Map_unmap(m, k) = m
    BY <1>3 DEF mcr_Map_unmap
  <2> HIDE DEF g
  <2> QED BY <2>1, <2>2 DEF g
<1>4. CASE found # 0
  <2>1. mcr_Map_unmap(m, k) = Set!mcr_Array_remove_index(m, found - 1, 1)
    BY <1>4 DEF mcr_Map_unmap
  <2>2. found \in 1..Len(s)
    BY <1>2, <1>4
  <2> DEFINE t == MP!Without(s, found - 1, 1)
             b == Set!mcr_Array_remove_index(m, found - 1, 1)
  <2>3. MP!IsArray(b, Pairs) /\ MP!Holds(b, t) /\ t \in Seq(Pairs) /\ PairLists(t, Without(f, {s[found].key}))
    <3> HIDE DEF found
    <3> QED BY <1>1, <2>2, PairRemoved
  <2>4. s[found].key = k
    BY <1>2, <1>4
  <2> HIDE DEF t, b
  <2> QED BY <2>1, <2>3, <2>4 DEF IsMap, b
<1> QED BY <1>3, <1>4

\* There was room, or the new key had a place: the value is read where it was.
LEMMA MapRemapLeaves ==
  ASSUME NEW m, NEW f, IsMap(m, f), NEW old \in MapKeys, NEW new \in MapKeys, NEW copied, NEW read,
         new \in DOMAIN f \/ m.used < Set!Size(m)
  PROVE  MapLeaves(mcr_Map_remap(m, old, new, copied, read), f,
                   IF old \in DOMAIN f THEN Without(With(f, new, f[old]), {old}) ELSE Without(f, {new}))
<1> DEFINE r == mcr_Map_remap(m, old, new, copied, read)
           place == MCR_MAP_ELEMENT(m, old)
           moves == MCR_MAP_ELEMENT(m, new) = 0 /\ m.used = Set!Size(m)
           g == IF old \in DOMAIN f THEN Without(With(f, new, f[old]), {old}) ELSE Without(f, {new})
<1>1. PICK s \in Seq(Pairs) : MP!IsArray(m, Pairs) /\ MP!Holds(m, s) /\ PairLists(s, f)
  BY DEF IsMap
<1>2. /\ place \in 0..Len(s) /\ (place = 0 => old \notin DOMAIN f)
      /\ place # 0 => old \in DOMAIN f /\ m.cells[place] = s[place] /\ s[place].value = f[old]
  BY <1>1, MapFinds
<1>3. ~ moves
  <2>1. MCR_MAP_ELEMENT(m, new) = 0 => new \notin DOMAIN f
    BY <1>1, MapFinds
  <2>2. m.used \in Nat
    BY <1>1 DEF MP!IsArray
  <2> QED BY <2>1, <2>2
<1>4. r = IF place = 0 THEN Set!Done(mcr_Map_unmap(m, new))
          ELSE Set!Then(mcr_Map_map(m, new, m.cells[place].value, copied), LAMBDA n : Set!Done(mcr_Map_unmap(n, old)))
  <2> HIDE DEF moves
  <2>1. r = IF place = 0 THEN Set!Done(mcr_Map_unmap(m, new))
            ELSE Set!Then(mcr_Map_map(m, new, IF moves THEN read ELSE m.cells[place].value, copied),
                          LAMBDA n : Set!Done(mcr_Map_unmap(n, old)))
    BY DEF mcr_Map_remap, moves
  <2>2. (IF moves THEN read ELSE m.cells[place].value) = m.cells[place].value
    BY <1>3
  <2> HIDE DEF r, place
  <2> QED BY <2>1, <2>2
<1> HIDE DEF moves
<1>5. CASE place = 0
  <2>1. r = Set!Done(mcr_Map_unmap(m, new)) /\ g = Without(f, {new})
    BY <1>2, <1>4, <1>5
  <2>2. IsMap(mcr_Map_unmap(m, new), Without(f, {new}))
    BY MapUnmapLeaves
  <2> HIDE DEF r, g
  <2> QED BY <2>1, <2>2, MapDoneLeaves DEF r, g
<1>6. CASE place # 0
  <2> DEFINE v == f[old]
             q == mcr_Map_map(m, new, v, copied)
  <2>1. v \in MapValues \union {Freed} /\ m.cells[place].value = v
    <3>1. place \in 1..Len(s) /\ s[place] \in Pairs
      BY <1>2, <1>6
    <3> QED BY <1>2, <1>6, <3>1, PairsAre
  <2>2. r = IF q.failed THEN q ELSE Set!Done(mcr_Map_unmap(q.arr, old))
    BY <1>4, <1>6, <2>1 DEF Set!Then
  <2>3. MapLeaves(q, f, With(f, new, v))
    BY <2>1, MapMapLeaves
  <2> HIDE DEF q
  <2>4. CASE q.failed
    <3>1. r = q
      BY <2>2, <2>4
    <3> HIDE DEF r, g
    <3> QED BY <2>3, <2>4, <3>1 DEF MapLeaves, r, g
  <2>5. CASE ~ q.failed
    <3>1. IsMap(q.arr, With(f, new, v))
      BY <2>3, <2>5 DEF MapLeaves
    <3>2. IsMap(mcr_Map_unmap(q.arr, old), g)
      BY <1>2, <1>6, <3>1, MapUnmapLeaves
    <3>3. r = Set!Done(mcr_Map_unmap(q.arr, old))
      BY <2>2, <2>5
    <3> HIDE DEF r, g
    <3> QED BY <3>2, <3>3, MapDoneLeaves DEF r, g
  <2> QED BY <2>4, <2>5
<1> QED BY <1>5, <1>6

-----------------------------------------------------------------------------
(* Removing pairs by their value, from the last to the first               *)

Unmapping(v, n, i) == IF n.cells[i].value = v THEN Set!mcr_Array_remove_index(n, i - 1, 1) ELSE n

Unmaps == INSTANCE FoldProofs WITH Op <- Unmapping

MapArrays == {b \in [cells : Seq(Pairs), used : Nat] : \E f : IsMap(b, f)}
Backwards(n) == [i \in 1..n |-> n - i + 1]

LEMMA UnmapFolds ==
  ASSUME NEW m, NEW v
  PROVE  mcr_Map_unmap_value(m, v) = Unmaps!Folded(v, m, Backwards(m.used))
BY DEF mcr_Map_unmap_value, Backwards, Unmapping, Unmaps!Folded, FoldLeft, MapThenFoldSet,
       Unmaps!MapThenFoldSet, Max, Unmaps!Greatest

\* The cells behind the last pair are none of its business.
LEMMA RemovesNone ==
  ASSUME NEW m, MP!IsArray(m, Pairs), NEW i \in Nat, i > m.used
  PROVE  Set!mcr_Array_remove_index(m, i - 1, 1) = m
<1>1. i - 1 >= m.used
  BY DEF MP!IsArray
<1> QED BY <1>1 DEF Set!mcr_Array_remove_index

LEMMA UnmappingClosed ==
  ASSUME NEW v, NEW m \in MapArrays, NEW i \in Nat, i > 0
  PROVE  Unmapping(v, m, i) \in MapArrays
<1>1. PICK f : IsMap(m, f)
  BY DEF MapArrays
<1>2. PICK s \in Seq(Pairs) : MP!IsArray(m, Pairs) /\ MP!Holds(m, s) /\ PairLists(s, f)
  BY <1>1 DEF IsMap
<1>3. m.used = Len(s) /\ Len(s) \in Nat
  BY <1>2 DEF MP!Holds
<1>4. CASE i <= Len(s) /\ m.cells[i].value = v
  <2> DEFINE b == Set!mcr_Array_remove_index(m, i - 1, 1)
             t == MP!Without(s, i - 1, 1)
             g == Without(f, {s[i].key})
  <2>1. i \in 1..Len(s) /\ Unmapping(v, m, i) = b
    BY <1>4 DEF Unmapping
  <2>2. MP!IsArray(b, Pairs) /\ MP!Holds(b, t) /\ t \in Seq(Pairs) /\ PairLists(t, g)
    BY <1>2, <2>1, PairRemoved
  <2> HIDE DEF b, t, g
  <2>3. IsMap(b, g) /\ b \in [cells : Seq(Pairs), used : Nat]
    BY <2>2 DEF IsMap, MP!IsArray
  <2> QED BY <2>1, <2>3 DEF MapArrays
<1>5. CASE ~ (i <= Len(s) /\ m.cells[i].value = v)
  <2>1. i > m.used => Set!mcr_Array_remove_index(m, i - 1, 1) = m
    BY <1>2, RemovesNone
  <2>2. Unmapping(v, m, i) = m
    BY <1>3, <1>5, <2>1 DEF Unmapping
  <2> QED BY <2>2
<1> QED BY <1>4, <1>5

\* After n pairs from the end: those left of them have other values, those before are as they were.
Behind(s, n, v) == {s[i].key : i \in {j \in 1..Len(s) : j > Len(s) - n /\ s[j].value = v}}

UnmappedTo(b, s, f, n, v) ==
  /\ MP!IsArray(b, Pairs)
  /\ \E t \in Seq(Pairs) : /\ MP!Holds(b, t) /\ PairLists(t, Without(f, Behind(s, n, v)))
                           /\ Len(t) >= Len(s) - n /\ \A i \in 1..Len(s) - n : t[i] = s[i]

LEMMA UnmapsOne ==
  ASSUME NEW s \in Seq(Pairs), NEW f, PairLists(s, f), NEW v, NEW n \in 0..Len(s) - 1, NEW b, UnmappedTo(b, s, f, n, v)
  PROVE  UnmappedTo(Unmapping(v, b, Len(s) - n), s, f, n + 1, v)
<1> DEFINE i == Len(s) - n
           k == s[i].key
           S == Behind(s, n, v)
           T == Behind(s, n + 1, v)
           c == Unmapping(v, b, i)
<1>1. Len(s) \in Nat /\ n \in Nat /\ i \in 1..Len(s) /\ Len(s) - (n + 1) = i - 1 /\ i \in Nat /\ n + 1 \in Nat
  OBVIOUS
<1>2. PICK t \in Seq(Pairs) : /\ MP!Holds(b, t) /\ PairLists(t, Without(f, S)) /\ Len(t) >= i /\ \A j \in 1..i : t[j] = s[j]
  BY DEF UnmappedTo
<1>3. MP!IsArray(b, Pairs) /\ i \in 1..Len(t) /\ t[i] = s[i] /\ b.cells[i] = s[i] /\ Len(t) \in Nat
  BY <1>1, <1>2 DEF UnmappedTo, MP!Holds
<1>4. \A j \in 1..Len(s) : (j > i - 1) <=> (j > i \/ j = i)
  <2> HIDE DEF i
  <2> QED BY <1>1
<1>5. T = IF s[i].value = v THEN S \union {k} ELSE S
  BY <1>1, <1>4 DEF Behind
<1>6. c = IF s[i].value = v THEN Set!mcr_Array_remove_index(b, i - 1, 1) ELSE b
  BY <1>3 DEF Unmapping
<1> HIDE DEF i, S, T
<1>7. CASE s[i].value # v
  <2>1. c = b /\ T = S
    BY <1>5, <1>6, <1>7
  <2>2. Len(t) >= i - 1 /\ \A j \in 1..i - 1 : t[j] = s[j]
    BY <1>1, <1>2, <1>3
  <2>3. UnmappedTo(b, s, f, n + 1, v)
    BY <1>1, <1>2, <1>3, <2>1, <2>2 DEF UnmappedTo, T
  <2> QED BY <2>1, <2>3 DEF i
<1>8. CASE s[i].value = v
  <2> DEFINE u == MP!Without(t, i - 1, 1)
             d == Set!mcr_Array_remove_index(b, i - 1, 1)
             g == Without(Without(f, S), {t[i].key})
  <2>1. c = d /\ T = S \union {k}
    BY <1>5, <1>6, <1>8
  <2>2. MP!IsArray(d, Pairs) /\ MP!Holds(d, u) /\ u \in Seq(Pairs) /\ PairLists(u, g)
    BY <1>2, <1>3, PairRemoved
  <2>3. Len(u) = Len(t) - 1 /\ \A j \in 1..Len(t) - 1 : j <= i - 1 => u[j] = t[j]
    <3>1. i - 1 \in 0..Len(t) /\ 1 \in 0..Len(t) - (i - 1)
      BY <1>1, <1>3
    <3> QED BY <3>1, MP!WithoutIs
  <2>4. g = Without(f, T)
    <3>1. (DOMAIN f \ S) \ {k} = DOMAIN f \ T
      BY <2>1
    <3>2. Without(f, S) = [j \in DOMAIN f \ S |-> f[j]]
      BY DEF Without, Restrict
    <3>3. g = [j \in (DOMAIN f \ S) \ {k} |-> f[j]]
      BY <1>3, <3>2 DEF Without, Restrict
    <3> QED BY <3>1, <3>3 DEF Without, Restrict
  <2> HIDE DEF u, d, g
  <2>5. Len(u) >= i - 1 /\ \A j \in 1..i - 1 : u[j] = s[j]
    <3>1. \A j \in 1..i - 1 : j \in 1..Len(t) - 1 /\ j <= i - 1 /\ j \in 1..i
      BY <1>1, <1>3
    <3>2. \A j \in 1..i - 1 : u[j] = t[j]
      BY <2>3, <3>1
    <3>3. \A j \in 1..i - 1 : t[j] = s[j]
      BY <1>2, <3>1
    <3>4. Len(u) >= i - 1
      BY <1>1, <1>3, <2>3
    <3> QED BY <3>2, <3>3, <3>4
  <2>6. UnmappedTo(d, s, f, n + 1, v)
    BY <1>1, <2>2, <2>4, <2>5 DEF UnmappedTo, T
  <2> QED BY <2>1, <2>6 DEF i
<1> QED BY <1>7, <1>8

LEMMA MapUnmapValueLeaves ==
  ASSUME NEW m, NEW f, IsMap(m, f), NEW v
  PROVE  IsMap(mcr_Map_unmap_value(m, v), Without(f, {k \in DOMAIN f : f[k] = v}))
<1>1. PICK s \in Seq(Pairs) : MP!IsArray(m, Pairs) /\ MP!Holds(m, s) /\ PairLists(s, f)
  BY DEF IsMap
<1> DEFINE N == Len(s)
           turns == Backwards(N)
           S == Nat \ {0}
<1>2. m.used = N /\ N \in Nat /\ m \in MapArrays
  BY <1>1 DEF MP!Holds, MP!IsArray, MapArrays
<1>3. turns \in Seq(S) /\ Len(turns) = N /\ \A n \in 1..N : turns[n] = N - n + 1
  BY <1>2 DEF Backwards
<1>4. mcr_Map_unmap_value(m, v) = Unmaps!Folded(v, m, turns)
  BY <1>2, UnmapFolds
<1>5. Unmaps!Closed(v, MapArrays, S)
  BY UnmappingClosed DEF Unmaps!Closed
<1> HIDE DEF turns, S
<1>6. PICK h \in [0..Len(turns) -> MapArrays] : Unmaps!Steps(h, v, m, turns) /\ h[Len(turns)] = Unmaps!Folded(v, m, turns)
  BY <1>2, <1>3, <1>5, Unmaps!FoldSteps
<1>7. h[0] = m /\ h[N] = mcr_Map_unmap_value(m, v) /\ \A n \in 1..N : h[n] = Unmapping(v, h[n - 1], N - n + 1)
  BY <1>3, <1>4, <1>6 DEF Unmaps!Steps
<1> DEFINE Q == {n \in 0..N : UnmappedTo(h[n], s, f, n, v)}
<1>8. 0 \in Q
  <2>1. Behind(s, 0, v) = {}
    BY <1>2 DEF Behind
  <2>2. Without(f, {}) = f
    <3>1. DOMAIN f \ {} = DOMAIN f /\ f = [j \in DOMAIN f |-> f[j]]
      BY <1>1 DEF PairLists
    <3> QED BY <3>1 DEF Without, Restrict
  <2>3. N - 0 = N /\ 0 \in 0..N
    BY <1>2
  <2>4. PairLists(s, Without(f, Behind(s, 0, v)))
    BY <1>1, <2>1, <2>2
  <2>5. Len(s) >= Len(s) - 0 /\ \A j \in 1..Len(s) - 0 : s[j] = s[j]
    BY <1>2
  <2>6. UnmappedTo(m, s, f, 0, v)
    BY <1>1, <2>4, <2>5 DEF UnmappedTo
  <2> QED BY <1>7, <2>3, <2>6
<1>9. ASSUME NEW n \in 0..N - 1, n \in Q PROVE n + 1 \in Q
  <2>1. n + 1 \in 1..N /\ n + 1 \in 0..N /\ (n + 1) - 1 = n /\ N - (n + 1) + 1 = N - n
    BY <1>2
  <2>2. h[n + 1] = Unmapping(v, h[n], N - n)
    BY <1>7, <2>1
  <2> QED BY <1>1, <1>9, <2>1, <2>2, UnmapsOne
<1> HIDE DEF Q
<1>10. \A n \in 0..N : n \in Q
  <2>1. \A n \in 0..N - 1 : n \in Q => n + 1 \in Q
    BY <1>9
  <2> HIDE DEF N
  <2> QED BY <1>2, <1>8, <2>1, Unmaps!CountingUp
<1>11. UnmappedTo(h[N], s, f, N, v)
  BY <1>2, <1>10 DEF Q
<1>12. Behind(s, N, v) = {k \in DOMAIN f : f[k] = v}
  <2>1. \A j \in 1..N : j > N - N
    BY <1>2
  <2>2. Behind(s, N, v) = {s[j].key : j \in {j \in 1..N : s[j].value = v}}
    BY <2>1 DEF Behind
  <2> QED BY <1>1, <2>2 DEF PairLists
<1> QED BY <1>7, <1>11, <1>12 DEF UnmappedTo, IsMap


-----------------------------------------------------------------------------
(* More of the calls                                                       *)

LEMMA MapElementLeaves ==
  ASSUME NEW m, NEW f, IsMap(m, f), NEW k \in MapKeys, NEW copied
  PROVE  MapLeaves(mcr_Map_element_ensured(m, k, copied), f, IF k \in DOMAIN f THEN f ELSE With(f, k, 0))
<1> DEFINE found == MCR_MAP_ELEMENT(m, k)
           r == mcr_Map_element_ensured(m, k, copied)
<1>1. PICK s \in Seq(Pairs) : MP!IsArray(m, Pairs) /\ MP!Holds(m, s) /\ PairLists(s, f)
  BY DEF IsMap
<1>2. (found = 0 => k \notin DOMAIN f) /\ (found # 0 => k \in DOMAIN f)
  BY <1>1, MapFinds
<1>3. r = IF found # 0 THEN Set!Done(m) ELSE mcr_Map_map(m, k, 0, copied)
  BY DEF mcr_Map_element_ensured
<1> HIDE DEF found, r
<1>4. CASE found = 0
  <2>1. r = mcr_Map_map(m, k, 0, copied) /\ 0 \in MapValues \union {Freed}
    BY <1>3, <1>4, MapAssumption
  <2>2. MapLeaves(r, f, With(f, k, 0))
    BY <2>1, MapMapLeaves
  <2> QED BY <1>2, <1>4, <2>2 DEF r
<1>5. CASE found # 0
  <2>1. MapLeaves(r, f, f)
    BY <1>3, <1>5, MapDoneLeaves
  <2> QED BY <1>2, <1>5, <2>1 DEF r
<1> QED BY <1>4, <1>5

\* The rank of a key among the keys is its place.
LEMMA KeysRanked ==
  ASSUME NEW s \in Seq(Pairs), NEW f, PairLists(s, f), NEW i \in 1..Len(s)
  PROVE  Cardinality({j \in DOMAIN f : j < s[i].key}) = i - 1
<1> DEFINE S == {s[l].key : l \in 1..i - 1}
           t == SubSeq(s, 1, i - 1)
           g == Restrict(f, S)
<1>1. i - 1 \in 0..Len(s) /\ i \in Int /\ Len(s) \in Nat
  OBVIOUS
<1>2. \A j \in 1..Len(s) : s[j].key \in Int
  <2>1. \A j \in 1..Len(s) : s[j] \in Pairs
    OBVIOUS
  <2> QED BY <2>1, PairsAre
<1>3. t \in Seq(Pairs) /\ PairLists(t, g) /\ Len(t) = i - 1
  BY <1>1, ListsFirst
<1>4. DOMAIN g = S
  BY DEF Restrict
<1>5. Cardinality(S) = i - 1
  <2> HIDE DEF t, g, S
  <2> QED BY <1>3, <1>4, KeysCounted
<1>6. ASSUME NEW j \in DOMAIN f, j < s[i].key PROVE j \in S
  <2>1. PICK l \in 1..Len(s) : s[l].key = j
    BY DEF PairLists
  <2>2. ~ l > i /\ l # i
    <3>1. l > i => s[i].key < s[l].key
      BY <1>1 DEF PairLists
    <3> QED BY <1>2, <1>6, <2>1, <3>1
  <2>3. l \in 1..i - 1
    BY <1>1, <2>2
  <2> QED BY <2>1, <2>3
<1>7. ASSUME NEW l \in 1..i - 1 PROVE s[l].key \in DOMAIN f /\ s[l].key < s[i].key
  <2>1. l \in 1..Len(s) /\ l < i
    BY <1>1
  <2> QED BY <2>1 DEF PairLists
<1>8. {j \in DOMAIN f : j < s[i].key} = S
  BY <1>6, <1>7
<1> QED BY <1>5, <1>8

LEMMA MapResizeLeaves ==
  ASSUME NEW m, NEW f, IsMap(m, f), NEW n \in Nat
  PROVE  MapLeaves(mcr_Map_resize(m, n), f,
                   Restrict(f, {k \in DOMAIN f : Cardinality({j \in DOMAIN f : j < k}) < n}))
<1> DEFINE r == mcr_Map_resize(m, n)
           K == {k \in DOMAIN f : Cardinality({j \in DOMAIN f : j < k}) < n}
           g == Restrict(f, K)
<1>1. PICK s \in Seq(Pairs) : MP!IsArray(m, Pairs) /\ MP!Holds(m, s) /\ PairLists(s, f)
  BY DEF IsMap
<1> DEFINE M == MP!Least(n, Len(s))
           t == SubSeq(s, 1, M)
<1>2. Len(s) \in Nat /\ M \in 0..Len(s) /\ \A i \in 1..Len(s) : i - 1 < n <=> i <= M
  BY DEF MP!Least
<1>3. r = MP!mcr_Array_resize(m, n)
  BY MapSameResize DEF mcr_Map_resize
<1>4. MP!Leaves(r, Pairs, s, t)
  BY <1>1, <1>3, PairsAre, MP!ResizeLeaves
<1> HIDE DEF r, M
<1>5. K = {s[i].key : i \in 1..M}
  <2>1. \A i \in 1..Len(s) : s[i].key \in DOMAIN f /\ Cardinality({j \in DOMAIN f : j < s[i].key}) = i - 1
    BY <1>1, KeysRanked DEF PairLists
  <2>2. ASSUME NEW k \in K PROVE k \in {s[i].key : i \in 1..M}
    <3>1. PICK i \in 1..Len(s) : s[i].key = k
      BY <1>1 DEF PairLists
    <3>2. i - 1 < n
      BY <2>1, <3>1
    <3>3. i \in 1..M
      BY <1>2, <3>2
    <3> QED BY <3>1, <3>3
  <2>3. ASSUME NEW i \in 1..M PROVE s[i].key \in K
    <3>1. i \in 1..Len(s) /\ i - 1 < n
      BY <1>2
    <3> QED BY <2>1, <3>1
  <2> HIDE DEF K
  <2> QED BY <2>2, <2>3
<1>6. t \in Seq(Pairs) /\ PairLists(t, g)
  <2> HIDE DEF K
  <2>1. PairLists(t, Restrict(f, {s[i].key : i \in 1..M})) /\ t \in Seq(Pairs)
    BY <1>1, <1>2, ListsFirst
  <2> QED BY <1>5, <2>1
<1> HIDE DEF K, g, t
<1>7. MapResult(r)
  <2>1. MP!IsResult(r)
    BY <1>3, MP!Results
  <2> QED BY <2>1, MapSameResults DEF MapResult, MP!IsResult
<1>8. r.failed \in BOOLEAN /\ MP!IsArray(r.arr, Pairs) /\ MP!Holds(r.arr, IF r.failed THEN s ELSE t)
  BY <1>4 DEF MP!Leaves
<1>9. CASE r.failed
  <2>1. IsMap(r.arr, f)
    BY <1>1, <1>8, <1>9 DEF IsMap
  <2> QED BY <1>7, <1>8, <1>9, <2>1 DEF MapLeaves, r, g, K
<1>10. CASE ~ r.failed
  <2>1. IsMap(r.arr, g)
    BY <1>6, <1>8, <1>10 DEF IsMap
  <2> QED BY <1>7, <1>8, <1>10, <2>1 DEF MapLeaves, r, g, K
<1> QED BY <1>8, <1>9, <1>10

\* Only the allocation changes.
LEMMA MapKept ==
  ASSUME NEW m, NEW f, IsMap(m, f), NEW r, MapResult(r), MP!Keeps(r, Pairs, m)
  PROVE  MapLeaves(r, f, f)
<1>1. PICK s \in Seq(Pairs) : MP!IsArray(m, Pairs) /\ MP!Holds(m, s) /\ PairLists(s, f)
  BY DEF IsMap
<1>2. r.failed \in BOOLEAN /\ MP!IsArray(r.arr, Pairs) /\ MP!Holds(r.arr, s)
  BY <1>1, MP!KeptHolds
<1> QED BY <1>1, <1>2 DEF MapLeaves, IsMap

LEMMA MapAllocates ==
  ASSUME NEW m, NEW f, IsMap(m, f), NEW n \in Nat
  PROVE  /\ MapLeaves(Set!mcr_Array_minsize(m, n), f, f)
         /\ MapLeaves(Set!mcr_Array_smartsize(m, n), f, f)
         /\ MapLeaves(Set!Done(Set!mcr_Array_trim(m)), f, f)
<1>1. MP!IsArray(m, Pairs)
  BY DEF IsMap
<1>2. MapLeaves(Set!mcr_Array_minsize(m, n), f, f)
  <2> DEFINE r == Set!mcr_Array_minsize(m, n)
  <2>1. r = MP!mcr_Array_minsize(m, n)
    BY MapSameMinsize
  <2>2. MP!Keeps(r, Pairs, m)
    BY <1>1, <2>1, PairsAre, MP!MinsizeKeeps
  <2>3. MapResult(r)
    <3>1. r = MP!mcr_Array_resize(m, n) \/ r = MP!Done(m)
      BY <2>1 DEF MP!mcr_Array_minsize
    <3>2. MP!IsResult(MP!mcr_Array_resize(m, n)) /\ MP!IsResult(MP!Done(m))
      BY MP!Results
    <3> HIDE DEF r
    <3>3. MP!IsResult(r)
      BY <3>1, <3>2
    <3> QED BY <3>3, MapSameResults DEF MapResult, MP!IsResult
  <2> HIDE DEF r
  <2> QED BY <2>2, <2>3, MapKept DEF r
<1>3. MapLeaves(Set!mcr_Array_smartsize(m, n), f, f)
  <2> DEFINE r == Set!mcr_Array_smartsize(m, n)
  <2>1. r = MP!mcr_Array_smartsize(m, n)
    BY MapSameSmartsize
  <2>2. MP!Keeps(r, Pairs, m)
    BY <1>1, <2>1, PairsAre, MP!SmartsizeKeeps
  <2>3. MapResult(r)
    <3>1. MP!IsResult(r)
      BY <2>1, MP!Results
    <3> HIDE DEF r
    <3> QED BY <3>1, MapSameResults DEF MapResult, MP!IsResult
  <2> HIDE DEF r
  <2> QED BY <2>2, <2>3, MapKept DEF r
<1>4. MapLeaves(Set!Done(Set!mcr_Array_trim(m)), f, f)
  <2> DEFINE r == Set!Done(Set!mcr_Array_trim(m))
  <2>1. r = MP!Done(MP!mcr_Array_trim(m))
    BY MapSameResults, MapSameTrim
  <2>2. MP!Keeps(r, Pairs, m)
    BY <1>1, <2>1, PairsAre, MP!TrimKeeps
  <2>3. MapResult(r)
    BY MapDone DEF MapResult
  <2> HIDE DEF r
  <2> QED BY <2>2, <2>3, MapKept DEF r
<1> QED BY <1>2, <1>3, <1>4

LEMMA MapEmpties ==
  ASSUME NEW m, NEW f, IsMap(m, f), NEW e, e = [k \in {} |-> 0]
  PROVE  IsMap(mcr_Map_clear(m), e) /\ IsMap(Set!mcr_Array_deinit, e)
<1>1. MP!IsArray(m, Pairs)
  BY DEF IsMap
<1>2. PairLists(<< >>, e) /\ << >> \in Seq(Pairs)
  BY DEF PairLists
<1>3. MP!IsArray(mcr_Map_clear(m), Pairs) /\ MP!Holds(mcr_Map_clear(m), << >>)
  <2>1. mcr_Map_clear(m) = MP!mcr_Array_clear(m)
    BY DEF mcr_Map_clear, MP!mcr_Array_clear
  <2> QED BY <1>1, <2>1, MP!ClearLeaves
<1>4. MP!IsArray(Set!mcr_Array_deinit, Pairs) /\ MP!Holds(Set!mcr_Array_deinit, << >>)
  BY PairsAre, MP!DeinitIs DEF Set!mcr_Array_deinit, MP!mcr_Array_deinit
<1> QED BY <1>2, <1>3, <1>4 DEF IsMap

-----------------------------------------------------------------------------
(* Many pairs, one after the other                                         *)

Graphing(copied, r, p) == Set!Then(r, LAMBDA o : mcr_Map_map(o, p.key, p.value, copied))

Graphs == INSTANCE FoldProofs WITH Op <- Graphing

MapResults == {r \in [arr : [cells : Seq(Pairs), used : Nat], failed : BOOLEAN] : MapResult(r) /\ \E f : IsMap(r.arr, f)}
GivenPairs == [key : MapKeys, value : MapValues \union {Freed}]

LEMMA GraphFolds ==
  ASSUME NEW a, NEW pairs, NEW copied
  PROVE  FoldLeft(LAMBDA r, p : Set!Then(r, LAMBDA o : mcr_Map_map(o, p.key, p.value, copied)), Set!Done(a), pairs)
           = Graphs!Folded(copied, Set!Done(a), pairs)
BY DEF Graphing, Graphs!Folded, FoldLeft, MapThenFoldSet, Graphs!MapThenFoldSet, Max, Graphs!Greatest

LEMMA ResultsAre ==
  ASSUME NEW r, MapResult(r), r.failed \in BOOLEAN, NEW f, IsMap(r.arr, f)
  PROVE  r \in MapResults
<1>1. r.arr \in [cells : Seq(Pairs), used : Nat]
  BY DEF IsMap, MP!IsArray
<1>2. r \in [arr : [cells : Seq(Pairs), used : Nat], failed : BOOLEAN]
  <2>1. r = [arr |-> r.arr, failed |-> FALSE] \/ r = [arr |-> r.arr, failed |-> TRUE]
    BY DEF MapResult, Set!Done, Set!Fails
  <2> QED BY <1>1, <2>1
<1> QED BY <1>2 DEF MapResults

LEMMA GraphingIs ==
  ASSUME NEW copied, NEW r, NEW p
  PROVE  Graphing(copied, r, p) = IF r.failed THEN r ELSE mcr_Map_map(r.arr, p.key, p.value, copied)
BY DEF Graphing, Set!Then

LEMMA GraphingClosed ==
  ASSUME NEW copied, NEW r \in MapResults, NEW p \in GivenPairs
  PROVE  Graphing(copied, r, p) \in MapResults
<1>1. r.failed \in BOOLEAN
  BY DEF MapResults
<1>2. CASE r.failed
  BY <1>2, GraphingIs
<1>3. CASE ~ r.failed
  <2> DEFINE q == mcr_Map_map(r.arr, p.key, p.value, copied)
  <2>1. Graphing(copied, r, p) = q
    BY <1>3, GraphingIs
  <2>2. PICK f : IsMap(r.arr, f)
    BY DEF MapResults
  <2>3. p.key \in MapKeys /\ p.value \in MapValues \union {Freed}
    BY DEF GivenPairs
  <2>4. MapLeaves(q, f, With(f, p.key, p.value))
    BY <2>2, <2>3, MapMapLeaves
  <2> HIDE DEF q
  <2>5. \E g : IsMap(q.arr, g)
    BY <2>4 DEF MapLeaves
  <2>6. MapResult(q) /\ q.failed \in BOOLEAN
    BY <2>4 DEF MapLeaves
  <2> QED BY <2>1, <2>5, <2>6, ResultsAre
<1> QED BY <1>1, <1>2, <1>3

\* Two pairs after another: if it fails, both, the second or none of them are left out.
Graphed(r, f, one, two) ==
  /\ r.failed \in BOOLEAN
  /\ ~ r.failed => IsMap(r.arr, two)
  /\ r.failed => IsMap(r.arr, f) \/ IsMap(r.arr, one)

LEMMA MapGraphLeaves ==
  ASSUME NEW m, NEW f, IsMap(m, f), NEW p \in GivenPairs, NEW q \in GivenPairs, NEW copied
  PROVE  Graphed(mcr_Map_graph(m, << p, q >>, copied), f, With(f, p.key, p.value),
                 With(With(f, p.key, p.value), q.key, q.value))
<1> DEFINE pairs == << p, q >>
           r == mcr_Map_graph(m, pairs, copied)
           z == Set!mcr_Array_smartsize(m, 2)
           one == With(f, p.key, p.value)
           two == With(one, q.key, q.value)
<1>1. pairs \in Seq(GivenPairs) /\ Len(pairs) = 2 /\ pairs[1] = p /\ pairs[2] = q /\ pairs # << >>
  OBVIOUS
<1>2. p.key \in MapKeys /\ p.value \in MapValues \union {Freed} /\ q.key \in MapKeys /\ q.value \in MapValues \union {Freed}
  BY DEF GivenPairs
<1>3. MapLeaves(z, f, f)
  BY MapAllocates
<1>4. r = IF z.failed THEN z ELSE Graphs!Folded(copied, Set!Done(z.arr), pairs)
  <2> HIDE DEF pairs
  <2>1. r = Set!Then(Set!mcr_Array_smartsize(m, Len(pairs)),
                     LAMBDA n : FoldLeft(LAMBDA t, x : Set!Then(t, LAMBDA o : mcr_Map_map(o, x.key, x.value, copied)),
                                         Set!Done(n), pairs))
    BY <1>1 DEF mcr_Map_graph
  <2>2. Set!mcr_Array_smartsize(m, Len(pairs)) = z
    BY <1>1
  <2> HIDE DEF z
  <2>3. r = IF z.failed THEN z
            ELSE FoldLeft(LAMBDA t, x : Set!Then(t, LAMBDA o : mcr_Map_map(o, x.key, x.value, copied)),
                          Set!Done(z.arr), pairs)
    <3> HIDE DEF r
    <3> QED BY <2>1, <2>2 DEF Set!Then
  <2> HIDE DEF r
  <2> QED BY <2>3, GraphFolds
<1> HIDE DEF r, z, pairs
<1>5. CASE z.failed
  <2>1. r = z /\ IsMap(z.arr, f) /\ z.failed \in BOOLEAN
    BY <1>3, <1>4, <1>5 DEF MapLeaves
  <2> HIDE DEF one, two
  <2> QED BY <1>5, <2>1 DEF Graphed, r, pairs, one, two
<1>6. CASE ~ z.failed
  <2> DEFINE base == Set!Done(z.arr)
  <2>1. IsMap(z.arr, f) /\ r = Graphs!Folded(copied, base, pairs)
    BY <1>3, <1>4, <1>6 DEF MapLeaves
  <2>2. base.arr = z.arr /\ ~ base.failed /\ base.failed \in BOOLEAN
    BY MapDone
  <2>3. base \in MapResults
    <3>1. MapResult(base)
      BY MapDone DEF MapResult
    <3> HIDE DEF base
    <3> QED BY <2>1, <2>2, <3>1, ResultsAre
  <2> HIDE DEF base
  <2>4. Graphs!Closed(copied, MapResults, GivenPairs)
    BY GraphingClosed DEF Graphs!Closed
  <2>5. PICK h \in [0..Len(pairs) -> MapResults] : Graphs!Steps(h, copied, base, pairs) /\ h[Len(pairs)] = Graphs!Folded(copied, base, pairs)
    BY <1>1, <2>3, <2>4, Graphs!FoldSteps
  <2>6. h[0] = base /\ h[2] = r /\ h[1] = Graphing(copied, h[0], p) /\ h[2] = Graphing(copied, h[1], q)
    <3>1. h[0] = base /\ h[2] = r /\ \A n \in 1..2 : h[n] = Graphing(copied, h[n - 1], pairs[n])
      BY <1>1, <2>1, <2>5 DEF Graphs!Steps
    <3>2. 1 \in 1..2 /\ 2 \in 1..2 /\ 1 - 1 = 0 /\ 2 - 1 = 1
      OBVIOUS
    <3> QED BY <1>1, <3>1, <3>2
  <2> DEFINE first == mcr_Map_map(z.arr, p.key, p.value, copied)
             second == mcr_Map_map(first.arr, q.key, q.value, copied)
  <2>7. h[1] = first /\ MapLeaves(first, f, one)
    <3>1. h[1] = first
      BY <2>2, <2>6, GraphingIs
    <3> QED BY <1>2, <2>1, <3>1, MapMapLeaves
  <2>8. r = IF first.failed THEN first ELSE second
    BY <2>6, <2>7, GraphingIs
  <2>9. CASE first.failed
    <3>1. r = first /\ first.failed \in BOOLEAN /\ IsMap(first.arr, f)
      BY <2>7, <2>8, <2>9 DEF MapLeaves
    <3> HIDE DEF first, one, two
    <3> QED BY <2>9, <3>1 DEF Graphed, r, pairs, one, two
  <2>10. CASE ~ first.failed
    <3>1. r = second /\ IsMap(first.arr, one)
      BY <2>7, <2>8, <2>10 DEF MapLeaves
    <3>2. MapLeaves(second, one, two)
      <4> HIDE DEF first, one
      <4> QED BY <1>2, <3>1, MapMapLeaves
    <3> HIDE DEF second, one, two
    <3>3. Graphed(r, f, one, two)
      BY <3>1, <3>2 DEF Graphed, MapLeaves
    <3> QED BY <3>3 DEF r, pairs, one, two
  <2> QED BY <2>9, <2>10
<1> QED BY <1>5, <1>6

-----------------------------------------------------------------------------
(* The calls                                                               *)

MapInv == IsMap(map, mapping)

\* A key leads to its value, and a key that has none nowhere.
LEMMA MapLeads ==
  ASSUME NEW m, NEW f, IsMap(m, f)
  PROVE  /\ DOMAIN f \subseteq MapKeys /\ m.used = Cardinality(DOMAIN f)
         /\ \A k \in MapKeys : IF k \in DOMAIN f THEN Leads(m, k, f[k]) ELSE MCR_MAP_ELEMENT(m, k) = 0
<1>1. PICK s \in Seq(Pairs) : MP!IsArray(m, Pairs) /\ MP!Holds(m, s) /\ PairLists(s, f)
  BY DEF IsMap
<1>2. DOMAIN f \subseteq MapKeys
  BY <1>1 DEF PairLists
<1>3. m.used = Cardinality(DOMAIN f)
  BY <1>1, KeysCounted DEF MP!Holds
<1>4. ASSUME NEW k \in MapKeys
      PROVE  IF k \in DOMAIN f THEN Leads(m, k, f[k]) ELSE MCR_MAP_ELEMENT(m, k) = 0
  <2> DEFINE i == MCR_MAP_ELEMENT(m, k)
  <2>1. /\ i \in 0..Len(s) /\ (i = 0 => k \notin DOMAIN f)
        /\ i # 0 => k \in DOMAIN f /\ m.cells[i] = s[i] /\ s[i].value = f[k]
    BY <1>1, MapFinds
  <2> QED BY <2>1 DEF Leads
<1> QED BY <1>2, <1>3, <1>4

LEMMA MapCallKeeps ==
  ASSUME NEW result, NEW expected, MapCall(result, expected), MapLeaves(result, mapping, expected)
  PROVE  MapInv'
<1>1. map' = result.arr /\ mapping' = IF result.failed THEN mapping ELSE expected
  BY DEF MapCall
<1> QED BY <1>1 DEF MapLeaves, MapInv

LEMMA MapMapKeeps ==
  ASSUME MapInv, MapMap
  PROVE  MapInv'
<1>1. PICK k \in MapKeys, v \in MapValues, copied \in BOOLEAN :
        MapCall(mcr_Map_map(map, k, v, copied), With(mapping, k, v))
  BY DEF MapMap
<1>2. MapLeaves(mcr_Map_map(map, k, v, copied), mapping, With(mapping, k, v))
  BY MapMapLeaves DEF MapInv
<1> QED BY <1>1, <1>2, MapCallKeeps

LEMMA MapRemapKeeps ==
  ASSUME ~ RemapsGrow, MapInv, MapRemap
  PROVE  MapInv'
<1> DEFINE Awaited(old, new) == IF old \in DOMAIN mapping THEN Without(With(mapping, new, mapping[old]), {old})
                                 ELSE Without(mapping, {new})
<1>1. PICK old \in MapKeys, new \in MapKeys, copied \in BOOLEAN, read \in MapValues \union {Freed} :
        /\ old # new
        /\ RemapsGrow \/ new \in DOMAIN mapping \/ map.used < Set!Size(map)
        /\ MapCall(mcr_Map_remap(map, old, new, copied, read), Awaited(old, new))
  BY DEF MapRemap
<1>2. MapLeaves(mcr_Map_remap(map, old, new, copied, read), mapping, Awaited(old, new))
  BY <1>1, MapRemapLeaves DEF MapInv
<1> HIDE DEF Awaited
<1> QED BY <1>1, <1>2, MapCallKeeps

LEMMA MapUnmapKeeps ==
  ASSUME MapInv, MapUnmap
  PROVE  MapInv'
<1>1. PICK k \in MapKeys : MapCall(Set!Done(mcr_Map_unmap(map, k)), Without(mapping, {k}))
  BY DEF MapUnmap
<1>2. IsMap(mcr_Map_unmap(map, k), Without(mapping, {k}))
  BY MapUnmapLeaves DEF MapInv
<1> QED BY <1>1, <1>2, MapDoneLeaves, MapCallKeeps

LEMMA MapUnmapValueKeeps ==
  ASSUME MapInv, MapUnmapValue
  PROVE  MapInv'
<1>1. PICK v \in MapValues :
        MapCall(Set!Done(mcr_Map_unmap_value(map, v)), Without(mapping, {k \in DOMAIN mapping : mapping[k] = v}))
  BY DEF MapUnmapValue
<1>2. IsMap(mcr_Map_unmap_value(map, v), Without(mapping, {k \in DOMAIN mapping : mapping[k] = v}))
  BY MapUnmapValueLeaves DEF MapInv
<1> QED BY <1>1, <1>2, MapDoneLeaves, MapCallKeeps

LEMMA MapGraphKeeps ==
  ASSUME MapInv, MapGraph
  PROVE  MapInv'
<1> DEFINE Graph(k1, k2, v1, v2, copied) == mcr_Map_graph(map, << P(k1, v1), P(k2, v2) >>, copied)
           One(k1, v1) == With(mapping, k1, v1)
           Two(k1, k2, v1, v2) == With(With(mapping, k1, v1), k2, v2)
<1>1. PICK k1 \in MapKeys, k2 \in MapKeys, v1 \in MapValues, v2 \in MapValues, copied \in BOOLEAN :
        /\ map' = Graph(k1, k2, v1, v2, copied).arr
        /\ mapping' = IF ~ Graph(k1, k2, v1, v2, copied).failed THEN Two(k1, k2, v1, v2)
                      ELSE IF Leads(Graph(k1, k2, v1, v2, copied).arr, k1, v1) THEN One(k1, v1)
                      ELSE mapping
  BY DEF MapGraph
<1> DEFINE r == Graph(k1, k2, v1, v2, copied)
           one == With(mapping, k1, v1)
           two == With(one, k2, v2)
<1>2. map' = r.arr /\ mapping' = IF ~ r.failed THEN two ELSE IF Leads(r.arr, k1, v1) THEN one ELSE mapping
  BY <1>1
<1>3. Graphed(r, mapping, one, two)
  <2> DEFINE p == P(k1, v1)
             q == P(k2, v2)
  <2>1. p \in GivenPairs /\ q \in GivenPairs /\ p.key = k1 /\ p.value = v1 /\ q.key = k2 /\ q.value = v2
    BY DEF P, GivenPairs
  <2>2. r = mcr_Map_graph(map, << p, q >>, copied)
    OBVIOUS
  <2> HIDE DEF r, p, q
  <2>3. Graphed(r, mapping, With(mapping, p.key, p.value), With(With(mapping, p.key, p.value), q.key, q.value))
    BY <2>1, <2>2, MapGraphLeaves DEF MapInv
  <2> QED BY <2>1, <2>3
<1> HIDE DEF r, two
<1>4. CASE ~ r.failed
  BY <1>2, <1>3, <1>4 DEF Graphed, MapInv
<1>5. CASE r.failed
  <2>1. IsMap(r.arr, mapping) \/ IsMap(r.arr, one)
    BY <1>3, <1>5 DEF Graphed
  <2>2. one[k1] = v1 /\ k1 \in DOMAIN one
    BY DEF With
  <2>3. CASE Leads(r.arr, k1, v1)
    <3>1. mapping' = one
      BY <1>2, <1>5, <2>3
    <3>2. ASSUME IsMap(r.arr, mapping) PROVE mapping = one
      <4>1. MCR_MAP_ELEMENT(r.arr, k1) # 0 /\ r.arr.cells[MCR_MAP_ELEMENT(r.arr, k1)].value = v1
        BY <2>3 DEF Leads
      <4>2. k1 \in DOMAIN mapping /\ mapping[k1] = v1
        BY <3>2, <4>1, MapLeads DEF Leads
      <4>3. mapping = [k \in DOMAIN mapping |-> mapping[k]]
        BY <3>2 DEF IsMap, PairLists
      <4>4. DOMAIN mapping \union {k1} = DOMAIN mapping
        BY <4>2
      <4> QED BY <4>2, <4>3, <4>4 DEF With
    <3> HIDE DEF one
    <3> QED BY <1>2, <2>1, <3>1, <3>2 DEF MapInv
  <2>4. CASE ~ Leads(r.arr, k1, v1)
    <3>1. ~ IsMap(r.arr, one)
      <4> HIDE DEF one
      <4>1. ASSUME IsMap(r.arr, one) PROVE Leads(r.arr, k1, one[k1])
        BY <2>2, <4>1, MapLeads
      <4> QED BY <2>2, <2>4, <4>1
    <3> HIDE DEF one
    <3>2. mapping' = mapping /\ map' = r.arr
      BY <1>2, <1>5, <2>4
    <3> QED BY <2>1, <3>1, <3>2 DEF MapInv
  <2> QED BY <2>3, <2>4
<1>6. r.failed \in BOOLEAN
  BY <1>3 DEF Graphed
<1> QED BY <1>4, <1>5, <1>6

LEMMA MapElementKeeps ==
  ASSUME MapInv, MapElementEnsured
  PROVE  MapInv'
<1>1. PICK k \in MapKeys, copied \in BOOLEAN :
        MapCall(mcr_Map_element_ensured(map, k, copied), IF k \in DOMAIN mapping THEN mapping ELSE With(mapping, k, 0))
  BY DEF MapElementEnsured
<1>2. MapLeaves(mcr_Map_element_ensured(map, k, copied), mapping, IF k \in DOMAIN mapping THEN mapping ELSE With(mapping, k, 0))
  BY MapElementLeaves DEF MapInv
<1> QED BY <1>1, <1>2, MapCallKeeps

LEMMA MapResizeKeeps ==
  ASSUME MapInv, MapResize
  PROVE  MapInv'
<1> DEFINE Kept(n) == Restrict(mapping, {k \in DOMAIN mapping : Cardinality({j \in DOMAIN mapping : j < k}) < n})
<1>1. PICK n \in 0..MapLimit + 1 : MapCall(mcr_Map_resize(map, n), Kept(n))
  BY DEF MapResize
<1>2. n \in Nat
  BY MapAssumption
<1>3. MapLeaves(mcr_Map_resize(map, n), mapping, Kept(n))
  BY <1>2, MapResizeLeaves DEF MapInv
<1> HIDE DEF Kept
<1> QED BY <1>1, <1>3, MapCallKeeps

LEMMA MapAllocationsKeep ==
  ASSUME MapInv, MapMinsize \/ MapTrim \/ MapClear \/ MapDeinit
  PROVE  MapInv'
<1>1. CASE MapMinsize
  <2>1. PICK n \in 0..MapLimit + 1 : MapCall(Set!mcr_Array_minsize(map, n), mapping)
    BY <1>1 DEF MapMinsize
  <2>2. n \in Nat
    BY MapAssumption
  <2> QED BY <2>1, <2>2, MapAllocates, MapCallKeeps DEF MapInv
<1>2. CASE MapTrim
  <2>1. MapLeaves(Set!Done(Set!mcr_Array_trim(map)), mapping, mapping)
    <3>1. 0 \in Nat
      OBVIOUS
    <3> QED BY <3>1, MapAllocates DEF MapInv
  <2> QED BY <1>2, <2>1, MapCallKeeps DEF MapTrim
<1>3. CASE MapClear \/ MapDeinit
  <2> DEFINE e == [k \in {} |-> 0]
  <2>1. MapCall(Set!Done(mcr_Map_clear(map)), e) \/ MapCall(Set!Done(Set!mcr_Array_deinit), e)
    BY <1>3 DEF MapClear, MapDeinit
  <2>2. IsMap(mcr_Map_clear(map), e) /\ IsMap(Set!mcr_Array_deinit, e)
    BY MapEmpties DEF MapInv
  <2> HIDE DEF e
  <2>3. MapLeaves(Set!Done(mcr_Map_clear(map)), mapping, e) /\ MapLeaves(Set!Done(Set!mcr_Array_deinit), mapping, e)
    BY <2>2, MapDoneLeaves
  <2> QED BY <2>1, <2>3, MapCallKeeps
<1> QED BY <1>1, <1>2, <1>3

LEMMA MapHolds ==
  ASSUME MapInv
  PROVE  MapTypeOK /\ HoldsMapping
<1>1. MapTypeOK
  <2>1. map \in [cells : Seq(Pairs), used : Nat]
    BY DEF MapInv, IsMap, MP!IsArray
  <2>2. DOMAIN mapping \subseteq MapKeys
    BY MapLeads DEF MapInv
  <2> QED BY <2>1, <2>2 DEF MapTypeOK, Pairs
<1>2. HoldsMapping
  BY MapLeads DEF MapInv, HoldsMapping
<1> QED BY <1>1, <1>2

LEMMA MapStays ==
  ASSUME ~ RemapsGrow
  PROVE  MapSpec => [](MapTypeOK /\ HoldsMapping)
<1>1. MapInit => MapInv
  <2> SUFFICES ASSUME MapInit PROVE MapInv
    OBVIOUS
  <2>1. map = Set!mcr_Array_deinit /\ mapping = [k \in {} |-> 0]
    BY DEF MapInit
  <2>2. MP!IsArray(map, Pairs) /\ MP!Holds(map, << >>)
    BY <2>1, PairsAre, MP!DeinitIs DEF Set!mcr_Array_deinit, MP!mcr_Array_deinit
  <2>3. PairLists(<< >>, mapping) /\ << >> \in Seq(Pairs)
    BY <2>1 DEF PairLists
  <2> QED BY <2>2, <2>3 DEF MapInv, IsMap
<1>2. MapInv /\ [MapNext]_mapVars => MapInv'
  <2> SUFFICES ASSUME MapInv, [MapNext]_mapVars PROVE MapInv'
    OBVIOUS
  <2>1. CASE UNCHANGED mapVars
    BY <2>1 DEF mapVars, MapInv
  <2>2. CASE MapNext
    BY <2>2, MapMapKeeps, MapRemapKeeps, MapUnmapKeeps, MapUnmapValueKeeps, MapGraphKeeps, MapElementKeeps,
       MapResizeKeeps,
       MapAllocationsKeep, Zenon DEF MapNext
  <2> QED BY <2>1, <2>2
<1> QED BY <1>1, <1>2, MapHolds, PTL DEF MapSpec
==============================================================================
