------------------------------ MODULE Registry ------------------------------
(***************************************************************************)
(* src/util/registry.c: the interfaces of signals and of triggers, by      *)
(* their ids and by their names. An interface is registered once, and its  *)
(* names are given to no other interface. Allocations fail.                *)
(***************************************************************************)
EXTENDS Integers, Sequences, SequencesExt, FiniteSets, Functions

CONSTANTS
  Interfaces,
  TypeNames,  \* texts of names
  NoName,     \* a text that was not set
  NoId        \* the id of an interface that was never registered

VARIABLES
  iset,      \* the interfaces, by their ids
  ids,       \* the id that each interface has
  names,     \* the name of every id, as far as names were set
  name_map,  \* from names to interfaces
  halfNamed  \* interfaces whose last naming failed

registryVars == << iset, ids, names, name_map, halfNamed >>

RegistryTypeOK ==
  /\ iset \in Seq(Interfaces) /\ ids \in [Interfaces -> Nat \union {NoId}]
  /\ names \in Seq(TypeNames \union {NoName})
  /\ DOMAIN name_map \subseteq TypeNames /\ halfNamed \subseteq Interfaces

RegistryInit ==
  /\ iset = << >> /\ ids = [x \in Interfaces |-> NoId]
  /\ names = << >> /\ name_map = << >> /\ halfNamed = {}

IsRegistered(x) == \E i \in DOMAIN iset : iset[i] = x
FreeName(name, x) == name \in DOMAIN name_map => name_map[name] = x

\* The names up to that of an id: those that were not set have no text.
Stretched(n, id) == n \o [i \in 1..id + 1 - Len(n) |-> NoName]

\* The names with the name of an id, as far as it is set.
Naming(n, id, name) == IF name = NoName THEN n ELSE [Stretched(n, id) EXCEPT ![id + 1] = name]

\* Fault: the name goes to the next id.
NextId(n, id, name) == Naming(n, id + 1, name)
mcr_reg_set_name(n, id, name) == Naming(n, id, name)

\* mcr_reg_set_names: the name of the id is set, then mapped, then the names to
\* add are. A call that runs out of memory stops before, between or after these; there
\* may be a place for the name by then.
SetNames(id, x, name, added) ==
  LET given == (added \union {name}) \ {NoName}
  IN \E sets \in BOOLEAN, mapped \in SUBSET given :
       /\ name \in mapped \union {NoName} \/ mapped = {}
       /\ ~ sets => name # NoName /\ mapped = {}
       /\ names' \in IF sets THEN {mcr_reg_set_name(names, id, name)} ELSE {names, Stretched(names, id)}
       /\ name_map' = [m \in mapped \union DOMAIN name_map |-> IF m \in mapped THEN x ELSE name_map[m]]
       /\ halfNamed' = IF ~ sets \/ name = NoName THEN halfNamed
                       ELSE IF name \in mapped THEN halfNamed \ {x} ELSE halfNamed \union {x}

\* The interface keeps its id if one of its names fails.
Register == \E x \in Interfaces, name \in TypeNames \union {NoName}, added \in SUBSET TypeNames :
  /\ ~ IsRegistered(x) /\ \A m \in added \union {name} : FreeName(m, x)
  /\ iset' = Append(iset, x)
  /\ ids' = [ids EXCEPT ![x] = Len(iset)]
  /\ SetNames(Len(iset), x, name, added)

SetAndAddNames == \E x \in Interfaces, name \in TypeNames \union {NoName}, added \in SUBSET TypeNames :
  /\ IsRegistered(x) /\ \A m \in added \union {name} : FreeName(m, x)
  /\ SetNames(ids[x], x, name, added)
  /\ UNCHANGED << iset, ids >>

\* The old name keeps its mapping: at last its interface is given no name,
\* which changes nothing.
RegRename == \E old \in DOMAIN name_map, new \in TypeNames :
  /\ IsRegistered(name_map[old]) /\ FreeName(new, name_map[old])
  /\ SetNames(ids[name_map[old]], name_map[old], new, {})
  /\ UNCHANGED << iset, ids >>

\* The interfaces keep the ids they had.
RegClear ==
  /\ iset' = << >> /\ names' = << >> /\ name_map' = << >> /\ halfNamed' = {}
  /\ UNCHANGED ids

RegistryNext == Register \/ SetAndAddNames \/ RegRename \/ RegClear

RegistrySpec == RegistryInit /\ [][RegistryNext]_registryVars

-----------------------------------------------------------------------------
(* Properties *)

mcr_reg_from_id(id) == iset[id + 1]

\* Past the ids that have a place for a name, mcr_reg_name reads the text of a null pointer,
\* unless there is no place at all. An interface that was registered without a name can
\* have such an id.
CanBeNamed(id) == names = << >> \/ id < Len(names)
mcr_reg_name(id) == IF names = << >> THEN NoName ELSE names[id + 1]

\* "The id of that interface should also be the same index" (registry.h), and an
\* interface is found by its name, if it can be asked for that and unless naming it failed
\* half-way. Every name that was ever given, even one that was given up for another, leads
\* to an interface that is registered. Ids outlive mcr_reg_clear, and names are set in any
\* order of the ids.
IdsAndNamesAgree ==
  /\ \A x \in Interfaces : IsRegistered(x) =>
       /\ mcr_reg_from_id(ids[x]) = x
       /\ CanBeNamed(ids[x]) =>
            \/ mcr_reg_name(ids[x]) = NoName \/ x \in halfNamed
            \/ mcr_reg_name(ids[x]) \in DOMAIN name_map /\ name_map[mcr_reg_name(ids[x])] = x
  /\ \A name \in DOMAIN name_map : IsRegistered(name_map[name])
=============================================================================
