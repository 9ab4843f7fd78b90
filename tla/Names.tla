------------------------------- MODULE Names -------------------------------
(***************************************************************************)
(* src/util/string_index.c with the names of keys (src/standard/key.c) and *)
(* of echoes (src/standard/hid_echo.c), which are the same functions on    *)
(* two tables. A table has the name of every code (a string set) and the   *)
(* code of every name (a map, see Maps); codes may have further names.     *)
(* Allocations fail: each call is granted what its step needs, or not.     *)
(* A new context is given the names of src/standard/linux/p_standard.c.    *)
(* The caller gives a name to one code at a time, asks for codes that are  *)
(* in the table, and renames to a different name.                          *)
(***************************************************************************)
EXTENDS Integers, Sequences, SequencesExt, FiniteSetsExt, Functions

CONSTANTS
  Labels,    \* texts of names
  NoText,    \* the text of a string that was deinitialized
  AnyText,   \* the text that the name of any code has at first
  Codes      \* codes that may be named, 0..n; the "any" code is not one

ASSUME LabelsAssumption == AnyText \in Labels /\ NoText \notin Labels
ASSUME CodesAssumption == Cardinality(Codes) \in Nat \ {0} /\ Codes = 0..Cardinality(Codes) - 1

VARIABLES
  table,    \* names by code, and codes by name
  any,      \* key_name_any, echo_name_any: the name of any code
  unsure    \* codes whose last naming failed half-way or removed a name alone

nameVars == << table, any, unsure >>

CodeCount(t) == Len(t.names)   \* mcr_Key_count, mcr_HidEcho_count
NamingSteps == {"set", "map"}    \* the steps of a call that need memory

StringIndex_name(t, i) == IF CodeCount(t) = 0 THEN NoText ELSE t.names[i + 1]
KeyName(t, code) ==
  LET own == StringIndex_name(t, code) IN IF own = NoText THEN any ELSE own

Succeeds(t) == [table |-> t, failed |-> FALSE]
Breaks(t) == [table |-> t, failed |-> TRUE]
Thereby(result, Continue(_)) == IF result.failed THEN result ELSE Continue(result.table)

Reaching(names, n) == names \o [i \in 1..Max({0, n - Len(names)}) |-> NoText]
Forget(t, texts) == [t EXCEPT !.codes = Restrict(@, DOMAIN @ \ texts)]
Leading(t, i) == {n \in DOMAIN t.codes : t.codes[n] = i}
Unnamed(t, i) == IF i < CodeCount(t) THEN [t EXCEPT !.names[i + 1] = NoText] ELSE t

\* Mapping a name that is mapped needs no memory.
MapName(t, i, text, granted) ==
  IF text \in DOMAIN t.codes \/ "map" \in granted
  THEN Succeeds([t EXCEPT !.codes = [n \in DOMAIN t.codes \union {text} |-> IF n = text THEN i ELSE t.codes[n]]])
  ELSE Breaks(t)

\* Fault: the name of the code is set, the code of the name is not.
OneWay(t, i, text, granted) ==
  Succeeds([t EXCEPT !.names = [Reaching(@, i + 1) EXCEPT ![i + 1] = text]])

\* The name is in the set before it is mapped, and stays there if that fails.
mcr_StringIndex_map(t, i, text, granted) ==
  IF i >= CodeCount(t) /\ "set" \notin granted THEN Breaks(t)
  ELSE MapName([t EXCEPT !.names = [Reaching(@, i + 1) EXCEPT ![i + 1] = text]], i, text, granted)

\* Names are mapped until one fails.
mcr_StringIndex_add(t, i, texts, granted) ==
  FoldLeft(LAMBDA result, text : Thereby(result, LAMBDA u : MapName(u, i, text, granted)),
           Succeeds(t), texts)

\* Removing one name looks it up by the address of its string: nothing is found.
mcr_StringIndex_unmap(t, i, all) ==
  Unnamed(IF all THEN Forget(t, Leading(t, i)) ELSE t, i)

mcr_StringIndex_unmap_string(t, text, all) ==
  IF text \notin DOMAIN t.codes THEN t
  ELSE Forget(mcr_StringIndex_unmap(t, t.codes[text], all), {text})

\* An unknown old name unmaps the new one; no new name removes the old one.
mcr_StringIndex_remap(t, old, new, granted) ==
  CASE new = NoText            -> Succeeds(Forget(t, {old}))
    [] new # NoText /\ old \notin DOMAIN t.codes -> Succeeds(mcr_StringIndex_unmap_string(t, new, TRUE))
    [] OTHER -> Thereby(mcr_StringIndex_map(t, t.codes[old], new, granted),
                        LAMBDA u : Succeeds(Forget(u, {old})))

\* Both codes are in the table; all names of the current one lead to the new.
mcr_StringIndex_reindex(t, i, j) ==
  IF i = j THEN t
  ELSE [names |-> [t.names EXCEPT ![j + 1] = t.names[i + 1], ![i + 1] = NoText],
        codes |-> [n \in DOMAIN t.codes |-> IF t.codes[n] = i THEN j ELSE t.codes[n]]]

\* Fault: the names of the codes that are removed stay mapped.
CutsSet(t, n) == [t EXCEPT !.names = SubSeq(@, 1, Min({n, Len(@)}))]

\* A set does not grow here; no size at all deinitializes the table.
mcr_StringIndex_resize(t, n) ==
  [names |-> SubSeq(t.names, 1, Min({n, CodeCount(t)})),
   codes |-> IF n = 0 THEN << >>
             ELSE Restrict(t.codes, {m \in DOMAIN t.codes : ~ t.codes[m] \in n..CodeCount(t) - 1})]

mcr_StringIndex_clear(t) == [names |-> << >>, codes |-> << >>]

mcr_Key_set_name(t, code, text, granted) ==
  IF text = NoText THEN Succeeds(mcr_StringIndex_unmap(t, code, TRUE))
  ELSE mcr_StringIndex_map(t, code, text, granted)

mcr_Key_map(t, code, text, added, granted) ==
  Thereby(mcr_StringIndex_map(t, code, text, granted),
          LAMBDA u : mcr_StringIndex_add(u, code, added, granted))

\* An unnamed code gives the name of any code away.
mcr_Key_rekey(t, code, new, granted) ==
  IF code = new THEN Succeeds(t)
  ELSE Thereby(mcr_Key_set_name(t, new, KeyName(t, code), granted),
               LAMBDA u : mcr_Key_set_name(u, code, NoText, granted))

-----------------------------------------------------------------------------
(* The calls *)

NamesTypeOK ==
  /\ table.names \in Seq(Labels \union {NoText}) /\ CodeCount(table) <= Cardinality(Codes)
  /\ DOMAIN table.codes \subseteq Labels
  /\ \A n \in DOMAIN table.codes : table.codes[n] \in Codes
  /\ any \in Labels \union {NoText} /\ unsure \subseteq Codes

NamesInit == table = [names |-> << >>, codes |-> << >>] /\ any = AnyText /\ unsure = {}

\* A name that no other code has, so that the code may be given it.
FreeLabel(text, code) == text \in DOMAIN table.codes => table.codes[text] = code
KnownCodes == {c \in Codes : c < CodeCount(table)}

\* A call about a code: it leaves the code unsure if it changed the table and failed.
NameCall(result, code) ==
  /\ table' = result.table
  /\ unsure' = IF ~ result.failed THEN unsure \ {code}
               ELSE IF result.table = table THEN unsure ELSE unsure \union {code}
  /\ UNCHANGED any

\* A call that gives no code a name.
Unnaming(result) == table' = result /\ UNCHANGED << any, unsure >>

SetName == \E code \in Codes, text \in Labels \union {NoText}, granted \in SUBSET NamingSteps :
  /\ IF text = NoText THEN code \in KnownCodes \/ CodeCount(table) = 0 ELSE FreeLabel(text, code)
  /\ NameCall(mcr_Key_set_name(table, code, text, granted), code)

\* Only the first names of a code are mapped without an error when code is MCR_ECHO_ANY.
SetAny == \E text \in Labels \union {NoText} : any' = text /\ UNCHANGED << table, unsure >>

AddNames == \E code \in KnownCodes, text \in Labels, granted \in SUBSET NamingSteps :
  /\ FreeLabel(text, code)
  /\ Unnaming(mcr_StringIndex_add(table, code, << text >>, granted).table)

MapNames == \E code \in Codes, text, added \in Labels, granted \in SUBSET NamingSteps :
  /\ FreeLabel(text, code) /\ FreeLabel(added, code)
  /\ NameCall(mcr_Key_map(table, code, text, << added >>, granted), code)

\* The name that moves belongs to the old code, or to no other than the new one. In a table
\* without names the old code comes before the new one: a later one is behind the set then.
Reecho == \E code, new \in Codes, granted \in SUBSET NamingSteps :
  /\ code # new /\ (code \in KnownCodes \/ (CodeCount(table) = 0 /\ code < new))
  /\ LET moved == KeyName(table, code)
     IN /\ FreeLabel(moved, code) \/ FreeLabel(moved, new)
        /\ moved # NoText \/ new \in KnownCodes
  /\ NameCall(mcr_Key_rekey(table, code, new, granted), new)

Rename == \E old, new \in Labels, granted \in SUBSET NamingSteps :
  /\ old # new
  /\ IF old \in DOMAIN table.codes
     THEN /\ FreeLabel(new, table.codes[old])
          /\ NameCall(mcr_StringIndex_remap(table, old, new, granted), table.codes[old])
     ELSE Unnaming(mcr_StringIndex_remap(table, old, new, granted).table)

\* Renaming to nothing leaves the code with a name that does not lead to it.
RenameToNothing == \E old \in DOMAIN table.codes :
  /\ table' = mcr_StringIndex_remap(table, old, NoText, {}).table
  /\ unsure' = unsure \union {table.codes[old]}
  /\ UNCHANGED any

UnmapCode == \E code \in KnownCodes, all \in BOOLEAN : Unnaming(mcr_StringIndex_unmap(table, code, all))
UnmapText == \E text \in Labels, all \in BOOLEAN :
  Unnaming(mcr_StringIndex_unmap_string(table, text, all))

\* A code that was unsure gives its name to the new code, and its doubt.
Reindex == \E code, new \in KnownCodes :
  /\ table' = mcr_StringIndex_reindex(table, code, new)
  /\ unsure' = IF code \in unsure THEN unsure \union {new} ELSE unsure \ {new}
  /\ UNCHANGED any

ResizeNames == \E n \in 0..Cardinality(Codes) : Unnaming(mcr_StringIndex_resize(table, n))
ClearNames == Unnaming(mcr_StringIndex_clear(table))

-----------------------------------------------------------------------------
(* The names a new context gets *)

LastCode == Cardinality(Codes) - 1
Upwards == [i \in 1..LastCode + 1 |-> i - 1]

\* In a table of names, a code has one of its own or none; the last code has one.
Tables == {given \in [Codes -> Labels \union {NoText}] :
  /\ given[LastCode] # NoText
  /\ \A c, d \in Codes : given[c] = given[d] => c = d \/ given[c] = NoText}

\* A code that the table leaves empty is given no name: that is no error.
GiveName(t, code, text, granted) ==
  IF text = NoText THEN Succeeds(t) ELSE mcr_StringIndex_map(t, code, text, granted)

\* The codes are named in turn, up to one that fails; after the last one, all names that codes
\* have besides are added, or some.
LoadInTurn(codes, Name(_, _, _), Finish(_)) == \E done \in 0..Len(codes) :
  LET named == FoldLeft(LAMBDA t, code : Name(t, code, NamingSteps).table, table, SubSeq(codes, 1, done))
  IN IF done = Len(codes) THEN Unnaming(Finish(named))
     ELSE \E granted \in SUBSET NamingSteps :
            LET result == Name(named, codes[done + 1], granted)
            IN /\ result.failed
               /\ table' = result.table
               /\ unsure' = IF result.table.names = named.names THEN {} ELSE {codes[done + 1]}
               /\ UNCHANGED any

\* Keys are named from the last one down, and have their further names at the end.
add_key_names == \E given \in Tables, code \in Codes, text \in Labels, granted \in SUBSET NamingSteps :
  /\ \A c \in Codes : given[c] # text
  /\ LoadInTurn(Reverse(Upwards), LAMBDA t, c, g : GiveName(t, c, given[c], g),
                LAMBDA t : mcr_StringIndex_add(t, code, << text >>, granted).table)

\* Every echo has a name, and its further names at once.
add_echo_names == \E given \in Tables, code \in Codes, text \in Labels :
  /\ \A c \in Codes : given[c] \notin {text, NoText}
  /\ LoadInTurn(Upwards,
                LAMBDA t, c, g : mcr_Key_map(t, c, given[c], IF c = code THEN << text >> ELSE << >>, g),
                LAMBDA t : t)

\* mcr_standard_platform_load_contract, for a context that has no names yet
LoadNames ==
  /\ CodeCount(table) = 0 /\ table.codes = << >>
  /\ add_key_names \/ add_echo_names

NamesNext ==
  \/ LoadNames
  \/ SetName \/ SetAny \/ AddNames \/ MapNames \/ Reecho \/ Rename \/ RenameToNothing
  \/ UnmapCode \/ UnmapText \/ Reindex \/ ResizeNames \/ ClearNames

NamesSpec == NamesInit /\ [][NamesNext]_nameVars

-----------------------------------------------------------------------------
(* Properties *)

\* A code is found by the name it has, whatever was renamed, moved, removed or
\* resized before, unless naming it failed half-way: a serialized signal names
\* its key, and is loaded by that name. And names lead to codes that are in the
\* table, even those of a naming that failed: mcr_Key_name does not check the
\* code it is asked for, and reads behind the set for any other.
FoundByName ==
  /\ \A code \in KnownCodes \ unsure :
       LET own == StringIndex_name(table, code)
       IN own # NoText => own \in DOMAIN table.codes /\ table.codes[own] = code
  /\ \A n \in DOMAIN table.codes : table.codes[n] \in KnownCodes
=============================================================================
