----------------------------- MODULE StringSets -----------------------------
(***************************************************************************)
(* src/util/string_set.c and a caller of it. A string set is an array of   *)
(* strings; strings remembers the sequence of texts that the caller        *)
(* expects. Texts are numbers in their order, and 0 is an empty string.    *)
(* Memory for the array can run out; the texts themselves are always       *)
(* copied.                                                                 *)
(***************************************************************************)
EXTENDS Integers, Sequences, SequencesExt, FiniteSets

CONSTANTS
  Texts,        \* positive numbers
  SetLimit,     \* most strings that the allocator grants
  FirstStrings, \* strings of the first allocation
  CopiesUpTo,   \* most texts that one call copies
  Mishandled    \* functions that are called on what they mishandle, too

ASSUME StringSetAssumption ==
  Texts \subseteq Nat \ {0} /\ SetLimit \in Nat /\ FirstStrings \in Nat /\ CopiesUpTo \in Nat

VARIABLES
  set,     \* the array of strings
  strings  \* the texts that the caller expects

setVars == << set, strings >>

ZeroBytes == -1   \* a string structure of null bytes
UnknownBytes == -2
Empty == 0        \* an initialized string without text
LowerText(x, y) == x < y

Str == INSTANCE Arrays WITH Before <- LowerText, Zero <- ZeroBytes, Garbage <- UnknownBytes,
                            Limit <- SetLimit, FirstSize <- FirstStrings

\* mcr_String_replace of the strings from pos on: it does not change used.
Replaced(a, pos, texts) == [a EXCEPT !.cells = Str!Written(@, pos, texts)]

\* Fault: strings that are made to reach a size are not initialized.
Uninitialized(a, n) == Str!mcr_Array_minused(a, n)
mcr_StringSet_minused(a, n) == Str!mcr_Array_minfill(a, n, Empty)

\* Strings past newSize are removed; the set never grows here.
mcr_StringSet_resize(a, n) == IF n < a.used THEN Str!mcr_Array_resize(a, n) ELSE Str!Done(a)

\* Filling with empty strings does not stop behind the inserted ones.
mcr_StringSet_insert(a, pos, texts) ==
  LET count == Len(texts)
  IN IF count = 0 THEN Str!Done(a)
     ELSE IF pos > a.used THEN Str!Fails(a)
     ELSE Str!Then(Str!Then(Str!mcr_Array_insert(a, pos, Str!Copies(ZeroBytes, count)),
                            LAMBDA b : Str!mcr_Array_fill(b, pos, Empty, count)),
                   LAMBDA b : Str!Done(Replaced(b, pos, texts)))

mcr_StringSet_copy(a, pos, texts) ==
  IF texts = << >> THEN Str!Done(a)
  ELSE Str!Then(mcr_StringSet_minused(a, pos + Len(texts)),
                LAMBDA b : Str!Done(Replaced(b, pos, texts)))

mcr_StringSet_append(a, texts) == mcr_StringSet_copy(a, a.used, texts)

mcr_StringSet_replace(a, texts) ==
  IF texts = << >> THEN Str!Done(Str!mcr_Array_deinit)
  ELSE Str!Then(mcr_StringSet_resize(a, Len(texts)),
                LAMBDA b : mcr_StringSet_copy(b, 0, texts))

\* Strings up to pos are made, the one at pos is not.
mcr_StringSet_set(a, pos, text) ==
  Str!Then(mcr_StringSet_minused(a, pos), LAMBDA b : Str!Done(Replaced(b, pos, << text >>)))

\* The end of the range is the string at pos + count, none if it is the last.
mcr_StringSet_fill(a, pos, count, text) ==
  Str!Then(mcr_StringSet_minused(a, pos + count),
           LAMBDA b : Str!Done(IF pos + count < b.used
                               THEN Replaced(b, pos, Str!Copies(text, count)) ELSE b))

mcr_StringSet_find(a, text) == Str!mcr_Array_find(a, text)

mcr_StringSet_add(a, text, unique) ==
  LET Added(b) == IF unique THEN mcr_StringSet_set(b, b.used, text)
                  ELSE mcr_StringSet_append(b, << text >>)
      Sized    == Str!mcr_Array_smartsize(a, 1)
  IN IF unique /\ mcr_StringSet_find(a, text) # 0 THEN Sized
     ELSE Str!Then(Str!Then(Sized, Added), LAMBDA b : Str!Done(Str!mcr_Array_sort(b)))

-----------------------------------------------------------------------------
(* The calls *)

TextSources == UNION {[1..n -> Texts] : n \in 0..CopiesUpTo}
Held == Len(strings)

StringTypeOK ==
  /\ set \in [cells : Seq(Texts \union {Empty, ZeroBytes, UnknownBytes}), used : Nat]
  /\ strings \in Seq(Texts \union {Empty})

StringInit == set = Str!mcr_Array_deinit /\ strings = << >>

From(s, n) == SubSeq(s, n + 1, Len(s))
UpTo(s, n) == SubSeq(s, 1, Str!Least(n, Len(s)))
AtLeast(s, n) == s \o Str!Copies(Empty, n - Len(s))
Over(s, pos, texts) ==
  LET t == AtLeast(s, pos) IN UpTo(t, pos) \o texts \o From(t, pos + Len(texts))
Ordered(s) == Str!Arranged(s)
AreOrdered == IsSorted(strings, <=)

StringCall(result, expected) ==
  /\ set' = result.arr
  /\ strings' = IF result.failed THEN strings ELSE expected

StringMinused == \E n \in 0..SetLimit + 1 :
  StringCall(mcr_StringSet_minused(set, n), AtLeast(strings, n))

StringResize == \E n \in 0..SetLimit :
  StringCall(mcr_StringSet_resize(set, n), UpTo(strings, n))

StringInsert == \E pos \in 0..Held, texts \in TextSources :
  /\ "insert" \in Mishandled \/ pos = Held
  /\ StringCall(mcr_StringSet_insert(set, pos, texts),
                UpTo(strings, pos) \o texts \o From(strings, pos))

StringCopy == \E pos \in 0..Held + 1, texts \in TextSources :
  StringCall(mcr_StringSet_copy(set, pos, texts),
             IF texts = << >> THEN strings ELSE Over(strings, pos, texts))

StringAppend == \E texts \in TextSources :
  StringCall(mcr_StringSet_append(set, texts), strings \o texts)

StringReplace == \E texts \in TextSources :
  StringCall(mcr_StringSet_replace(set, texts), texts)

StringSetOne == \E pos \in 0..Held, text \in Texts :
  /\ IF "set" \in Mishandled THEN pos < Str!Size(set) ELSE pos < Held
  /\ StringCall(mcr_StringSet_set(set, pos, text), Over(strings, pos, << text >>))

StringFill == \E pos \in 0..Held, count \in 0..CopiesUpTo, text \in Texts :
  /\ "fill" \in Mishandled \/ pos + count < Held
  /\ StringCall(mcr_StringSet_fill(set, pos, count, text),
                Over(strings, pos, Str!Copies(text, count)))

StringRemoveIndex == \E pos \in 0..Held, count \in 0..CopiesUpTo :
  StringCall(Str!Done(Str!mcr_Array_remove_index(set, pos, count)),
             UpTo(strings, pos) \o From(strings, pos + count))

StringPop == StringCall(Str!Done(Str!mcr_Array_pop(set)), UpTo(strings, Held - 1))
StringClear == StringCall(Str!Done(Str!mcr_Array_clear(set)), << >>)
StringDeinit == StringCall(Str!Done(Str!mcr_Array_deinit), << >>)
StringSort == StringCall(Str!Done(Str!mcr_Array_sort(set)), Ordered(strings))

StringAdd == \E text \in Texts, unique \in BOOLEAN :
  /\ AreOrdered
  /\ ~unique \/ Contains(strings, text) \/ ("add" \in Mishandled /\ Held > 0)
  /\ StringCall(mcr_StringSet_add(set, text, unique),
                IF unique /\ Contains(strings, text) THEN strings
                ELSE Ordered(Append(strings, text)))

\* The texts that are equal stand together.
StringRemove == \E text \in Texts :
  LET before == Cardinality({i \in 1..Held : strings[i] < text})
      same   == Cardinality({i \in 1..Held : strings[i] = text})
  IN /\ AreOrdered
     /\ StringCall(Str!Done(Str!mcr_Array_remove(set, text)),
                   UpTo(strings, before) \o From(strings, before + same))

StringNext ==
  \/ StringMinused \/ StringResize \/ StringInsert \/ StringCopy \/ StringAppend
  \/ StringReplace \/ StringSetOne \/ StringFill \/ StringRemoveIndex \/ StringPop
  \/ StringClear \/ StringDeinit \/ StringSort \/ StringAdd \/ StringRemove

StringSpec == StringInit /\ [][StringNext]_setVars

-----------------------------------------------------------------------------
(* Properties *)

\* A string set holds the texts that its caller gave it, and every string that
\* counts as used was initialized: a string of unwritten or null bytes would
\* be freed, or never hold a text, later on.
HoldsSet == Str!Contents(set) = strings

\* A text that was added to a sorted set is found in it (mcr_intercept_add_grab
\* relies on it). The documentation makes mcr_StringSet_add an mcr_Array_add,
\* which adds the elements that are not in the array yet.
AddedIsFound ==
  AreOrdered => \A text \in Texts : Contains(strings, text) => mcr_StringSet_find(set, text) # 0
=============================================================================
