------------------------------ MODULE Strings ------------------------------
(***************************************************************************)
(* src/util/mcrstring.c on one string, and a caller of it. A string is an  *)
(* array of characters that ends with a null character, or has no element  *)
(* at all; text remembers the characters that the caller expects.          *)
(***************************************************************************)
EXTENDS ArrayCalls

CONSTANT
  Mistreats  \* calls are made that lose text or its end, too

\* 8 elements, of which a character and the end take two.
ASSUME TextAssumption == FirstCells >= 2

VARIABLES
  str,   \* the string
  text   \* its characters, without the one that ends it

textVars == << str, text >>

End == 0
Letters == Elements \ {End}
Words == {s \in Sources : \A i \in DOMAIN s : s[i] # End}
Indices == 0..Len(text) + 1

\* What is written behind the allocation is lost.
Put(cells, pos, src) ==
  [i \in DOMAIN cells |-> IF i - pos \in DOMAIN src THEN src[i - pos] ELSE cells[i]]

Ended(a, pos) == [a EXCEPT !.cells = Put(@, pos, << End >>), !.used = pos + 1]

mcr_String_clear(a) == IF A!Size(a) > 0 THEN Ended(a, 0) ELSE a

\* The characters from pos on are moved with the end; there must be room for it.
mcr_String_insert(a, pos, s) ==
  LET Inside(b) ==
        IF pos >= b.used THEN A!Fails(b)
        ELSE A!Done([cells |-> Put(Put(b.cells, pos + Len(s), SubSeq(b.cells, pos + 1, b.used)), pos, s),
                     used  |-> b.used + Len(s)])
  IN IF s = << >> THEN A!Done(a)
     ELSE A!Then(A!mcr_Array_smartsize(a, Len(s)),
                 LAMBDA b : Inside(IF b.used = 0 THEN mcr_String_clear(b) ELSE b))

mcr_String_append(a, s) == mcr_String_insert(a, IF a.used = 0 THEN 0 ELSE a.used - 1, s)

mcr_String_remove_index(a, pos, count) ==
  IF a.used = 0 \/ pos >= a.used - 1 THEN a
  ELSE IF pos + count >= a.used - 1 THEN Ended(a, pos)
  ELSE [cells |-> Put(a.cells, pos, SubSeq(a.cells, pos + count + 1, a.used)),
        used  |-> a.used - count]

mcr_String_push(a, c) ==
  LET Pushed(b, n) == Ended([b EXCEPT !.cells = Put(@, n - 1, << c >>)], n)
  IN A!Then(A!mcr_Array_smartsize(a, 1),
            LAMBDA b : A!Done(Pushed(b, IF b.used = 0 THEN 1 ELSE b.used)))

mcr_String_pop(a) == IF a.used = 0 \/ a.cells[1] = End THEN a ELSE Ended(a, a.used - 2)

mcr_String_nreplace(a, s) ==
  A!Then(A!mcr_Array_resize(a, Len(s) + 1), LAMBDA b : A!Done(Ended([b EXCEPT !.cells = Put(@, 0, s)], Len(s))))

\* Where characters are written that begin at pos: behind the last one at most.
Begins(a, pos) == IF a.used = 0 THEN 0 ELSE IF pos >= a.used THEN a.used - 1 ELSE pos

\* The end is written behind as many characters as were copied, wherever they are.
mcr_String_copy_str(a, pos, s) ==
  LET first == Begins(a, pos)
  IN IF s = << >> THEN A!Done(a)
     ELSE A!Then(A!mcr_Array_minused(a, first + Len(s) + 1),
                 LAMBDA b : A!Done([b EXCEPT !.cells = Put(Put(@, first, s), Len(s), << End >>)]))

mcr_String_set(a, pos, c) ==
  IF a.used = 0 \/ pos >= a.used - 1 THEN mcr_String_push(a, c)
  ELSE A!Done([a EXCEPT !.cells = Put(@, pos, << c >>)])

mcr_String_fill(a, pos, count, c) ==
  LET first == Begins(a, pos)
  IN A!Then(A!mcr_Array_minused(a, first + count + 1),
            LAMBDA b : A!Done(Ended([b EXCEPT !.cells = Put(@, first, A!Copies(c, count))], b.used - 1)))

\* Within one string.
mcr_String_move(a, to, from, count) ==
  LET n     == A!Least(count, a.used - 1 - from)
      first == A!Least(to, a.used - 1)
  IN IF count = 0 \/ a.used = 0 \/ a.cells[1] = End \/ from >= a.used - 1 THEN A!Done(a)
     ELSE A!Then(A!mcr_Array_minused(a, first + n + 1),
                 LAMBDA b : A!Done(Ended([b EXCEPT !.cells = Put(@, first, SubSeq(@, from + 1, from + n))],
                                         b.used - 1)))

-----------------------------------------------------------------------------
(* The calls *)

TextInit == str = A!mcr_Array_deinit /\ text = << >>

Says(result, expected) ==
  /\ str' = result.arr
  /\ text' = IF result.failed THEN text ELSE expected

\* A string that has no end yet gets room for n characters and not for the end.
RoomFor(n) == Mistreats \/ str.used > 0 \/ A!Size(str) > n \/ (n = 1 /\ A!Size(str) = 0)

TextInsert == \E pos \in Indices, s \in Words :
  RoomFor(Len(s)) /\ Says(mcr_String_insert(str, pos, s), Inserted(text, pos, s))

TextAppend == \E s \in Words : RoomFor(Len(s)) /\ Says(mcr_String_append(str, s), text \o s)

TextPush == \E c \in Letters : RoomFor(1) /\ Says(mcr_String_push(str, c), Append(text, c))

TextSet == \E pos \in Indices, c \in Letters :
  RoomFor(1) /\ Says(mcr_String_set(str, pos, c), Overwritten(text, pos, << c >>))

TextRemoveIndex == \E pos \in Indices, count \in Counts :
  Says(A!Done(mcr_String_remove_index(str, pos, count)), Removed(text, pos, count))

TextPop == Says(A!Done(mcr_String_pop(str)), First(text, Len(text) - 1))

TextReplace == \E s \in Words : Says(mcr_String_nreplace(str, s), s)

\* Only a copy that covers the text ends where the text does.
TextCopy == \E pos \in Indices, s \in Words :
  /\ Mistreats \/ (Begins(str, pos) = 0 /\ Len(s) >= Len(text))
  /\ Says(mcr_String_copy_str(str, pos, s), Overwritten(text, Begins(str, pos), s))

TextFill == \E pos \in Indices, count \in Counts, c \in Letters :
  Says(mcr_String_fill(str, pos, count, c), Overwritten(text, pos, A!Copies(c, count)))

TextMove == \E to, from \in Indices, count \in Counts :
  Says(mcr_String_move(str, to, from, count),
       Overwritten(text, to, First(After(text, from), count)))

\* mcr_String_resize, which cuts off the end, is called with room for the text.
TextResize == \E n \in 0..CellLimit :
  (Mistreats \/ n >= Len(text)) /\ Says(A!mcr_Array_resize(str, n + 1), First(text, n))

TextMinlen == \E n \in 0..CellLimit : Says(A!mcr_Array_minsize(str, n + 1), text)
TextTrim == Says(A!Done(A!mcr_Array_trim(str)), text)
TextClear == Says(A!Done(mcr_String_clear(str)), << >>)
TextDeinit == Says(A!Done(A!mcr_Array_deinit), << >>)

TextNext ==
  \/ TextInsert \/ TextAppend \/ TextPush \/ TextSet \/ TextRemoveIndex \/ TextPop \/ TextReplace
  \/ TextCopy \/ TextFill \/ TextMove \/ TextResize \/ TextMinlen \/ TextTrim \/ TextClear \/ TextDeinit

-----------------------------------------------------------------------------
TextTypeOK ==
  /\ str \in [cells : Seq(Elements \union {Unwritten}), used : Nat]
  /\ text \in Seq(Letters)

\* A string holds the characters that its caller put there and ends behind them, with
\* every cell of it inside the allocation, whatever was inserted, moved or refused.
HoldsText ==
  IF str.used = 0 THEN text = << >> ELSE str.used <= A!Size(str) /\ A!Contents(str) = Append(text, End)
=============================================================================
