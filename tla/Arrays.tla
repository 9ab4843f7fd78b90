------------------------------- MODULE Arrays -------------------------------
(***************************************************************************)
(* The functions of src/util/array.c on one array. An array is its         *)
(* allocated cells and the number of them that are used; a cell that the   *)
(* allocator has handed out and nobody has written holds Garbage. The      *)
(* allocator grants at most Limit cells. Positions count from 0 as in the  *)
(* code, sequences from 1. A function returns the array it leaves behind,  *)
(* and whether it failed.                                                  *)
(***************************************************************************)
EXTENDS Integers, Sequences, FiniteSets, Folds

CONSTANTS
  Before(_, _), \* compare(lhs, rhs) < 0, or memcmp where there is no compare
  Zero,         \* an element of null bytes
  Garbage,      \* an element that was never written
  Limit,        \* most cells that realloc grants
  FirstSize     \* cells of the first allocation (8)

Size(a) == Len(a.cells)
Contents(a) == SubSeq(a.cells, 1, a.used)
Least(m, n) == IF m < n THEN m ELSE n
Copies(x, n) == [i \in 1..(IF n > 0 THEN n ELSE 0) |-> x]

Done(a) == [arr |-> a, failed |-> FALSE]
Fails(a) == [arr |-> a, failed |-> TRUE]
\* if (f()) return mcr_err; ...
Then(r, Op(_)) == IF r.failed THEN r ELSE Op(r.arr)

\* cells with src written over them from position pos on
Written(cells, pos, src) ==
  SubSeq(cells, 1, pos) \o src \o SubSeq(cells, pos + Len(src) + 1, Len(cells))

\* The elements of s one after another, from the first (FoldLeft of SequencesExt).
OneByOne(op(_, _), base, s) ==
  MapThenFoldSet(LAMBDA x, y : op(y, x), base, LAMBDA i : s[i],
                 LAMBDA T : CHOOSE i \in T : \A j \in T : i >= j, DOMAIN s)

mcr_Array_deinit == [cells |-> << >>, used |-> 0]

mcr_Array_resize(a, n) ==
  LET kept == [a EXCEPT !.used = Least(n, @)]
  IN IF n = Size(a) THEN Done(a)
     ELSE IF n = 0 THEN Done(mcr_Array_deinit)
     ELSE IF n > Limit THEN Fails(kept)
     ELSE Done([kept EXCEPT !.cells = SubSeq(@, 1, Least(n, Size(a)))
                                        \o Copies(Garbage, n - Size(a))])

\* The allocation becomes exactly minUsed, larger or smaller than it was.
mcr_Array_minused(a, minUsed) ==
  IF a.used >= minUsed THEN Done(a)
  ELSE Then(mcr_Array_resize(a, minUsed),
            LAMBDA b : Done([b EXCEPT !.used = minUsed]))

mcr_Array_minsize(a, n) == IF Size(a) < n THEN mcr_Array_resize(a, n) ELSE Done(a)

mcr_Array_smartsize(a, count) ==
  IF count = 1 /\ a.used = Size(a)
  THEN mcr_Array_resize(a, IF Size(a) = 0 THEN FirstSize ELSE 2 * Size(a))
  ELSE IF a.used + count > Size(a) /\ count > 0 THEN mcr_Array_resize(a, a.used + count)
  ELSE Done(a)

mcr_Array_trim(a) == mcr_Array_resize(a, a.used).arr
mcr_Array_clear(a) == [a EXCEPT !.used = 0]

\* The positions that a loop over mcr_Array_iter_range visits.
mcr_Array_iter_range(a, first, last) ==
  IF first < a.used /\ last < a.used THEN first..last ELSE {}

mcr_Array_copy(a, pos, src) ==
  IF src = << >> THEN Done(a)
  ELSE IF pos > a.used THEN Fails(a)
  ELSE Then(mcr_Array_minused(a, pos + Len(src)),
            LAMBDA b : Done([b EXCEPT !.cells = Written(@, pos, src)]))

\* There is no element at the end of an array, so that a loop that is to copy x into none
\* there begins at the null pointer. No cell keeps a known value.
FillsNull(a, pos, x, count) == count = 0 /\ pos = a.used /\ pos > 0 /\ x # Zero
Wild == [cells |-> << Garbage >>, used |-> 1]

\* With an element to copy the loop runs to the end of the array, not to pos + count. Zero
\* stands for no element to copy.
mcr_Array_fill(a, pos, x, count) ==
  LET first == Least(pos, a.used)
      last  == pos + count
      Fill(b) == Copies(x, (IF x = Zero THEN last ELSE b.used) - first)
  IN IF last = 0 THEN Done(a)
     ELSE IF FillsNull(a, pos, x, count) THEN Done(Wild)
     ELSE Then(mcr_Array_minused(a, last),
               LAMBDA b : Done([b EXCEPT !.cells = Written(@, first, Fill(b))]))

mcr_Array_minfill(a, minUsed, x) ==
  IF a.used >= minUsed THEN Done(a)
  ELSE Then(mcr_Array_minused(a, minUsed),
            LAMBDA b : mcr_Array_fill(b, a.used, x, minUsed - a.used))

\* Within one array: memmove after the array has grown.
mcr_Array_move(a, to, from, count) ==
  LET moved == SubSeq(a.cells, from + 1, Least(from + count, a.used))
  IN IF count = 0 THEN Done(a)
     ELSE IF from >= a.used THEN Fails(a)
     ELSE Then(Then(mcr_Array_fill(a, a.used, Zero, IF to > a.used THEN to - a.used ELSE 0),
                    LAMBDA b : mcr_Array_minused(b, to + Len(moved))),
               LAMBDA b : Done([b EXCEPT !.cells = Written(@, to, moved)]))

mcr_Array_insert(a, pos, src) ==
  LET count == Len(src)
      Displaced(b) == mcr_Array_move([b EXCEPT !.used = @ + count],
                                     pos + count, pos, a.used - pos)
  IN IF src = << >> THEN Done(a)
     ELSE IF pos > a.used THEN Fails(a)
     ELSE IF pos = a.used THEN mcr_Array_copy(a, pos, src)
     ELSE Then(Then(mcr_Array_smartsize(a, count), Displaced),
               LAMBDA b : mcr_Array_copy(b, pos, src))

\* Fault: the last element is left where it was.
RemovesShort(a, pos, count) ==
  LET last == Least(pos + count, a.used)
  IN IF count = 0 \/ pos >= a.used THEN a
     ELSE [mcr_Array_move(a, pos, last, a.used - last - 1).arr
             EXCEPT !.used = a.used - (last - pos)]

mcr_Array_remove_index(a, pos, count) ==
  LET last == Least(pos + count, a.used)
  IN IF count = 0 \/ pos >= a.used THEN a
     ELSE [mcr_Array_move(a, pos, last, a.used - last).arr
             EXCEPT !.used = a.used - (last - pos)]

mcr_Array_append(a, src) ==
  IF src = << >> THEN Done(a)
  ELSE Then(mcr_Array_smartsize(a, Len(src)),
            LAMBDA b : mcr_Array_copy(b, b.used, src))

mcr_Array_push(a, x) == mcr_Array_append(a, << x >>)

\* Fault: an array without elements is not refused.
PopsBelow(a) == [a EXCEPT !.used = @ - 1]
mcr_Array_pop(a) == [a EXCEPT !.used = IF @ = 0 THEN 0 ELSE @ - 1]

mcr_Array_replace(a, src) ==
  IF src = << >> THEN Done(mcr_Array_deinit)
  ELSE Then(mcr_Array_resize(a, Len(src)), LAMBDA b : mcr_Array_copy(b, 0, src))

-----------------------------------------------------------------------------
(* Sorted functions *)

\* The elements of s in their order; equal ones stay as they were to each other.
Arranged(s) ==
  LET Ahead(i) == {j \in 1..Len(s) : Before(s[j], s[i]) \/ (j < i /\ ~ Before(s[i], s[j]))}
  IN [n \in 1..Len(s) |-> s[CHOOSE i \in 1..Len(s) : Cardinality(Ahead(i)) = n - 1]]

mcr_Array_sort(a) ==
  [a EXCEPT !.cells = Written(@, 0, Arranged(Contents(a)))]

\* Fault: the range above the middle keeps the middle out and one more.
SkipsOne(a, x) ==
  LET Halve(r, n) ==
        LET mid == (r.low + r.high) \div 2
        IN IF r.low >= r.high \/ r.met > 0 THEN r
           ELSE IF Before(x, a.cells[mid + 1]) THEN [r EXCEPT !.high = mid]
           ELSE IF Before(a.cells[mid + 1], x) THEN [r EXCEPT !.low = mid + 2]
           ELSE [r EXCEPT !.met = mid + 1]
  IN OneByOne(Halve, [low |-> 0, high |-> a.used, met |-> 0], [n \in 1..a.used |-> n]).met

\* bsearch: the index from 1 of an element equal to x, 0 if none is met. The
\* range from low to high - 1 is halved until it is empty or x is met.
mcr_Array_find(a, x) ==
  LET Halve(r, n) ==
        LET mid == (r.low + r.high) \div 2
        IN IF r.low >= r.high \/ r.met > 0 THEN r
           ELSE IF Before(x, a.cells[mid + 1]) THEN [r EXCEPT !.high = mid]
           ELSE IF Before(a.cells[mid + 1], x) THEN [r EXCEPT !.low = mid + 1]
           ELSE [r EXCEPT !.met = mid + 1]
  IN OneByOne(Halve, [low |-> 0, high |-> a.used, met |-> 0], [n \in 1..a.used |-> n]).met

mcr_Array_add(a, src, unique) ==
  LET Add(r, x) ==
        IF r.failed \/ mcr_Array_find(r.arr, x) # 0 THEN r
        ELSE Then(mcr_Array_push(r.arr, x), LAMBDA b : Done(mcr_Array_sort(b)))
  IN IF src = << >> THEN Done(a)
     ELSE Then(mcr_Array_smartsize(a, Len(src)),
               LAMBDA b : IF unique THEN OneByOne(Add, Done(b), src)
                          ELSE Then(mcr_Array_append(b, src),
                                    LAMBDA c : Done(mcr_Array_sort(c))))

mcr_Array_remove(a, x) ==
  LET Purge(b, n) == LET i == mcr_Array_find(b, x)
                     IN IF i = 0 THEN b ELSE mcr_Array_remove_index(b, i - 1, 1)
  IN OneByOne(Purge, a, [n \in 1..a.used |-> n])
=============================================================================
