----------------------------- MODULE ArrayCalls -----------------------------
(***************************************************************************)
(* A caller of src/util/array.c: every call changes the array, and content *)
(* remembers the sequence of elements that the caller expects of it. The   *)
(* functions that keep an array sorted are called on a sorted array only,  *)
(* as their documentation asks.                                            *)
(***************************************************************************)
EXTENDS Integers, Sequences, SequencesExt, FiniteSets

CONSTANTS
  Elements,    \* numbers that arrays hold; 0 is an element of null bytes
  Unwritten,   \* what an allocated cell holds before it is written
  CellLimit,   \* most cells that the allocator grants
  FirstCells,  \* cells of the first allocation
  LongSources, \* length of the longest array that a call copies from
  Misfills     \* elements may be filled before the last one, or none behind it

ASSUME ArrayAssumption ==
  /\ Elements \subseteq Int /\ 0 \in Elements /\ Unwritten \in Int
  /\ CellLimit \in Nat /\ FirstCells \in Nat /\ LongSources \in Nat

VARIABLES
  arr,     \* the array
  content  \* the elements that the caller expects

arrayVars == << arr, content >>

Lower(x, y) == x < y
A == INSTANCE Arrays WITH Before <- Lower, Zero <- 0, Garbage <- Unwritten,
                          Limit <- CellLimit, FirstSize <- FirstCells

Sources == UNION {[1..n -> Elements] : n \in 0..LongSources}
Positions == 0..Len(content)
Counts == 0..LongSources

ArrayTypeOK ==
  /\ arr \in [cells : Seq(Elements \union {Unwritten}), used : Nat]
  /\ content \in Seq(Elements)

ArrayInit == arr = A!mcr_Array_deinit /\ content = << >>

-----------------------------------------------------------------------------
(* What the caller expects *)

Sorted(s) == A!Arranged(s)
InOrder(s) == IsSorted(s, <=)
First(s, n) == SubSeq(s, 1, A!Least(n, Len(s)))
After(s, n) == SubSeq(s, n + 1, Len(s))

Overwritten(s, pos, src) == First(s, pos) \o src \o After(s, pos + Len(src))
Inserted(s, pos, src) == First(s, pos) \o src \o After(s, pos)
Removed(s, pos, count) == First(s, pos) \o After(s, pos + count)
Counted(s, Test(_)) == Cardinality({i \in DOMAIN s : Test(s[i])})
AddedOnce(s, src) ==
  FoldLeft(LAMBDA t, x : IF Contains(t, x) THEN t ELSE Sorted(Append(t, x)), s, src)

\* A call that failed leaves the elements as they were.
Call(result, expected) ==
  /\ arr' = result.arr
  /\ content' = IF result.failed THEN content ELSE expected

CallOnSorted(result, expected) == InOrder(content) /\ Call(result, expected)

-----------------------------------------------------------------------------
(* The calls *)

ArrayInsert == \E pos \in Positions, src \in Sources :
  Call(A!mcr_Array_insert(arr, pos, src), Inserted(content, pos, src))

ArrayCopy == \E pos \in Positions, src \in Sources :
  Call(A!mcr_Array_copy(arr, pos, src), Overwritten(content, pos, src))

ArrayAppend == \E src \in Sources :
  Call(A!mcr_Array_append(arr, src), content \o src)

ArrayReplace == \E src \in Sources : Call(A!mcr_Array_replace(arr, src), src)

ArrayRemoveIndex == \E pos \in Positions, count \in Counts :
  Call(A!Done(A!mcr_Array_remove_index(arr, pos, count)), Removed(content, pos, count))

ArrayPop == Call(A!Done(A!mcr_Array_pop(arr)), First(content, Len(content) - 1))

\* Elements that are missing before pos are filled too.
ArrayFill == \E pos \in Positions, x \in Elements, count \in Counts :
  /\ Misfills \/ (pos + count >= Len(content) /\ ~ A!FillsNull(arr, pos, x, count))
  /\ Call(A!mcr_Array_fill(arr, pos, x, count),
          Overwritten(content, pos, A!Copies(x, count)))

ArrayMinfill == \E n \in 0..CellLimit + 1, x \in Elements :
  Call(A!mcr_Array_minfill(arr, n, x), content \o A!Copies(x, n - Len(content)))

\* Within one array, the part that is moved stays where it was, too.
ArrayMove == \E to, from \in Positions, count \in Counts :
  LET moved == First(After(content, from), count)
  IN /\ from < Len(content)
     /\ Call(A!mcr_Array_move(arr, to, from, count), Overwritten(content, to, moved))

ArrayResize == \E n \in 0..CellLimit + 1 :
  Call(A!mcr_Array_resize(arr, n), First(content, n))

ArrayMinsize == \E n \in 0..CellLimit + 1 : Call(A!mcr_Array_minsize(arr, n), content)

ArrayTrim == Call(A!Done(A!mcr_Array_trim(arr)), content)
ArrayClear == Call(A!Done(A!mcr_Array_clear(arr)), << >>)
ArrayDeinit == Call(A!Done(A!mcr_Array_deinit), << >>)
ArraySort == Call(A!Done(A!mcr_Array_sort(arr)), Sorted(content))

ArrayAdd == \E src \in Sources :
  CallOnSorted(A!mcr_Array_add(arr, src, FALSE), Sorted(content \o src))

\* When one addition fails, those before it stay.
ArrayAddUnique == \E src \in Sources :
  LET result == A!mcr_Array_add(arr, src, TRUE)
      added  == IF result.failed
                THEN SelectInSeq(src, LAMBDA x : A!mcr_Array_find(result.arr, x) = 0) - 1
                ELSE Len(src)
  IN /\ InOrder(content)
     /\ arr' = result.arr
     /\ content' = AddedOnce(content, First(src, added))

\* The elements that are equal to x stand together.
ArrayRemove == \E x \in Elements :
  CallOnSorted(A!Done(A!mcr_Array_remove(arr, x)),
               Removed(content, Counted(content, LAMBDA y : y < x), Counted(content, LAMBDA y : y = x)))

ArrayNext ==
  \/ ArrayInsert \/ ArrayCopy \/ ArrayAppend \/ ArrayReplace \/ ArrayRemoveIndex \/ ArrayPop \/ ArrayFill \/ ArrayMinfill
  \/ ArrayMove \/ ArrayResize \/ ArrayMinsize \/ ArrayTrim \/ ArrayClear \/ ArrayDeinit \/ ArraySort
  \/ ArrayAdd \/ ArrayAddUnique \/ ArrayRemove

ArraySpec == ArrayInit /\ [][ArrayNext]_arrayVars

-----------------------------------------------------------------------------
(* Properties *)

\* The array holds the elements that its caller put there, in their order,
\* whatever was inserted, moved, removed or refused before, and every one of
\* them was written (the cells that resizing, filling and moving leave). When
\* they are sorted, bisection finds each of them and nothing else (find, on
\* which add, remove and all maps rely).
HoldsContent ==
  /\ A!Contents(arr) = content
  /\ InOrder(content) =>
       \A x \in Elements :
         LET i == A!mcr_Array_find(arr, x)
         IN IF Contains(content, x) THEN i # 0 /\ arr.cells[i] = x ELSE i = 0
=============================================================================
