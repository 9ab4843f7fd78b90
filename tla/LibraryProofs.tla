---------------------------- MODULE LibraryProofs ----------------------------
(***************************************************************************)
(* Theorems about the library's parts that run in the thread of their      *)
(* caller, for any number of elements, keys, names, interfaces, instances, *)
(* objects, C++ macros and characters, and whatever allocation or function *)
(* fails. What a caller finds in arrays of numbers and in strings is shown *)
(* here from what ArraysProofs says of each function on arrays; what       *)
(* TableProofs shows of the other parts is here shown of a library made of *)
(* them.                                                                   *)
(***************************************************************************)
EXTENDS Library, TableProofs

-----------------------------------------------------------------------------
(* Arrays of numbers, and what a caller put into them (ArrayCalls). The    *)
(* functions of Arrays are those that ArraysProofs is about.               *)

AP == INSTANCE ArraysProofs WITH Before <- Lower, Zero <- 0, Garbage <- Unwritten,
                                 Limit <- CellLimit, FirstSize <- FirstCells

LEMMA SameResize ==
  ASSUME NEW a, NEW n
  PROVE  A!mcr_Array_resize(a, n) = AP!mcr_Array_resize(a, n)
BY Zenon DEF A!mcr_Array_resize, AP!mcr_Array_resize, A!Size, AP!Size, A!mcr_Array_deinit, AP!mcr_Array_deinit,
   A!Done, AP!Done, A!Fails, AP!Fails, A!Least, AP!Least, A!Copies, AP!Copies

LEMMA SameMinused ==
  ASSUME NEW a, NEW n
  PROVE  A!mcr_Array_minused(a, n) = AP!mcr_Array_minused(a, n)
BY SameResize DEF A!mcr_Array_minused, AP!mcr_Array_minused, A!Then, AP!Then, A!Done, AP!Done

LEMMA SameMinsize ==
  ASSUME NEW a, NEW n
  PROVE  A!mcr_Array_minsize(a, n) = AP!mcr_Array_minsize(a, n)
BY SameResize DEF A!mcr_Array_minsize, AP!mcr_Array_minsize, A!Size, AP!Size, A!Done, AP!Done

LEMMA SameSmartsize ==
  ASSUME NEW a, NEW n
  PROVE  A!mcr_Array_smartsize(a, n) = AP!mcr_Array_smartsize(a, n)
BY SameResize DEF A!mcr_Array_smartsize, AP!mcr_Array_smartsize, A!Size, AP!Size, A!Done, AP!Done

LEMMA SameTrim ==
  ASSUME NEW a
  PROVE  A!mcr_Array_trim(a) = AP!mcr_Array_trim(a)
BY SameResize DEF A!mcr_Array_trim, AP!mcr_Array_trim

LEMMA SameCopy ==
  ASSUME NEW a, NEW pos, NEW src
  PROVE  A!mcr_Array_copy(a, pos, src) = AP!mcr_Array_copy(a, pos, src)
BY SameMinused DEF A!mcr_Array_copy, AP!mcr_Array_copy, A!Then, AP!Then, A!Done, AP!Done, A!Fails, AP!Fails,
   A!Written, AP!Written

LEMMA SameFill ==
  ASSUME NEW a, NEW pos, NEW x, NEW n
  PROVE  A!mcr_Array_fill(a, pos, x, n) = AP!mcr_Array_fill(a, pos, x, n)
BY SameMinused DEF A!mcr_Array_fill, AP!mcr_Array_fill, A!Then, AP!Then, A!Done, AP!Done, A!Written,
   AP!Written, A!Least, AP!Least, A!Copies, AP!Copies, A!FillsNull, AP!FillsNull, A!Wild, AP!Wild

LEMMA SameMinfill ==
  ASSUME NEW a, NEW n, NEW x
  PROVE  A!mcr_Array_minfill(a, n, x) = AP!mcr_Array_minfill(a, n, x)
BY SameMinused, SameFill DEF A!mcr_Array_minfill, AP!mcr_Array_minfill, A!Then, AP!Then, A!Done, AP!Done

LEMMA SameMove ==
  ASSUME NEW a, NEW to, NEW from, NEW n
  PROVE  A!mcr_Array_move(a, to, from, n) = AP!mcr_Array_move(a, to, from, n)
BY SameMinused, SameFill DEF A!mcr_Array_move, AP!mcr_Array_move, A!Then, AP!Then, A!Done, AP!Done, A!Fails,
   AP!Fails, A!Written, AP!Written, A!Least, AP!Least

LEMMA SameInsert ==
  ASSUME NEW a, NEW pos, NEW src
  PROVE  A!mcr_Array_insert(a, pos, src) = AP!mcr_Array_insert(a, pos, src)
BY SameMove, SameCopy, SameSmartsize DEF A!mcr_Array_insert, AP!mcr_Array_insert, A!Then, AP!Then, A!Done,
   AP!Done, A!Fails, AP!Fails

LEMMA SameRemoveIndex ==
  ASSUME NEW a, NEW pos, NEW n
  PROVE  A!mcr_Array_remove_index(a, pos, n) = AP!mcr_Array_remove_index(a, pos, n)
BY SameMove DEF A!mcr_Array_remove_index, AP!mcr_Array_remove_index, A!Least, AP!Least

LEMMA SameAppend ==
  ASSUME NEW a, NEW src
  PROVE  A!mcr_Array_append(a, src) = AP!mcr_Array_append(a, src)
BY SameCopy, SameSmartsize DEF A!mcr_Array_append, AP!mcr_Array_append, A!Then, AP!Then, A!Done, AP!Done

LEMMA SamePush ==
  ASSUME NEW a, NEW x
  PROVE  A!mcr_Array_push(a, x) = AP!mcr_Array_push(a, x)
BY SameAppend DEF A!mcr_Array_push, AP!mcr_Array_push

LEMMA SameReplace ==
  ASSUME NEW a, NEW src
  PROVE  A!mcr_Array_replace(a, src) = AP!mcr_Array_replace(a, src)
BY SameResize, SameCopy DEF A!mcr_Array_replace, AP!mcr_Array_replace, A!Then, AP!Then, A!Done, AP!Done,
   A!mcr_Array_deinit, AP!mcr_Array_deinit

LEMMA SameArranged ==
  ASSUME NEW s
  PROVE  A!Arranged(s) = AP!Arranged(s)
BY Zenon DEF A!Arranged, AP!Arranged, A!Cardinality, AP!Cardinality

LEMMA SameSort ==
  ASSUME NEW a
  PROVE  A!mcr_Array_sort(a) = AP!mcr_Array_sort(a)
BY SameArranged DEF A!mcr_Array_sort, AP!mcr_Array_sort, A!Written, AP!Written, A!Contents, AP!Contents

LEMMA SameResults ==
  ASSUME NEW a
  PROVE  A!Done(a) = AP!Done(a) /\ A!Fails(a) = AP!Fails(a) /\ A!Size(a) = AP!Size(a)
         /\ A!Contents(a) = AP!Contents(a) /\ A!mcr_Array_pop(a) = AP!mcr_Array_pop(a)
         /\ A!mcr_Array_clear(a) = AP!mcr_Array_clear(a) /\ A!mcr_Array_deinit = AP!mcr_Array_deinit
         /\ \A m, n : A!Least(m, n) = AP!Least(m, n) /\ A!Copies(m, n) = AP!Copies(m, n)
BY DEF A!Done, AP!Done, A!Fails, AP!Fails, A!Size, AP!Size, A!Contents, AP!Contents, A!mcr_Array_pop,
       AP!mcr_Array_pop, A!mcr_Array_clear, AP!mcr_Array_clear, A!mcr_Array_deinit, AP!mcr_Array_deinit,
       A!Least, AP!Least, A!Copies, AP!Copies

LEMMA SameCopies ==
  ASSUME NEW x, NEW n
  PROVE  A!Copies(x, n) = AP!Copies(x, n)
BY DEF A!Copies, AP!Copies

LEMMA SameFind ==
  ASSUME NEW a, NEW x
  PROVE  A!mcr_Array_find(a, x) = AP!mcr_Array_find(a, x)
BY Zenon DEF A!mcr_Array_find, AP!mcr_Array_find, A!OneByOne, AP!OneByOne, A!MapThenFoldSet, AP!MapThenFoldSet

-----------------------------------------------------------------------------
Numbers == Elements \union {Unwritten}

CallsInv == content \in Seq(Elements) /\ AP!IsArray(arr, Numbers) /\ AP!Holds(arr, content)

LEMMA NumbersAre ==
  /\ AP!Sizes /\ Unwritten \in Numbers /\ 0 \in Numbers /\ Elements \subseteq Numbers /\ AP!Ordering(Numbers) /\ AP!Ordering(Elements)
  /\ \A s \in Seq(Elements) : s \in Seq(Numbers)
<1>1. AP!Sizes /\ Unwritten \in Numbers /\ 0 \in Numbers /\ Elements \subseteq Numbers /\ Numbers \subseteq Int
  BY ArrayAssumption DEF AP!Sizes, Numbers
<1>2. AP!Ordering(Numbers) /\ AP!Ordering(Elements)
  BY <1>1 DEF AP!Ordering, Lower
<1>3. ASSUME NEW s \in Seq(Elements) PROVE s \in Seq(Numbers)
  <2>1. Len(s) \in Nat /\ s \in [1..Len(s) -> Elements]
    OBVIOUS
  <2>2. s \in [1..Len(s) -> Numbers]
    BY <1>1, <2>1
  <2> QED BY <2>1, <2>2
<1> QED BY <1>1, <1>2, <1>3

LEMMA FirstAre ==
  ASSUME NEW s \in Seq(Elements), NEW n \in Int
  PROVE  /\ First(s, n) = SubSeq(s, 1, AP!Least(n, Len(s))) /\ First(s, n) \in Seq(Elements)
         /\ n <= Len(s) => First(s, n) = SubSeq(s, 1, n)
         /\ n >= 0 => After(s, n) \in Seq(Elements)
<1>1. A!Least(n, Len(s)) = AP!Least(n, Len(s)) /\ AP!Least(n, Len(s)) \in Int /\ AP!Least(n, Len(s)) <= Len(s)
  BY SameResults DEF AP!Least
<1>2. n <= Len(s) => AP!Least(n, Len(s)) = n
  BY DEF AP!Least
<1> QED BY <1>1, <1>2 DEF First, After

LEMMA ArrayCallKeeps ==
  ASSUME CallsInv, NEW result, NEW expected, Call(result, expected),
         AP!Leaves(result, Numbers, content, expected), expected \in Seq(Elements)
  PROVE  CallsInv'
<1>1. /\ result.failed \in BOOLEAN /\ AP!IsArray(result.arr, Numbers)
      /\ AP!Holds(result.arr, IF result.failed THEN content ELSE expected)
  BY DEF AP!Leaves
<1>2. arr' = result.arr /\ content' = IF result.failed THEN content ELSE expected
  BY DEF Call
<1>3. content' \in Seq(Elements)
  BY <1>2 DEF CallsInv
<1>4. AP!IsArray(arr', Numbers) /\ AP!Holds(arr', content')
  BY <1>1, <1>2
<1> QED BY <1>3, <1>4 DEF CallsInv, AP!IsArray, AP!Holds

LEMMA DoneLeaves ==
  ASSUME NEW a, AP!IsArray(a, Numbers), NEW s, NEW t, AP!Holds(a, t)
  PROVE  AP!Leaves(A!Done(a), Numbers, s, t)
<1>1. A!Done(a).arr = a /\ ~ A!Done(a).failed /\ A!Done(a).failed \in BOOLEAN
  BY SameResults, AP!DoneIs
<1> QED BY <1>1 DEF AP!Leaves

LEMMA ArrayInsertKeeps ==
  ASSUME CallsInv, ArrayInsert
  PROVE  CallsInv'
<1>1. PICK pos \in Positions, src \in Sources :
        Call(A!mcr_Array_insert(arr, pos, src), Inserted(content, pos, src))
  BY DEF ArrayInsert
<1>2. src \in Seq(Elements) /\ pos \in 0..Len(content)
  BY ArrayAssumption DEF Sources, Positions
<1>3. Inserted(content, pos, src) = AP!Between(content, pos, src)
  <2>1. First(content, pos) = SubSeq(content, 1, pos)
    BY <1>2, FirstAre DEF CallsInv
  <2> QED BY <2>1 DEF Inserted, After, AP!Between
<1>4. AP!Leaves(A!mcr_Array_insert(arr, pos, src), Numbers, content, Inserted(content, pos, src))
  BY <1>2, <1>3, NumbersAre, SameInsert, AP!InsertLeaves DEF CallsInv
<1>5. Inserted(content, pos, src) \in Seq(Elements)
  BY <1>2, <1>3, AP!BetweenIs DEF CallsInv, AP!AsBetween
<1> QED BY <1>1, <1>4, <1>5, ArrayCallKeeps

LEMMA OverwrittenIs ==
  ASSUME NEW s \in Seq(Elements), NEW src \in Seq(Elements), NEW pos \in 0..Len(s)
  PROVE  Overwritten(s, pos, src) = AP!Over(s, pos, src) /\ Overwritten(s, pos, src) \in Seq(Elements)
<1>1. Overwritten(s, pos, src) = AP!Over(s, pos, src)
  <2>1. First(s, pos) = SubSeq(s, 1, pos)
    BY FirstAre
  <2> QED BY <2>1 DEF Overwritten, After, AP!Over
<1> QED BY <1>1, AP!OverIs DEF AP!AsOver

LEMMA ArrayCopyKeeps ==
  ASSUME CallsInv, ArrayCopy
  PROVE  CallsInv'
<1>1. PICK pos \in Positions, src \in Sources :
        Call(A!mcr_Array_copy(arr, pos, src), Overwritten(content, pos, src))
  BY DEF ArrayCopy
<1>2. src \in Seq(Elements) /\ pos \in 0..Len(content)
  BY ArrayAssumption DEF Sources, Positions
<1>3. Overwritten(content, pos, src) = AP!Over(content, pos, src) /\ Overwritten(content, pos, src) \in Seq(Elements)
  BY <1>2, OverwrittenIs DEF CallsInv
<1>4. AP!Leaves(A!mcr_Array_copy(arr, pos, src), Numbers, content, Overwritten(content, pos, src))
  BY <1>2, <1>3, NumbersAre, SameCopy, AP!CopyLeaves DEF CallsInv
<1> QED BY <1>1, <1>3, <1>4, ArrayCallKeeps

LEMMA ArrayAppendKeeps ==
  ASSUME CallsInv, ArrayAppend
  PROVE  CallsInv'
<1>1. PICK src \in Sources : Call(A!mcr_Array_append(arr, src), content \o src)
  BY DEF ArrayAppend
<1>2. src \in Seq(Elements) /\ content \o src \in Seq(Elements)
  BY ArrayAssumption DEF Sources, CallsInv
<1>4. AP!Leaves(A!mcr_Array_append(arr, src), Numbers, content, content \o src)
  BY <1>2, NumbersAre, SameAppend, AP!AppendLeaves DEF CallsInv
<1> QED BY <1>1, <1>2, <1>4, ArrayCallKeeps

LEMMA ArrayReplaceKeeps ==
  ASSUME CallsInv, ArrayReplace
  PROVE  CallsInv'
<1>1. PICK src \in Sources : Call(A!mcr_Array_replace(arr, src), src)
  BY DEF ArrayReplace
<1>2. src \in Seq(Elements)
  BY ArrayAssumption DEF Sources
<1>4. AP!Leaves(A!mcr_Array_replace(arr, src), Numbers, content, src)
  BY <1>2, NumbersAre, SameReplace, AP!ReplaceLeaves DEF CallsInv
<1> QED BY <1>1, <1>2, <1>4, ArrayCallKeeps

LEMMA RemovedIs ==
  ASSUME NEW s \in Seq(Elements), NEW pos \in 0..Len(s), NEW count \in Nat, NEW n, n = AP!Least(pos + count, Len(s)) - pos
  PROVE  Removed(s, pos, count) = AP!Without(s, pos, n) /\ Removed(s, pos, count) \in Seq(Elements)
<1>1. First(s, pos) = SubSeq(s, 1, pos)
  BY FirstAre
<1>2. SubSeq(s, pos + count + 1, Len(s)) = SubSeq(s, pos + n + 1, Len(s))
  <2>1. CASE pos + count < Len(s)
    <3>1. n = count
      BY <2>1 DEF AP!Least
    <3> QED BY <3>1
  <2>2. CASE ~ pos + count < Len(s)
    <3>1. pos + n = Len(s)
      BY <2>2 DEF AP!Least
    <3>2. SubSeq(s, pos + count + 1, Len(s)) = << >> /\ SubSeq(s, Len(s) + 1, Len(s)) = << >>
      BY <2>2
    <3> QED BY <3>1, <3>2
  <2> QED BY <2>1, <2>2
<1>3. Removed(s, pos, count) = AP!Without(s, pos, n)
  BY <1>1, <1>2 DEF Removed, After, AP!Without
<1>4. pos + count \in Int /\ pos + count >= 0
  OBVIOUS
<1>5. First(s, pos) \in Seq(Elements) /\ After(s, pos + count) \in Seq(Elements)
  BY <1>4, FirstAre
<1>6. Removed(s, pos, count) \in Seq(Elements)
  BY <1>5 DEF Removed
<1> QED BY <1>3, <1>6

LEMMA ArrayRemoveIndexKeeps ==
  ASSUME CallsInv, ArrayRemoveIndex
  PROVE  CallsInv'
<1>1. PICK pos \in Positions, count \in Counts :
        Call(A!Done(A!mcr_Array_remove_index(arr, pos, count)), Removed(content, pos, count))
  BY DEF ArrayRemoveIndex
<1>2. pos \in 0..Len(content) /\ count \in Nat
  BY ArrayAssumption DEF Positions, Counts
<1> DEFINE n == AP!Least(pos + count, Len(content)) - pos
           a == A!mcr_Array_remove_index(arr, pos, count)
<1>3. Removed(content, pos, count) = AP!Without(content, pos, n) /\ Removed(content, pos, count) \in Seq(Elements)
  BY <1>2, RemovedIs DEF CallsInv
<1>4. AP!IsArray(a, Numbers) /\ AP!Holds(a, AP!Without(content, pos, n))
  BY <1>2, NumbersAre, SameRemoveIndex, AP!RemoveLeaves DEF CallsInv
<1> HIDE DEF n, a
<1>5. AP!Leaves(A!Done(a), Numbers, content, Removed(content, pos, count))
  BY <1>3, <1>4, DoneLeaves
<1> QED BY <1>1, <1>3, <1>5, ArrayCallKeeps DEF a

LEMMA ArrayPopKeeps ==
  ASSUME CallsInv, ArrayPop
  PROVE  CallsInv'
<1>1. First(content, Len(content) - 1) = SubSeq(content, 1, Len(content) - 1)
      /\ First(content, Len(content) - 1) \in Seq(Elements)
  <2>1. content \in Seq(Elements) /\ Len(content) \in Nat
    BY DEF CallsInv
  <2>2. Len(content) - 1 \in Int /\ Len(content) - 1 <= Len(content)
    BY <2>1
  <2> QED BY <2>1, <2>2, FirstAre
<1>2. AP!IsArray(A!mcr_Array_pop(arr), Numbers) /\ AP!Holds(A!mcr_Array_pop(arr), First(content, Len(content) - 1))
  BY <1>1, NumbersAre, SameResults, AP!PopLeaves DEF CallsInv
<1>3. AP!Leaves(A!Done(A!mcr_Array_pop(arr)), Numbers, content, First(content, Len(content) - 1))
  BY <1>2, DoneLeaves
<1> QED BY <1>1, <1>3, ArrayCallKeeps DEF ArrayPop

LEMMA ArrayFillKeeps ==
  ASSUME CallsInv, ~ Misfills, ArrayFill
  PROVE  CallsInv'
<1>1. PICK pos \in Positions, x \in Elements, count \in Counts :
        /\ pos + count >= Len(content) /\ ~ A!FillsNull(arr, pos, x, count)
        /\ Call(A!mcr_Array_fill(arr, pos, x, count), Overwritten(content, pos, A!Copies(x, count)))
  BY DEF ArrayFill
<1>2. pos \in 0..Len(content) /\ count \in Nat /\ x \in Elements /\ x \in Numbers
  BY ArrayAssumption DEF Positions, Counts, Numbers
<1>3. A!Copies(x, count) = AP!Copies(x, count) /\ A!Copies(x, count) \in Seq(Elements)
  BY <1>2, SameCopies, AP!CopiesAre
<1>4. Overwritten(content, pos, A!Copies(x, count)) = AP!Over(content, pos, AP!Copies(x, count))
      /\ Overwritten(content, pos, A!Copies(x, count)) \in Seq(Elements)
  BY <1>2, <1>3, OverwrittenIs DEF CallsInv
<1>6. ~ AP!FillsNull(arr, pos, x, count)
  BY <1>1 DEF A!FillsNull, AP!FillsNull
<1>5. AP!Leaves(A!mcr_Array_fill(arr, pos, x, count), Numbers, content, Overwritten(content, pos, A!Copies(x, count)))
  BY <1>1, <1>2, <1>4, <1>6, NumbersAre, SameFill, AP!FillLeaves DEF CallsInv
<1> QED BY <1>1, <1>4, <1>5, ArrayCallKeeps

LEMMA ArrayMinfillKeeps ==
  ASSUME CallsInv, ArrayMinfill
  PROVE  CallsInv'
<1>1. PICK n \in 0..CellLimit + 1, x \in Elements :
        Call(A!mcr_Array_minfill(arr, n, x), content \o A!Copies(x, n - Len(content)))
  BY DEF ArrayMinfill
<1>2. n \in Nat /\ x \in Elements /\ x \in Numbers /\ Len(content) \in Nat /\ n - Len(content) \in Int
  BY ArrayAssumption DEF Numbers, CallsInv
<1>3. A!Copies(x, n - Len(content)) = AP!Copies(x, n - Len(content)) /\ A!Copies(x, n - Len(content)) \in Seq(Elements)
  BY <1>2, SameCopies, AP!CopiesAre
<1>4. AP!Leaves(A!mcr_Array_minfill(arr, n, x), Numbers, content, content \o A!Copies(x, n - Len(content)))
  BY <1>2, <1>3, NumbersAre, SameMinfill, AP!MinfillLeaves DEF CallsInv
<1>5. content \o A!Copies(x, n - Len(content)) \in Seq(Elements)
  BY <1>3 DEF CallsInv
<1> QED BY <1>1, <1>4, <1>5, ArrayCallKeeps

LEMMA PartIs ==
  ASSUME NEW s \in Seq(Elements), NEW from \in 0..Len(s), NEW count \in Nat
  PROVE  First(After(s, from), count) = AP!Part(s, from, count) /\ First(After(s, from), count) \in Seq(Elements)
<1>1. After(s, from) \in Seq(Elements) /\ Len(After(s, from)) = Len(s) - from
      /\ \A i \in 1..Len(s) - from : After(s, from)[i] = s[from + i]
  BY DEF After
<1> DEFINE m == AP!Least(count, Len(s) - from)
           u == After(s, from)
<1>2. m \in Nat /\ m <= Len(s) - from /\ AP!Least(from + count, Len(s)) = from + m
  BY DEF AP!Least
<1>4. AP!Part(s, from, count) = SubSeq(s, from + 1, from + m)
  BY <1>2 DEF AP!Part
<1>6. m = AP!Least(count, Len(u)) /\ count \in Int
  BY <1>1
<1> HIDE DEF u, m
<1>3. First(u, count) = SubSeq(u, 1, m) /\ First(u, count) \in Seq(Elements)
  BY <1>1, <1>6, FirstAre DEF u
<1>5. SubSeq(u, 1, m) = SubSeq(s, from + 1, from + m)
  <2> DEFINE x == SubSeq(u, 1, m)
             y == SubSeq(s, from + 1, from + m)
  <2>0. u \in Seq(Elements) /\ Len(u) = Len(s) - from
    BY <1>1 DEF u
  <2>1. /\ u \in Seq(Elements) /\ Len(u) = Len(s) - from /\ Len(s) \in Nat /\ from \in Nat /\ m \in Nat
        /\ m <= Len(s) - from /\ from + m <= Len(s)
    BY <1>2, <2>0
  <2>2. x \in [1..m -> Elements] /\ \A i \in 1..m : x[i] = u[i]
    <3>1. Len(x) = m /\ x \in Seq(Elements)
      BY <2>1
    <3>2. \A i \in 1..m : x[i] = u[1 + i - 1] /\ 1 + i - 1 = i
      BY <2>1
    <3> HIDE DEF x
    <3> QED BY <3>1, <3>2
  <2>3. y \in [1..m -> Elements] /\ \A i \in 1..m : y[i] = s[from + i]
    <3>1. Len(y) = m /\ y \in Seq(Elements)
      BY <2>1
    <3>2. \A i \in 1..m : y[i] = s[(from + 1) + i - 1] /\ (from + 1) + i - 1 = from + i
      BY <2>1
    <3> HIDE DEF y
    <3> QED BY <3>1, <3>2
  <2>4. \A i \in 1..m : u[i] = s[from + i]
    <3>1. \A i \in 1..Len(s) - from : u[i] = s[from + i]
      BY <1>1 DEF u
    <3> QED BY <2>1, <3>1
  <2> HIDE DEF x, y
  <2>5. \A i \in 1..m : x[i] = y[i]
    BY <2>2, <2>3, <2>4
  <2>6. x = [i \in 1..m |-> x[i]] /\ y = [i \in 1..m |-> y[i]]
    BY <2>2, <2>3
  <2>7. [i \in 1..m |-> x[i]] = [i \in 1..m |-> y[i]]
    BY <2>5
  <2>8. x = y
    BY <2>6, <2>7, Zenon
  <2> QED BY <2>8 DEF x, y
<1> QED BY <1>3, <1>4, <1>5 DEF u

LEMMA ArrayMoveKeeps ==
  ASSUME CallsInv, ArrayMove
  PROVE  CallsInv'
<1>1. PICK to, from \in Positions, count \in Counts :
        /\ from < Len(content)
        /\ Call(A!mcr_Array_move(arr, to, from, count), Overwritten(content, to, First(After(content, from), count)))
  BY DEF ArrayMove
<1> DEFINE piece == First(After(content, from), count)
<1>2. to \in 0..Len(content) /\ from \in 0..Len(content) /\ from \in Nat /\ count \in Nat
  BY ArrayAssumption DEF Positions, Counts, CallsInv
<1>3. piece = AP!Part(content, from, count) /\ piece \in Seq(Elements)
  BY <1>2, PartIs DEF CallsInv
<1> HIDE DEF piece
<1>4. Overwritten(content, to, piece) = AP!Over(content, to, piece) /\ Overwritten(content, to, piece) \in Seq(Elements)
  BY <1>2, <1>3, OverwrittenIs DEF CallsInv
<1>5. AP!Leaves(A!mcr_Array_move(arr, to, from, count), Numbers, content, Overwritten(content, to, piece))
  <2>1. CASE count > 0
    <3>1. AP!AsMoved(AP!mcr_Array_move(arr, to, from, count), Numbers, content, to, from, count)
      BY <1>1, <1>2, <2>1, NumbersAre, AP!MoveLeaves DEF CallsInv
    <3> QED BY <1>3, <1>4, <3>1, SameMove DEF AP!AsMoved
  <2>2. CASE count = 0
    <3>1. A!mcr_Array_move(arr, to, from, count) = A!Done(arr)
      BY <2>2 DEF A!mcr_Array_move
    <3>2. Len(piece) = 0
      BY <1>2, <1>3, <2>2, AP!PartIs DEF CallsInv
    <3>3. Overwritten(content, to, piece) = content
      BY <1>2, <1>3, <1>4, <3>2, AP!OverNothing DEF CallsInv
    <3> QED BY <3>1, <3>3, DoneLeaves DEF CallsInv
  <2> QED BY <1>2, <2>1, <2>2
<1> QED BY <1>1, <1>4, <1>5, ArrayCallKeeps DEF piece

LEMMA ArrayResizeKeeps ==
  ASSUME CallsInv, ArrayResize
  PROVE  CallsInv'
<1>1. PICK n \in 0..CellLimit + 1 : Call(A!mcr_Array_resize(arr, n), First(content, n))
  BY DEF ArrayResize
<1>2. n \in Nat /\ n \in Int
  BY ArrayAssumption
<1>3. First(content, n) = SubSeq(content, 1, AP!Least(n, Len(content))) /\ First(content, n) \in Seq(Elements)
  BY <1>2, FirstAre DEF CallsInv
<1>4. AP!Leaves(A!mcr_Array_resize(arr, n), Numbers, content, First(content, n))
  BY <1>2, <1>3, NumbersAre, SameResize, AP!ResizeLeaves DEF CallsInv
<1> QED BY <1>1, <1>3, <1>4, ArrayCallKeeps

LEMMA KeptLeaves ==
  ASSUME CallsInv, NEW r, AP!Keeps(r, Numbers, arr)
  PROVE  AP!Leaves(r, Numbers, content, content)
BY NumbersAre, AP!KeptHolds DEF CallsInv

LEMMA ArrayMinsizeKeeps ==
  ASSUME CallsInv, ArrayMinsize
  PROVE  CallsInv'
<1>1. PICK n \in 0..CellLimit + 1 : Call(A!mcr_Array_minsize(arr, n), content)
  BY DEF ArrayMinsize
<1>2. n \in Nat
  BY ArrayAssumption
<1>3. AP!Keeps(A!mcr_Array_minsize(arr, n), Numbers, arr)
  BY <1>2, NumbersAre, SameMinsize, AP!MinsizeKeeps DEF CallsInv
<1>4. AP!Leaves(A!mcr_Array_minsize(arr, n), Numbers, content, content)
  BY <1>3, KeptLeaves
<1> QED BY <1>1, <1>4, ArrayCallKeeps DEF CallsInv

LEMMA ArrayTrimKeeps ==
  ASSUME CallsInv, ArrayTrim
  PROVE  CallsInv'
<1>3. AP!Keeps(A!Done(A!mcr_Array_trim(arr)), Numbers, arr)
  BY NumbersAre, SameTrim, SameResults, AP!TrimKeeps DEF CallsInv
<1>4. AP!Leaves(A!Done(A!mcr_Array_trim(arr)), Numbers, content, content)
  BY <1>3, KeptLeaves
<1> QED BY <1>4, ArrayCallKeeps DEF CallsInv, ArrayTrim

LEMMA ArrayClearKeeps ==
  ASSUME CallsInv, ArrayClear
  PROVE  CallsInv'
<1>1. AP!IsArray(A!mcr_Array_clear(arr), Numbers) /\ AP!Holds(A!mcr_Array_clear(arr), << >>)
  BY SameResults, AP!ClearLeaves DEF CallsInv
<1>2. AP!Leaves(A!Done(A!mcr_Array_clear(arr)), Numbers, content, << >>)
  BY <1>1, DoneLeaves
<1>3. << >> \in Seq(Elements)
  OBVIOUS
<1> QED BY <1>2, <1>3, ArrayCallKeeps DEF ArrayClear

LEMMA EmptyHolds ==
  AP!IsArray(A!mcr_Array_deinit, Numbers) /\ AP!Holds(A!mcr_Array_deinit, << >>)
BY NumbersAre, SameResults, AP!DeinitIs

LEMMA ArrayDeinitKeeps ==
  ASSUME CallsInv, ArrayDeinit
  PROVE  CallsInv'
<1>2. AP!Leaves(A!Done(A!mcr_Array_deinit), Numbers, content, << >>)
  BY EmptyHolds, DoneLeaves
<1>3. << >> \in Seq(Elements)
  OBVIOUS
<1> QED BY <1>2, <1>3, ArrayCallKeeps DEF ArrayDeinit

LEMMA SortedIs ==
  ASSUME NEW s \in Seq(Elements)
  PROVE  Sorted(s) = AP!Arranged(s) /\ Sorted(s) \in Seq(Elements) /\ AP!IsInOrder(Sorted(s))
<1>1. Sorted(s) = AP!Arranged(s)
  BY SameArranged DEF Sorted
<1> QED BY <1>1, NumbersAre, AP!ArrangedIs DEF AP!IsArrangement

LEMMA ArraySortKeeps ==
  ASSUME CallsInv, ArraySort
  PROVE  CallsInv'
<1>1. Sorted(content) = AP!Arranged(content) /\ Sorted(content) \in Seq(Elements)
  BY SortedIs DEF CallsInv
<1>2. AP!IsArray(A!mcr_Array_sort(arr), Numbers) /\ AP!Holds(A!mcr_Array_sort(arr), Sorted(content))
  BY <1>1, NumbersAre, SameSort, AP!SortLeaves DEF CallsInv
<1>3. AP!Leaves(A!Done(A!mcr_Array_sort(arr)), Numbers, content, Sorted(content))
  BY <1>2, DoneLeaves
<1> QED BY <1>1, <1>3, ArrayCallKeeps DEF ArraySort

LEMMA InOrderIs ==
  ASSUME NEW s \in Seq(Elements)
  PROVE  InOrder(s) <=> AP!IsInOrder(s)
<1>1. \A i \in 1..Len(s) : s[i] \in Int
  <2>1. \A i \in 1..Len(s) : s[i] \in Elements
    OBVIOUS
  <2> QED BY <2>1, ArrayAssumption
<1> QED BY <1>1 DEF InOrder, IsSorted, AP!IsInOrder, Lower

LEMMA SameAddAll ==
  ASSUME NEW a, NEW src
  PROVE  A!mcr_Array_add(a, src, FALSE) = AP!mcr_Array_add(a, src, FALSE)
BY SameSmartsize, SameAppend, SameSort, SameResults DEF A!mcr_Array_add, AP!mcr_Array_add, A!Then, AP!Then

LEMMA ArrayAddKeeps ==
  ASSUME CallsInv, ArrayAdd
  PROVE  CallsInv'
<1>1. PICK src \in Sources :
        InOrder(content) /\ Call(A!mcr_Array_add(arr, src, FALSE), Sorted(content \o src))
  BY DEF ArrayAdd, CallOnSorted
<1>2. src \in Seq(Elements) /\ content \o src \in Seq(Elements)
  BY ArrayAssumption DEF Sources, CallsInv
<1>3. Sorted(content \o src) = AP!Arranged(content \o src) /\ Sorted(content \o src) \in Seq(Elements)
  BY <1>2, SortedIs
<1>4. AP!IsInOrder(content)
  BY <1>1, InOrderIs DEF CallsInv
<1>5. AP!Leaves(A!mcr_Array_add(arr, src, FALSE), Numbers, content, Sorted(content \o src))
  BY <1>2, <1>3, <1>4, NumbersAre, SameAddAll, AP!AddLeaves DEF CallsInv
<1> QED BY <1>1, <1>3, <1>5, ArrayCallKeeps

-----------------------------------------------------------------------------
(* Removing what is equal to an element, in turn.                          *)

CallPurging(x, b, n) ==
  LET i == A!mcr_Array_find(b, x) IN IF i = 0 THEN b ELSE A!mcr_Array_remove_index(b, i - 1, 1)

CallPurges == INSTANCE FoldProofs WITH Op <- CallPurging

LEMMA CallRemoveFolds ==
  ASSUME NEW a, NEW x
  PROVE  A!mcr_Array_remove(a, x) = CallPurges!Folded(x, a, AP!Turns(a))
BY DEF A!mcr_Array_remove, AP!Turns, CallPurging, CallPurges!Folded, A!OneByOne, A!MapThenFoldSet,
   CallPurges!MapThenFoldSet, CallPurges!Greatest

LEMMA SameRemove ==
  ASSUME NEW a, AP!IsArray(a, Numbers), AP!IsInOrder(AP!Contents(a)), NEW x \in Numbers
  PROVE  A!mcr_Array_remove(a, x) = AP!mcr_Array_remove(a, x)
<1> DEFINE w == AP!Purged(AP!Contents(a), x)
           B == AP!Removals(Numbers, x, w)
           N == a.used
           turns == AP!Turns(a)
<1>1. a \in B /\ N \in Nat /\ turns \in Seq(Nat) /\ Len(turns) = N /\ \A n \in 1..N : turns[n] = n
  BY DEF AP!Removals, AP!IsArray, AP!Turns
<1> HIDE DEF w
<1>2. PICK g : AP!PurgesInTurn(g, Numbers, a, x, w, AP!mcr_Array_remove(a, x))
  BY <1>1, NumbersAre, AP!RemovesOneByOne
<1>3. /\ g[0] = a /\ g[N] = AP!mcr_Array_remove(a, x) /\ g \in [0..N -> B]
      /\ \A n \in 1..N : g[n] = AP!Purging(x, g[n - 1], n)
  BY <1>2 DEF AP!PurgesInTurn
<1>4. \A b, n : CallPurging(x, b, n) = AP!Purging(x, b, n)
  BY SameFind, SameRemoveIndex DEF CallPurging, AP!Purging
<1>5. CallPurges!Closed(x, B, Nat)
  BY <1>4, NumbersAre, AP!PurgingClosed DEF CallPurges!Closed
<1> HIDE DEF turns, B
<1>6. PICK h \in [0..N -> B] : CallPurges!Steps(h, x, a, turns) /\ h[N] = CallPurges!Folded(x, a, turns)
  <2> HIDE DEF N
  <2> QED BY <1>1, <1>5, CallPurges!FoldSteps
<1>7. h[0] = a /\ \A n \in 1..N : h[n] = CallPurging(x, h[n - 1], n)
  BY <1>1, <1>6 DEF CallPurges!Steps
<1> DEFINE Q == {n \in 0..N : g[n] = h[n]}
<1>8. 0 \in Q
  BY <1>1, <1>3, <1>7
<1>9. ASSUME NEW n \in 0..N - 1, n \in Q PROVE n + 1 \in Q
  <2>1. n + 1 \in 1..N /\ (n + 1) - 1 = n /\ n + 1 \in 0..N
    BY <1>1
  <2> QED BY <1>3, <1>4, <1>7, <1>9, <2>1
<1> HIDE DEF Q
<1>10. \A n \in 0..N - 1 : n \in Q => n + 1 \in Q
  BY <1>9
<1>11. \A n \in 0..N : n \in Q
  <2> HIDE DEF N
  <2> QED BY <1>1, <1>8, <1>10, CallPurges!CountingUp
<1>12. g[N] = h[N]
  BY <1>1, <1>11 DEF Q
<1> QED BY <1>3, <1>6, <1>12, CallRemoveFolds DEF turns

LEMMA CountedIs ==
  ASSUME NEW s \in Seq(Elements), NEW x \in Elements
  PROVE  /\ Counted(s, LAMBDA y : y < x) = AP!Cardinality(AP!Below(s, x))
         /\ Counted(s, LAMBDA y : y = x) = AP!Cardinality(AP!Likes(s, x))
<1>1. \A i \in 1..Len(s) : s[i] \in Int
  <2>1. \A i \in 1..Len(s) : s[i] \in Elements
    OBVIOUS
  <2> QED BY <2>1, ArrayAssumption
<1>2. x \in Int /\ DOMAIN s = 1..Len(s)
  BY ArrayAssumption
<1>3. {i \in DOMAIN s : s[i] < x} = AP!Below(s, x)
  BY <1>1, <1>2 DEF AP!Below, Lower
<1>4. {i \in DOMAIN s : s[i] = x} = AP!Likes(s, x)
  BY <1>1, <1>2 DEF AP!Likes, AP!Alike, Lower
<1>5. \A S : Cardinality(S) = AP!Cardinality(S)
  BY DEF Cardinality, AP!Cardinality
<1> QED BY <1>3, <1>4, <1>5 DEF Counted

LEMMA PurgedIs ==
  ASSUME NEW s \in Seq(Elements), InOrder(s), NEW x \in Elements
  PROVE  LET t == Removed(s, Counted(s, LAMBDA y : y < x), Counted(s, LAMBDA y : y = x))
         IN t = AP!Purged(s, x) /\ t \in Seq(Elements)
<1> DEFINE p == AP!Cardinality(AP!Below(s, x))
           n == AP!Cardinality(AP!Likes(s, x))
<1>1. PICK i, j \in 0..Len(s) : AP!AsParted(s, x, i, j)
  BY NumbersAre, InOrderIs, AP!Parts
<1>2. p = i /\ n = j - i /\ i <= j
  <2>1. Len(s) \in Nat /\ i <= j
    BY <1>1 DEF AP!AsParted
  <2> QED BY <1>1, <2>1, AP!PartsCounted
<1>3. p \in 0..Len(s) /\ n \in Nat /\ n = AP!Least(p + n, Len(s)) - p
  BY <1>2 DEF AP!Least
<1>4. Counted(s, LAMBDA y : y < x) = p /\ Counted(s, LAMBDA y : y = x) = n
  BY CountedIs
<1>5. AP!Purged(s, x) = AP!Without(s, p, n)
  BY DEF AP!Purged
<1> HIDE DEF p, n
<1>6. Removed(s, p, n) = AP!Without(s, p, n) /\ Removed(s, p, n) \in Seq(Elements)
  BY <1>3, RemovedIs
<1> QED BY <1>4, <1>5, <1>6

LEMMA ArrayRemoveKeeps ==
  ASSUME CallsInv, ArrayRemove
  PROVE  CallsInv'
<1> DEFINE Left(x) == Removed(content, Counted(content, LAMBDA y : y < x), Counted(content, LAMBDA y : y = x))
<1>1. PICK x \in Elements : InOrder(content) /\ Call(A!Done(A!mcr_Array_remove(arr, x)), Left(x))
  BY DEF ArrayRemove, CallOnSorted
<1>2. Left(x) = AP!Purged(content, x) /\ Left(x) \in Seq(Elements)
  BY <1>1, PurgedIs DEF CallsInv
<1> HIDE DEF Left
<1> DEFINE a == A!mcr_Array_remove(arr, x)
<1>3. AP!IsInOrder(content) /\ x \in Numbers /\ content \in Seq(Numbers) /\ AP!Contents(arr) = content
  BY <1>1, NumbersAre, InOrderIs, AP!HoldsIts DEF CallsInv
<1>4. a = AP!mcr_Array_remove(arr, x)
  BY <1>3, SameRemove DEF CallsInv
<1>5. AP!IsArray(a, Numbers) /\ AP!Holds(a, Left(x))
  BY <1>2, <1>3, <1>4, NumbersAre, AP!RemoveAllLeaves DEF CallsInv
<1> HIDE DEF a
<1>6. AP!Leaves(A!Done(a), Numbers, content, Left(x))
  BY <1>5, DoneLeaves
<1> QED BY <1>1, <1>2, <1>6, ArrayCallKeeps DEF a

-----------------------------------------------------------------------------
(* Adding one element after the other.                                     *)

CallAdding(q, r, x) ==
  IF r.failed \/ A!mcr_Array_find(r.arr, x) # 0 THEN r
  ELSE A!Then(A!mcr_Array_push(r.arr, x), LAMBDA b : A!Done(A!mcr_Array_sort(b)))

CallAdds == INSTANCE FoldProofs WITH Op <- CallAdding

LEMMA CallAddFolds ==
  ASSUME NEW a, NEW src, src # << >>, ~ A!mcr_Array_smartsize(a, Len(src)).failed
  PROVE  A!mcr_Array_add(a, src, TRUE) = CallAdds!Folded(0, A!Done(A!mcr_Array_smartsize(a, Len(src)).arr), src)
<1>1. A!mcr_Array_add(a, src, TRUE)
        = A!OneByOne(LAMBDA r, x : IF r.failed \/ A!mcr_Array_find(r.arr, x) # 0 THEN r
                                   ELSE A!Then(A!mcr_Array_push(r.arr, x), LAMBDA b : A!Done(A!mcr_Array_sort(b))),
                     A!Done(A!mcr_Array_smartsize(a, Len(src)).arr), src)
  BY DEF A!mcr_Array_add, A!Then
<1> QED
  BY <1>1 DEF CallAdding, CallAdds!Folded, A!OneByOne, A!MapThenFoldSet, CallAdds!MapThenFoldSet, CallAdds!Greatest

LEMMA SameAddUnique ==
  ASSUME NEW a, AP!IsArray(a, Numbers), NEW s \in Seq(Numbers), AP!Holds(a, s), AP!IsInOrder(s),
         NEW src \in Seq(Numbers)
  PROVE  A!mcr_Array_add(a, src, TRUE) = AP!mcr_Array_add(a, src, TRUE)
<1> DEFINE q == AP!mcr_Array_smartsize(a, Len(src))
           B == AP!Additions(Numbers)
           N == Len(src)
<1>1. q = A!mcr_Array_smartsize(a, Len(src))
  BY SameSmartsize
<1>2. CASE src = << >>
  BY <1>2, SameResults DEF A!mcr_Array_add, AP!mcr_Array_add
<1>3. CASE src # << >> /\ q.failed
  BY <1>1, <1>3 DEF A!mcr_Array_add, AP!mcr_Array_add, A!Then, AP!Then
<1>4. CASE src # << >> /\ ~ q.failed
  <2>1. AP!IsArray(q.arr, Numbers) /\ AP!Contents(q.arr) = s /\ N \in Nat
    <3>1. AP!Keeps(q, Numbers, a)
      BY NumbersAre, AP!SmartsizeKeeps
    <3> HIDE DEF q
    <3> QED BY <3>1, AP!KeptHolds, AP!HoldsIts
  <2>2. PICK g : AP!AddsInTurn(g, Numbers, q.arr, src, AP!mcr_Array_add(a, src, TRUE))
    BY <1>4, <2>1, NumbersAre, AP!AddsOneByOne
  <2>3. /\ g[0] = AP!Done(q.arr) /\ g[N] = AP!mcr_Array_add(a, src, TRUE) /\ g \in [0..N -> B]
        /\ \A n \in 1..N : g[n] = AP!Adding(0, g[n - 1], src[n])
    BY <2>2 DEF AP!AddsInTurn
  <2>4. \A r, x : CallAdding(0, r, x) = AP!Adding(0, r, x)
    BY SameFind, SamePush, SameSort, SameResults DEF CallAdding, AP!Adding, A!Then, AP!Then
  <2>5. CallAdds!Closed(0, B, Numbers)
    BY <2>4, NumbersAre, AP!AddingClosed DEF CallAdds!Closed
  <2> DEFINE base == A!Done(q.arr)
  <2>6. base = g[0] /\ base \in B
    BY <2>1, <2>3, SameResults
  <2>7. A!mcr_Array_add(a, src, TRUE) = CallAdds!Folded(0, base, src)
    BY <1>1, <1>4, CallAddFolds
  <2> HIDE DEF base, B, q
  <2>8. PICK h \in [0..N -> B] : CallAdds!Steps(h, 0, base, src) /\ h[N] = CallAdds!Folded(0, base, src)
    BY <2>5, <2>6, CallAdds!FoldSteps
  <2>9. h[0] = base /\ \A n \in 1..N : h[n] = CallAdding(0, h[n - 1], src[n])
    BY <2>8 DEF CallAdds!Steps
  <2> DEFINE Q == {n \in 0..N : g[n] = h[n]}
  <2>10. 0 \in Q
    BY <2>1, <2>6, <2>9
  <2>11. ASSUME NEW n \in 0..N - 1, n \in Q PROVE n + 1 \in Q
    <3>1. n + 1 \in 1..N /\ (n + 1) - 1 = n /\ n + 1 \in 0..N
      BY <2>1
    <3> QED BY <2>3, <2>4, <2>9, <2>11, <3>1
  <2> HIDE DEF Q
  <2>12. \A n \in 0..N - 1 : n \in Q => n + 1 \in Q
    BY <2>11
  <2>13. \A n \in 0..N : n \in Q
    <3> HIDE DEF N
    <3> QED BY <2>1, <2>10, <2>12, CallAdds!CountingUp
  <2>14. g[N] = h[N]
    BY <2>1, <2>13 DEF Q
  <2> QED BY <2>3, <2>7, <2>8, <2>14
<1> QED BY <1>2, <1>3, <1>4

OnceAdding(q, t, x) == IF Contains(t, x) THEN t ELSE Sorted(Append(t, x))

OnceAdds == INSTANCE FoldProofs WITH Op <- OnceAdding

LEMMA OnceFolds ==
  ASSUME NEW s, NEW src
  PROVE  AddedOnce(s, src) = OnceAdds!Folded(0, s, src)
BY DEF AddedOnce, OnceAdding, OnceAdds!Folded, FoldLeft, MapThenFoldSet, OnceAdds!MapThenFoldSet, Max,
   OnceAdds!Greatest

LEMMA OnceClosed == OnceAdds!Closed(0, Seq(Elements), Elements)
<1>1. ASSUME NEW t \in Seq(Elements), NEW x \in Elements PROVE OnceAdding(0, t, x) \in Seq(Elements)
  <2>1. Append(t, x) \in Seq(Elements)
    OBVIOUS
  <2> QED BY <2>1, SortedIs DEF OnceAdding
<1> QED BY <1>1 DEF OnceAdds!Closed

\* g goes from one addition to the next.
OnceInTurn(g, s, src) ==
  /\ g \in [0..Len(src) -> Seq(Elements)] /\ g[0] = s
  /\ \A n \in 1..Len(src) : g[n] = OnceAdding(0, g[n - 1], src[n])

LEMMA OnceSteps ==
  ASSUME NEW s \in Seq(Elements), NEW src \in Seq(Elements)
  PROVE  \E g : OnceInTurn(g, s, src) /\ AddedOnce(s, src) = g[Len(src)]
<1>1. PICK g \in [0..Len(src) -> Seq(Elements)] :
        OnceAdds!Steps(g, 0, s, src) /\ g[Len(src)] = OnceAdds!Folded(0, s, src)
  BY OnceClosed, OnceAdds!FoldSteps
<1>2. OnceInTurn(g, s, src)
  BY <1>1 DEF OnceAdds!Steps, OnceInTurn
<1> QED BY <1>1, <1>2, OnceFolds

LEMMA OncePrefix ==
  ASSUME NEW s \in Seq(Elements), NEW src \in Seq(Elements), NEW g, OnceInTurn(g, s, src), NEW m \in 0..Len(src)
  PROVE  AddedOnce(s, First(src, m)) = g[m]
<1> DEFINE piece == First(src, m)
<1>1. piece \in Seq(Elements) /\ Len(piece) = m /\ \A n \in 1..m : piece[n] = src[n]
  <2>1. piece = SubSeq(src, 1, m) /\ piece \in Seq(Elements)
    BY FirstAre
  <2> HIDE DEF piece
  <2> QED BY <2>1
<1> HIDE DEF piece
<1>2. PICK h : OnceInTurn(h, s, piece) /\ AddedOnce(s, piece) = h[m]
  BY <1>1, OnceSteps
<1>3. h[0] = s /\ \A n \in 1..m : h[n] = OnceAdding(0, h[n - 1], src[n])
  BY <1>1, <1>2 DEF OnceInTurn
<1>4. g[0] = s /\ (\A n \in 1..m : g[n] = OnceAdding(0, g[n - 1], src[n])) /\ m \in Nat
  BY DEF OnceInTurn
<1> DEFINE Q == {n \in 0..m : g[n] = h[n]}
<1>5. 0 \in Q
  BY <1>3, <1>4
<1>6. ASSUME NEW n \in 0..m - 1, n \in Q PROVE n + 1 \in Q
  <2>1. n + 1 \in 1..m /\ (n + 1) - 1 = n /\ n + 1 \in 0..m
    BY <1>4
  <2> QED BY <1>3, <1>4, <1>6, <2>1
<1> HIDE DEF Q
<1>7. \A n \in 0..m - 1 : n \in Q => n + 1 \in Q
  BY <1>6
<1>8. \A n \in 0..m : n \in Q
  BY <1>4, <1>5, <1>7, OnceAdds!CountingUp
<1>9. g[m] = h[m]
  BY <1>4, <1>8 DEF Q
<1> QED BY <1>2, <1>9 DEF piece

LEMMA OnceIncludes ==
  ASSUME NEW t \in Seq(Elements), NEW x \in Elements
  PROVE  OnceAdding(0, t, x) = AP!Including(t, x)
<1>1. Contains(t, x) <=> \E i \in 1..Len(t) : AP!Alike(t[i], x)
  <2>1. \A i \in 1..Len(t) : t[i] \in Elements
    OBVIOUS
  <2>2. \A i \in 1..Len(t) : t[i] \in Int /\ x \in Int
    BY <2>1, ArrayAssumption
  <2> QED BY <2>2 DEF Contains, AP!Alike, Lower
<1>2. Append(t, x) \in Seq(Elements)
  OBVIOUS
<1>3. Sorted(Append(t, x)) = AP!Arranged(Append(t, x))
  BY <1>2, SortedIs
<1> QED BY <1>1, <1>3 DEF OnceAdding, AP!Including

LEMMA ArrayAddUniqueKeeps ==
  ASSUME CallsInv, ArrayAddUnique
  PROVE  CallsInv'
<1> DEFINE Result(src) == A!mcr_Array_add(arr, src, TRUE)
           Missing(src) == SelectInSeq(src, LAMBDA x : A!mcr_Array_find(Result(src).arr, x) = 0)
           Number(src) == IF Result(src).failed THEN Missing(src) - 1 ELSE Len(src)
<1>1. PICK src \in Sources :
        /\ InOrder(content) /\ arr' = Result(src).arr
        /\ content' = AddedOnce(content, First(src, Number(src)))
  BY DEF ArrayAddUnique
<1>2. src \in Seq(Elements) /\ Len(src) \in Nat /\ content \in Seq(Elements)
  BY ArrayAssumption DEF Sources, CallsInv
<1>3. AP!IsInOrder(content) /\ content \in Seq(Numbers) /\ src \in Seq(Numbers)
  BY <1>1, <1>2, NumbersAre, InOrderIs
<1> DEFINE r == Result(src)
<1>4. r = AP!mcr_Array_add(arr, src, TRUE)
  BY <1>3, SameAddUnique DEF CallsInv
<1>5. PICK g : OnceInTurn(g, content, src)
  BY <1>2, OnceSteps
<1>6. AP!InTurns(g, content, src) /\ g \in [0..Len(src) -> Seq(Numbers)] /\ g \in [0..Len(src) -> Seq(Elements)]
  <2>1. ASSUME NEW n \in 1..Len(src) PROVE g[n] = AP!Including(g[n - 1], src[n])
    <3>1. n - 1 \in 0..Len(src) /\ src[n] \in Elements
      BY <1>2
    <3> QED BY <1>5, <3>1, OnceIncludes DEF OnceInTurn
  <2>2. g \in [0..Len(src) -> Seq(Numbers)]
    BY <1>5, NumbersAre DEF OnceInTurn
  <2> QED BY <1>5, <2>1, <2>2 DEF OnceInTurn, AP!InTurns
<1>7. AP!IsArray(r.arr, Numbers) /\ \E m \in 0..Len(src) : AP!AddedUpTo(r, g, m, src)
  BY <1>3, <1>4, <1>6, NumbersAre, AP!AddUniqueLeaves DEF CallsInv
<1>8. PICK m \in 0..Len(src) : AP!AddedUpTo(r, g, m, src)
  BY <1>7
<1> HIDE DEF Result
<1> DEFINE I == {i \in 1..Len(src) : A!mcr_Array_find(r.arr, src[i]) = 0}
<1>9. Missing(src) = IF I # {} THEN Min(I) ELSE 0
  BY DEF SelectInSeq
<1>10. /\ AP!Holds(r.arr, g[m])
       /\ ~ r.failed => m = Len(src)
       /\ r.failed => \/ /\ m < Len(src) /\ A!mcr_Array_find(r.arr, src[m + 1]) = 0
                         /\ \A j \in 1..m : A!mcr_Array_find(r.arr, src[j]) # 0
                      \/ m = 0 /\ \A j \in 1..Len(src) : A!mcr_Array_find(r.arr, src[j]) # 0
  BY <1>8, SameFind DEF AP!AddedUpTo
<1> HIDE DEF Missing
<1>11. First(src, Number(src)) = First(src, m)
  <2>1. CASE ~ r.failed
    BY <1>10, <2>1
  <2>2. CASE r.failed /\ I # {}
    <3>1. m + 1 \in I /\ \A i \in I : m + 1 <= i
      BY <1>2, <1>10, <2>2
    <3>2. Min(I) = m + 1
      <4>1. \A i \in I : i \in Int
        OBVIOUS
      <4> HIDE DEF I
      <4> QED BY <3>1, <4>1 DEF Min
    <3> HIDE DEF I, r
    <3>3. Missing(src) - 1 = m
      BY <1>9, <2>2, <3>2
    <3> QED BY <2>2, <3>3 DEF r
  <2>3. CASE r.failed /\ I = {}
    <3>1. m = 0
      BY <1>2, <1>10, <2>3
    <3>2. Number(src) = -1
      BY <1>9, <2>3
    <3>3. First(src, -1) = << >> /\ First(src, 0) = << >>
      <4>1. A!Least(-1, Len(src)) = -1 /\ A!Least(0, Len(src)) = 0
        BY <1>2 DEF A!Least
      <4> QED BY <1>2, <4>1 DEF First
    <3> QED BY <3>1, <3>2, <3>3
  <2> QED BY <2>1, <2>2, <2>3
<1>12. content' = g[m]
  BY <1>1, <1>2, <1>5, <1>11, OncePrefix
<1>13. content' \in Seq(Elements) /\ AP!Holds(arr', content') /\ AP!IsArray(arr', Numbers)
  BY <1>1, <1>6, <1>7, <1>10, <1>12
<1> QED BY <1>13 DEF CallsInv, AP!Holds, AP!IsArray

-----------------------------------------------------------------------------
LEMMA CallsHold ==
  ASSUME CallsInv
  PROVE  ArrayTypeOK /\ HoldsContent
<1>1. ArrayTypeOK
  BY DEF CallsInv, ArrayTypeOK, AP!IsArray, Numbers
<1>2. content \in Seq(Elements) /\ content \in Seq(Numbers) /\ AP!IsArray(arr, Numbers) /\ AP!Holds(arr, content)
  BY NumbersAre DEF CallsInv
<1>3. A!Contents(arr) = content
  BY <1>2, SameResults, AP!HoldsIts
<1>4. ASSUME InOrder(content), NEW x \in Elements, NEW i, i = A!mcr_Array_find(arr, x)
      PROVE  IF Contains(content, x) THEN i # 0 /\ arr.cells[i] = x ELSE i = 0
  <2>1. AP!Finds(i, content, x)
    BY <1>2, <1>4, NumbersAre, InOrderIs, SameFind, AP!FindFinds
  <2>2. \A j \in 1..Len(content) : content[j] \in Int /\ x \in Int
    <3>1. \A j \in 1..Len(content) : content[j] \in Elements
      BY <1>2
    <3> QED BY <3>1, ArrayAssumption
  <2>3. \A j \in 1..Len(content) : AP!Alike(content[j], x) <=> content[j] = x
    BY <2>2 DEF AP!Alike, Lower
  <2>4. \A j \in 1..Len(content) : arr.cells[j] = content[j]
    BY <1>2 DEF AP!Holds
  <2>5. CASE i = 0
    BY <2>1, <2>3, <2>5 DEF AP!Finds, Contains
  <2>6. CASE i # 0
    <3>1. i \in 1..Len(content) /\ content[i] = x
      BY <1>2, <2>1, <2>3, <2>6 DEF AP!Finds
    <3> QED BY <2>4, <2>6, <3>1 DEF Contains
  <2> QED BY <2>5, <2>6
<1> QED BY <1>1, <1>3, <1>4 DEF HoldsContent

LEMMA ArrayStays ==
  ASSUME ~ Misfills
  PROVE  ArraySpec => [](ArrayTypeOK /\ HoldsContent)
<1>1. ArrayInit => CallsInv
  BY EmptyHolds DEF ArrayInit, CallsInv
<1>2. CallsInv /\ [ArrayNext]_arrayVars => CallsInv'
  <2> SUFFICES ASSUME CallsInv, [ArrayNext]_arrayVars PROVE CallsInv'
    OBVIOUS
  <2>1. CASE UNCHANGED arrayVars
    BY <2>1 DEF arrayVars, CallsInv, AP!IsArray, AP!Holds
  <2>2. CASE ArrayNext
    BY <2>2, ArrayInsertKeeps, ArrayCopyKeeps, ArrayAppendKeeps, ArrayReplaceKeeps, ArrayRemoveIndexKeeps,
       ArrayPopKeeps,
       ArrayFillKeeps, ArrayMinfillKeeps, ArrayMoveKeeps, ArrayResizeKeeps, ArrayMinsizeKeeps, ArrayTrimKeeps,
       ArrayClearKeeps, ArrayDeinitKeeps, ArraySortKeeps, ArrayAddKeeps, ArrayAddUniqueKeeps, ArrayRemoveKeeps, Zenon
    DEF ArrayNext
  <2> QED BY <2>1, <2>2
<1> QED BY <1>1, <1>2, CallsHold, PTL DEF ArraySpec

-----------------------------------------------------------------------------
(* Strings                                                                 *)

\* a holds the characters of t and the one that ends them.
EndsAt(a, t) ==
  /\ a.used = Len(t) + 1
  /\ \A i \in 1..Len(t) : a.cells[i] = t[i]
  /\ a.cells[Len(t) + 1] = End

TextHolds(a, t) == IF a.used = 0 THEN t = << >> ELSE EndsAt(a, t)

\* What a call leaves of a string of s: one of t if it succeeds, of s if not.
TextLeaves(r, s, t) ==
  /\ r.failed \in BOOLEAN /\ AP!IsArray(r.arr, Numbers)
  /\ TextHolds(r.arr, IF r.failed THEN s ELSE t)

TextInv == text \in Seq(Letters) /\ AP!IsArray(str, Numbers) /\ TextHolds(str, text)

LEMMA LettersAre ==
  /\ End \in Numbers /\ End \in Elements /\ Letters \subseteq Elements /\ Letters \subseteq Numbers
  /\ \A s \in Seq(Letters) : s \in Seq(Elements) /\ s \in Seq(Numbers) /\ Len(s) \in Nat
  /\ \A s \in Seq(Letters) : \A i \in 1..Len(s) : s[i] # End
<1>1. End \in Numbers /\ End \in Elements /\ Letters \subseteq Elements /\ Letters \subseteq Numbers
  BY NumbersAre, ArrayAssumption DEF End, Letters
<1>2. ASSUME NEW s \in Seq(Letters) PROVE s \in Seq(Elements) /\ s \in Seq(Numbers) /\ Len(s) \in Nat
  <2>1. Len(s) \in Nat /\ s \in [1..Len(s) -> Letters]
    OBVIOUS
  <2>2. s \in [1..Len(s) -> Elements]
    BY <1>1, <2>1
  <2>3. s \in Seq(Elements)
    BY <2>1, <2>2
  <2> QED BY <2>1, <2>3, NumbersAre
<1>3. ASSUME NEW s \in Seq(Letters), NEW i \in 1..Len(s) PROVE s[i] # End
  <2>1. s[i] \in Letters
    OBVIOUS
  <2> QED BY <2>1 DEF Letters
<1> QED BY <1>1, <1>2, <1>3

LEMMA WordsAre ==
  ASSUME NEW s \in Words
  PROVE  s \in Seq(Letters) /\ s \in Seq(Elements) /\ s \in Seq(Numbers) /\ Len(s) \in Nat
<1>1. s \in Seq(Elements)
  BY ArrayAssumption DEF Words, Sources
<1>2. s \in Seq(Letters)
  <2>1. Len(s) \in Nat /\ s \in [1..Len(s) -> Elements] /\ \A i \in 1..Len(s) : s[i] # End
    BY <1>1 DEF Words
  <2>2. s \in [1..Len(s) -> Letters]
    BY <2>1 DEF Letters
  <2> QED BY <2>1, <2>2
<1> QED BY <1>2, LettersAre

LEMMA SaysKeeps ==
  ASSUME TextInv, NEW result, NEW expected, Says(result, expected),
         TextLeaves(result, text, expected), expected \in Seq(Letters)
  PROVE  TextInv'
<1>1. /\ result.failed \in BOOLEAN /\ AP!IsArray(result.arr, Numbers)
      /\ TextHolds(result.arr, IF result.failed THEN text ELSE expected)
  BY DEF TextLeaves
<1>2. str' = result.arr /\ text' = IF result.failed THEN text ELSE expected
  BY DEF Says
<1>3. text' \in Seq(Letters)
  BY <1>2 DEF TextInv
<1>4. AP!IsArray(str', Numbers) /\ TextHolds(str', text')
  BY <1>1, <1>2
<1> QED BY <1>3, <1>4 DEF TextInv, AP!IsArray, TextHolds, EndsAt

LEMMA TextDone ==
  ASSUME NEW a, AP!IsArray(a, Numbers), NEW s, NEW t
  PROVE  /\ TextHolds(a, t) => TextLeaves(A!Done(a), s, t)
         /\ TextHolds(a, s) => TextLeaves(A!Fails(a), s, t)
<1>1. A!Done(a).arr = a /\ ~ A!Done(a).failed /\ A!Done(a).failed \in BOOLEAN
  BY SameResults, AP!DoneIs
<1>2. A!Fails(a).arr = a /\ A!Fails(a).failed /\ A!Fails(a).failed \in BOOLEAN
  BY SameResults, AP!FailsIs
<1> QED BY <1>1, <1>2 DEF TextLeaves

LEMMA KeptText ==
  ASSUME NEW a, AP!IsArray(a, Numbers), NEW s \in Seq(Letters), TextHolds(a, s), NEW b,
         b.used = a.used, \A i \in 1..a.used : b.cells[i] = a.cells[i]
  PROVE  TextHolds(b, s)
<1>1. CASE a.used = 0
  BY <1>1 DEF TextHolds
<1>2. CASE a.used # 0
  <2>1. a.used = Len(s) + 1 /\ (\A i \in 1..Len(s) : a.cells[i] = s[i]) /\ a.cells[Len(s) + 1] = End /\ Len(s) \in Nat
    BY <1>2 DEF TextHolds, EndsAt
  <2>2. \A i \in 1..Len(s) : b.cells[i] = s[i]
    BY <2>1
  <2>3. b.cells[Len(s) + 1] = End
    BY <2>1
  <2> QED BY <1>2, <2>1, <2>2, <2>3 DEF TextHolds, EndsAt
<1> QED BY <1>1, <1>2

LEMMA KeepsText ==
  ASSUME NEW a, AP!IsArray(a, Numbers), NEW s \in Seq(Letters), TextHolds(a, s), NEW r, AP!Keeps(r, Numbers, a)
  PROVE  r.failed \in BOOLEAN /\ AP!IsArray(r.arr, Numbers) /\ TextHolds(r.arr, s) /\ TextLeaves(r, s, s)
<1>1. /\ r.failed \in BOOLEAN /\ AP!IsArray(r.arr, Numbers) /\ r.arr.used = a.used
      /\ \A i \in 1..a.used : r.arr.cells[i] = a.cells[i]
  BY DEF AP!Keeps
<1>2. TextHolds(r.arr, s)
  BY <1>1, KeptText
<1> QED BY <1>1, <1>2 DEF TextLeaves

AsPut(w, cells, pos, src) ==
  /\ w \in Seq(Numbers) /\ Len(w) = Len(cells)
  /\ \A i \in 1..Len(cells) : pos < i /\ i <= pos + Len(src) => w[i] = src[i - pos]
  /\ \A i \in 1..Len(cells) : ~ (pos < i /\ i <= pos + Len(src)) => w[i] = cells[i]

LEMMA PutIs ==
  ASSUME NEW cells \in Seq(Numbers), NEW src \in Seq(Numbers), NEW pos \in Int
  PROVE  AsPut(Put(cells, pos, src), cells, pos, src)
<1> DEFINE w == Put(cells, pos, src)
<1>1. Len(cells) \in Nat /\ Len(src) \in Nat /\ DOMAIN cells = 1..Len(cells) /\ DOMAIN src = 1..Len(src)
  OBVIOUS
<1>2. \A i \in 1..Len(cells) : i - pos \in DOMAIN src <=> pos < i /\ i <= pos + Len(src)
  BY <1>1
<1>3. \A i \in 1..Len(cells) : w[i] = IF pos < i /\ i <= pos + Len(src) THEN src[i - pos] ELSE cells[i]
  BY <1>1, <1>2 DEF Put
<1>4. w \in [1..Len(cells) -> Numbers]
  <2>1. \A i \in 1..Len(src) : src[i] \in Numbers
    OBVIOUS
  <2>2. \A i \in 1..Len(cells) : cells[i] \in Numbers
    OBVIOUS
  <2> QED BY <1>1, <2>1, <2>2 DEF Put
<1>5. w \in Seq(Numbers) /\ Len(w) = Len(cells)
  BY <1>1, <1>4
<1> QED BY <1>3, <1>5 DEF AsPut

LEMMA EndedIs ==
  ASSUME NEW a \in [cells : Seq(Numbers), used : Nat], Len(a.cells) <= CellLimit,
         NEW t \in Seq(Letters), Len(t) < Len(a.cells), \A i \in 1..Len(t) : a.cells[i] = t[i]
  PROVE  AP!IsArray(Ended(a, Len(t)), Numbers) /\ EndsAt(Ended(a, Len(t)), t) /\ TextHolds(Ended(a, Len(t)), t)
         /\ A!Size(Ended(a, Len(t))) = Len(a.cells)
<1> DEFINE n == Len(t)
           e == << End >>
           w == Put(a.cells, n, e)
           b == Ended(a, n)
<1>1. n \in Nat /\ n \in Int /\ a.cells \in Seq(Numbers) /\ Len(a.cells) \in Nat /\ e \in Seq(Numbers) /\ Len(e) = 1 /\ e[1] = End
  BY LettersAre
<1>2. AsPut(w, a.cells, n, e)
  BY <1>1, PutIs
<1>3. b = [cells |-> w, used |-> n + 1]
  <2>1. b = [a EXCEPT !.cells = w, !.used = n + 1]
    BY DEF Ended
  <2> HIDE DEF w, b
  <2> QED BY <2>1
<1> HIDE DEF w, b, e
<1>4. w \in Seq(Numbers) /\ Len(w) = Len(a.cells)
  BY <1>2 DEF AsPut
<1>5. w[n + 1] = End
  <2>1. n + 1 \in 1..Len(a.cells) /\ n < n + 1 /\ n + 1 <= n + Len(e) /\ (n + 1) - n = 1
    BY <1>1
  <2>2. w[n + 1] = e[(n + 1) - n]
    BY <1>2, <2>1 DEF AsPut
  <2> QED BY <1>1, <2>1, <2>2
<1>6. \A i \in 1..n : w[i] = t[i]
  BY <1>1, <1>2 DEF AsPut
<1>7. b \in [cells : Seq(Numbers), used : Nat] /\ b.cells = w /\ b.used = n + 1
  BY <1>1, <1>3, <1>4
<1>8. AP!IsArray(b, Numbers)
  BY <1>1, <1>4, <1>7 DEF AP!IsArray
<1>9. EndsAt(b, t) /\ TextHolds(b, t)
  BY <1>1, <1>5, <1>6, <1>7 DEF EndsAt, TextHolds
<1> QED BY <1>4, <1>7, <1>8, <1>9 DEF A!Size, b

LEMMA ClearText ==
  ASSUME NEW a, AP!IsArray(a, Numbers)
  PROVE  /\ AP!IsArray(mcr_String_clear(a), Numbers) /\ TextHolds(mcr_String_clear(a), << >>)
         /\ A!Size(a) > 0 => EndsAt(mcr_String_clear(a), << >>) /\ A!Size(mcr_String_clear(a)) = A!Size(a)
<1>1. a \in [cells : Seq(Numbers), used : Nat] /\ Len(a.cells) <= CellLimit /\ a.used <= Len(a.cells) /\ Len(a.cells) \in Nat
  BY DEF AP!IsArray
<1>2. CASE A!Size(a) > 0
  <2>1. << >> \in Seq(Letters) /\ Len(<< >>) = 0
    OBVIOUS
  <2>2. mcr_String_clear(a) = Ended(a, Len(<< >>))
    BY <1>2, <2>1 DEF mcr_String_clear
  <2>3. 0 < Len(a.cells) /\ \A i \in 1..0 : a.cells[i] = << >>[i]
    BY <1>1, <1>2 DEF A!Size
  <2> QED BY <1>1, <2>1, <2>2, <2>3, EndedIs DEF A!Size
<1>3. CASE ~ A!Size(a) > 0
  BY <1>1, <1>3 DEF mcr_String_clear, TextHolds, A!Size
<1> QED BY <1>2, <1>3

LEMMA TextClearKeeps ==
  ASSUME TextInv, TextClear \/ TextDeinit
  PROVE  TextInv'
<1>1. << >> \in Seq(Letters)
  OBVIOUS
<1>2. AP!IsArray(mcr_String_clear(str), Numbers) /\ TextHolds(mcr_String_clear(str), << >>)
  BY ClearText DEF TextInv
<1>3. AP!IsArray(A!mcr_Array_deinit, Numbers) /\ TextHolds(A!mcr_Array_deinit, << >>)
  BY EmptyHolds DEF TextHolds, A!mcr_Array_deinit
<1>4. TextLeaves(A!Done(mcr_String_clear(str)), text, << >>) /\ TextLeaves(A!Done(A!mcr_Array_deinit), text, << >>)
  BY <1>2, <1>3, TextDone
<1> QED BY <1>1, <1>4, SaysKeeps DEF TextClear, TextDeinit

LEMMA TextSizeKeeps ==
  ASSUME TextInv, TextMinlen \/ TextTrim
  PROVE  TextInv'
<1>1. CASE TextMinlen
  <2>1. PICK n \in 0..CellLimit : Says(A!mcr_Array_minsize(str, n + 1), text)
    BY <1>1 DEF TextMinlen
  <2>2. n + 1 \in Nat
    BY ArrayAssumption
  <2>3. AP!Keeps(A!mcr_Array_minsize(str, n + 1), Numbers, str)
    BY <2>2, NumbersAre, SameMinsize, AP!MinsizeKeeps DEF TextInv
  <2>4. TextLeaves(A!mcr_Array_minsize(str, n + 1), text, text)
    BY <2>3, KeepsText DEF TextInv
  <2> QED BY <2>1, <2>4, SaysKeeps DEF TextInv
<1>2. CASE TextTrim
  <2>1. AP!Keeps(A!Done(A!mcr_Array_trim(str)), Numbers, str)
    BY NumbersAre, SameTrim, SameResults, AP!TrimKeeps DEF TextInv
  <2>2. TextLeaves(A!Done(A!mcr_Array_trim(str)), text, text)
    BY <2>1, KeepsText DEF TextInv
  <2> QED BY <1>2, <2>2, SaysKeeps DEF TextInv, TextTrim
<1> QED BY <1>1, <1>2

LEMMA TextResizeKeeps ==
  ASSUME TextInv, ~ Mistreats, TextResize
  PROVE  TextInv'
<1>1. PICK n \in 0..CellLimit : n >= Len(text) /\ Says(A!mcr_Array_resize(str, n + 1), First(text, n))
  BY DEF TextResize
<1>2. n \in Nat /\ n + 1 \in Nat /\ Len(text) \in Nat /\ text \in Seq(Elements) /\ n \in Int
  BY ArrayAssumption, LettersAre DEF TextInv
<1>3. First(text, n) = text
  <2>1. AP!Least(n, Len(text)) = Len(text)
    BY <1>1, <1>2 DEF AP!Least
  <2>2. First(text, n) = SubSeq(text, 1, Len(text))
    BY <1>2, <2>1, FirstAre
  <2> QED BY <1>2, <2>2
<1>4. str.used <= n + 1 /\ str.used \in Nat
  BY <1>1, <1>2 DEF TextInv, TextHolds, EndsAt, AP!IsArray
<1>5. AP!Keeps(A!mcr_Array_resize(str, n + 1), Numbers, str)
  BY <1>2, <1>4, NumbersAre, SameResize, AP!GrownKeeps DEF TextInv
<1>6. TextLeaves(A!mcr_Array_resize(str, n + 1), text, text)
  BY <1>5, KeepsText DEF TextInv
<1> QED BY <1>1, <1>3, <1>6, SaysKeeps DEF TextInv

\* Writing src over what the string holds, with the end behind it.
LEMMA WriteText ==
  ASSUME NEW b, AP!IsArray(b, Numbers), NEW t \in Seq(Letters), NEW src \in Seq(Letters), NEW pos \in 0..Len(t),
         \A i \in 1..Len(t) : b.cells[i] = t[i],
         b.used >= Len(t) + 1, b.used >= pos + Len(src) + 1, b.used = Len(t) + 1 \/ b.used = pos + Len(src) + 1
  PROVE  LET r == Ended([b EXCEPT !.cells = Put(@, pos, src)], b.used - 1)
         IN AP!IsArray(r, Numbers) /\ TextHolds(r, AP!Over(t, pos, src))
<1> DEFINE o == AP!Over(t, pos, src)
           w == Put(b.cells, pos, src)
           c == [b EXCEPT !.cells = Put(@, pos, src)]
<1>1. /\ b \in [cells : Seq(Numbers), used : Nat] /\ b.used <= Len(b.cells) /\ Len(b.cells) <= CellLimit
      /\ Len(b.cells) \in Nat /\ Len(t) \in Nat /\ Len(src) \in Nat /\ pos \in Nat /\ src \in Seq(Numbers)
  BY LettersAre DEF AP!IsArray
<1>2. AsPut(w, b.cells, pos, src)
  BY <1>1, PutIs
<1>3. AP!AsOver(o, Letters, t, pos, src)
  BY AP!OverIs
<1> HIDE DEF o
<1>4. o \in Seq(Letters) /\ Len(o) = b.used - 1
  BY <1>1, <1>3 DEF AP!AsOver
<1>5. c \in [cells : Seq(Numbers), used : Nat] /\ c.cells = w /\ Len(w) = Len(b.cells)
  BY <1>1, <1>2 DEF AsPut
<1> HIDE DEF w, c
<1>6. ASSUME NEW i \in 1..Len(o) PROVE c.cells[i] = o[i]
  <2>0. i \in 1..Len(b.cells)
    BY <1>1, <1>4
  <2>1. CASE i <= pos
    BY <1>1, <1>2, <1>3, <1>5, <2>0, <2>1 DEF AsPut, AP!AsOver
  <2>2. CASE pos < i /\ i <= pos + Len(src)
    BY <1>1, <1>2, <1>3, <1>5, <2>0, <2>2 DEF AsPut, AP!AsOver
  <2>3. CASE pos + Len(src) < i
    <3>1. i \in 1..Len(t)
      BY <1>1, <1>4, <2>3
    <3>2. w[i] = b.cells[i] /\ o[i] = t[i]
      BY <1>1, <1>2, <1>3, <2>0, <2>3 DEF AsPut, AP!AsOver
    <3> QED BY <1>5, <3>1, <3>2
  <2> QED BY <1>1, <2>1, <2>2, <2>3
<1>7. Len(o) < Len(c.cells) /\ Len(c.cells) <= CellLimit
  BY <1>1, <1>4, <1>5
<1>8. AP!IsArray(Ended(c, Len(o)), Numbers) /\ TextHolds(Ended(c, Len(o)), o)
  BY <1>4, <1>5, <1>6, <1>7, EndedIs
<1> QED BY <1>4, <1>8 DEF o, c

\* Room for the end of what is written from pos on: what mcr_Array_minused leaves.
LEMMA RoomForText ==
  ASSUME NEW a, AP!IsArray(a, Numbers), NEW t \in Seq(Letters), TextHolds(a, t), NEW n \in Nat, n > 0,
         NEW b, b = A!mcr_Array_minused(a, n)
  PROVE  /\ b.failed \in BOOLEAN /\ AP!IsArray(b.arr, Numbers)
         /\ b.failed => TextHolds(b.arr, t)
         /\ ~ b.failed => /\ \A i \in 1..Len(t) : b.arr.cells[i] = t[i]
                          /\ b.arr.used >= Len(t) + 1 \/ t = << >>
                          /\ b.arr.used >= n
                          /\ b.arr.used = Len(t) + 1 \/ b.arr.used = n
<1>1. AP!AsMinused(b, Numbers, a, n)
  BY NumbersAre, SameMinused, AP!MinusedKeeps
<1>2. /\ b.failed \in BOOLEAN /\ AP!IsArray(b.arr, Numbers)
      /\ b.arr.used = IF n > a.used /\ ~ b.failed THEN n ELSE a.used
      /\ \A i \in 1..a.used : b.arr.cells[i] = a.cells[i]
  BY <1>1 DEF AP!AsMinused
<1>3. a.used \in Nat /\ Len(t) \in Nat
  BY DEF AP!IsArray
<1>4. b.failed => TextHolds(b.arr, t)
  BY <1>2, KeptText
<1>5. CASE a.used = 0
  <2>1. t = << >>
    BY <1>5 DEF TextHolds
  <2>2. Len(t) = 0
    BY <2>1
  <2> QED BY <1>2, <1>3, <1>4, <1>5, <2>1, <2>2
<1>6. CASE a.used # 0
  <2>1. a.used = Len(t) + 1 /\ \A i \in 1..Len(t) : a.cells[i] = t[i]
    BY <1>6 DEF TextHolds, EndsAt
  <2>2. \A i \in 1..Len(t) : b.arr.cells[i] = t[i]
    BY <1>2, <1>3, <2>1
  <2> QED BY <1>2, <1>3, <1>4, <2>1, <2>2
<1> QED BY <1>5, <1>6

-----------------------------------------------------------------------------
(* What is expected of the calls                                           *)

LEMMA SubSeqIs ==
  ASSUME NEW E, NEW s \in Seq(E), NEW from \in Nat, NEW n \in Nat, from + n <= Len(s)
  PROVE  /\ SubSeq(s, from + 1, from + n) \in Seq(E) /\ Len(SubSeq(s, from + 1, from + n)) = n
         /\ \A i \in 1..n : SubSeq(s, from + 1, from + n)[i] = s[from + i]
OBVIOUS

\* Positions behind the end are the one of the end.
LEMMA WritesIn ==
  ASSUME NEW t \in Seq(Letters), NEW src \in Seq(Letters), NEW pos \in 0..Len(t) + 1
  PROVE  LET first == AP!Least(pos, Len(t))
         IN /\ first \in 0..Len(t)
            /\ Overwritten(t, pos, src) = AP!Over(t, first, src) /\ Overwritten(t, pos, src) \in Seq(Letters)
<1> DEFINE first == AP!Least(pos, Len(t))
<1>1. first \in 0..Len(t) /\ Len(t) \in Nat /\ Len(src) \in Nat /\ t \in Seq(Elements) /\ src \in Seq(Elements) /\ pos \in Int
  BY LettersAre DEF AP!Least
<1>2. Overwritten(t, first, src) = AP!Over(t, first, src)
  BY <1>1, OverwrittenIs
<1>3. AP!Over(t, first, src) \in Seq(Letters)
  BY <1>1, AP!OverIs DEF AP!AsOver
<1>4. First(t, pos) = First(t, first)
  <2>1. AP!Least(first, Len(t)) = first
    BY <1>1 DEF AP!Least
  <2>2. First(t, pos) = SubSeq(t, 1, AP!Least(pos, Len(t)))
    BY <1>1, FirstAre
  <2>3. first \in Int
    BY <1>1
  <2> HIDE DEF first
  <2>4. First(t, first) = SubSeq(t, 1, AP!Least(first, Len(t)))
    BY <1>1, <2>3, FirstAre
  <2> QED BY <2>1, <2>2, <2>4 DEF first
<1>5. After(t, pos + Len(src)) = After(t, first + Len(src))
  <2>1. CASE pos = first
    BY <2>1
  <2>2. CASE pos # first
    <3>1. pos > Len(t) /\ first = Len(t)
      BY <1>1, <2>2 DEF AP!Least
    <3>2. SubSeq(t, pos + Len(src) + 1, Len(t)) = << >> /\ SubSeq(t, first + Len(src) + 1, Len(t)) = << >>
      BY <1>1, <3>1
    <3> QED BY <3>2 DEF After
  <2> QED BY <2>1, <2>2
<1>6. Overwritten(t, pos, src) = Overwritten(t, first, src)
  BY <1>4, <1>5 DEF Overwritten
<1> QED BY <1>1, <1>2, <1>3, <1>6

LEMMA WritesNothing ==
  ASSUME NEW t \in Seq(Letters), NEW pos \in 0..Len(t) + 1, NEW src \in Seq(Letters), Len(src) = 0
  PROVE  Overwritten(t, pos, src) = t
<1> DEFINE first == AP!Least(pos, Len(t))
<1>1. first \in 0..Len(t) /\ Overwritten(t, pos, src) = AP!Over(t, first, src)
  BY WritesIn
<1> HIDE DEF first
<1> QED BY <1>1, AP!OverNothing

LEMMA PosAre ==
  ASSUME TextInv, NEW pos \in Indices
  PROVE  pos \in 0..Len(text) + 1 /\ pos \in Nat /\ Len(text) \in Nat /\ text \in Seq(Letters)
BY LettersAre DEF Indices, TextInv

LEMMA BeginsIs ==
  ASSUME TextInv, NEW pos \in Indices
  PROVE  Begins(str, pos) = AP!Least(pos, Len(text)) /\ Begins(str, pos) \in 0..Len(text)
<1>1. pos \in 0..Len(text) + 1 /\ pos \in Nat /\ Len(text) \in Nat /\ str.used \in Nat
  BY PosAre DEF TextInv, AP!IsArray
<1>2. CASE str.used = 0
  <2>1. Len(text) = 0
    BY <1>2 DEF TextInv, TextHolds
  <2> QED BY <1>1, <1>2, <2>1 DEF Begins, AP!Least
<1>3. CASE str.used # 0
  <2>1. str.used = Len(text) + 1
    BY <1>3 DEF TextInv, TextHolds, EndsAt
  <2> QED BY <1>1, <2>1 DEF Begins, AP!Least
<1> QED BY <1>2, <1>3

LEMMA TextFillKeeps ==
  ASSUME TextInv, TextFill
  PROVE  TextInv'
<1>1. PICK pos \in Indices, count \in Counts, c \in Letters :
        Says(mcr_String_fill(str, pos, count, c), Overwritten(text, pos, A!Copies(c, count)))
  BY DEF TextFill
<1> DEFINE src == A!Copies(c, count)
           first == Begins(str, pos)
           b == A!mcr_Array_minused(str, first + count + 1)
           r == mcr_String_fill(str, pos, count, c)
           e == Overwritten(text, pos, src)
           w == Ended([b.arr EXCEPT !.cells = Put(@, first, src)], b.arr.used - 1)
<1>2. pos \in 0..Len(text) + 1 /\ count \in Nat /\ Len(text) \in Nat /\ text \in Seq(Letters)
  BY PosAre, ArrayAssumption DEF Counts
<1>3. src \in Seq(Letters) /\ Len(src) = count
  <2>1. count \in Int
    BY <1>2
  <2>2. A!Copies(c, count) = AP!Copies(c, count)
    BY SameCopies
  <2> QED BY <1>2, <2>1, <2>2, AP!CopiesAre
<1>4. r = IF b.failed THEN b ELSE A!Done(w)
  BY DEF mcr_String_fill, A!Then
<1> HIDE DEF src, r
<1>5. first = AP!Least(pos, Len(text)) /\ first \in 0..Len(text)
  BY BeginsIs
<1> HIDE DEF first
<1>6. e \in Seq(Letters) /\ e = AP!Over(text, first, src)
  BY <1>2, <1>3, <1>5, WritesIn
<1>7. /\ b.failed \in BOOLEAN /\ AP!IsArray(b.arr, Numbers)
      /\ b.failed => TextHolds(b.arr, text)
      /\ ~ b.failed => /\ \A i \in 1..Len(text) : b.arr.cells[i] = text[i]
                       /\ b.arr.used >= Len(text) + 1 \/ text = << >>
                       /\ b.arr.used >= first + count + 1
                       /\ b.arr.used = Len(text) + 1 \/ b.arr.used = first + count + 1
  <2>1. first + count + 1 \in Nat /\ first + count + 1 > 0
    BY <1>2, <1>5
  <2> QED BY <1>2, <2>1, RoomForText DEF TextInv
<1> HIDE DEF b, e
<1>8. TextLeaves(r, text, e)
  <2>1. CASE b.failed
    <3>1. r = b
      BY <1>4, <2>1
    <3> QED BY <1>7, <2>1, <3>1 DEF TextLeaves
  <2>2. CASE ~ b.failed
    <3>1. Len(src) = count /\ b.arr.used >= Len(text) + 1
      <4>1. CASE text = << >>
        <5>1. Len(text) = 0
          BY <4>1
        <5> QED BY <1>2, <1>3, <1>5, <1>7, <2>2, <5>1
      <4>2. CASE text # << >>
        BY <1>3, <1>7, <2>2, <4>2
      <4> QED BY <4>1, <4>2
    <3>2. AP!IsArray(w, Numbers) /\ TextHolds(w, e)
      BY <1>2, <1>3, <1>5, <1>6, <1>7, <2>2, <3>1, WriteText
    <3>3. r = A!Done(w)
      BY <1>4, <2>2
    <3> HIDE DEF w
    <3> QED BY <3>2, <3>3, TextDone
  <2> QED BY <1>7, <2>1, <2>2
<1> QED BY <1>1, <1>6, <1>8, SaysKeeps DEF e, r, src

LEMMA TextMoveKeeps ==
  ASSUME TextInv, TextMove
  PROVE  TextInv'
<1>1. PICK to, from \in Indices, count \in Counts :
        Says(mcr_String_move(str, to, from, count), Overwritten(text, to, First(After(text, from), count)))
  BY DEF TextMove
<1> DEFINE src == First(After(text, from), count)
           n == A!Least(count, str.used - 1 - from)
           first == A!Least(to, str.used - 1)
           r == mcr_String_move(str, to, from, count)
           e == Overwritten(text, to, src)
           b == A!mcr_Array_minused(str, first + n + 1)
           w == Ended([b.arr EXCEPT !.cells = Put(@, first, SubSeq(@, from + 1, from + n))], b.arr.used - 1)
           rests == count = 0 \/ str.used = 0 \/ str.cells[1] = End \/ from >= str.used - 1
<1>2. /\ to \in 0..Len(text) + 1 /\ from \in 0..Len(text) + 1 /\ count \in Nat /\ Len(text) \in Nat /\ text \in Seq(Letters)
      /\ from \in Nat /\ str.used \in Nat /\ text \in Seq(Elements) /\ count \in Int
  BY PosAre, LettersAre, ArrayAssumption DEF Counts, TextInv, AP!IsArray
<1>3. str.used # 0 => /\ str.used = Len(text) + 1 /\ str.cells[Len(text) + 1] = End
                      /\ \A i \in 1..Len(text) : str.cells[i] = text[i]
  BY DEF TextInv, TextHolds, EndsAt
<1>4. str.used = 0 => Len(text) = 0
  BY DEF TextInv, TextHolds
<1>5. str.used # 0 /\ str.cells[1] = End => Len(text) = 0
  <2> SUFFICES ASSUME str.used # 0, str.cells[1] = End, Len(text) # 0 PROVE FALSE
    OBVIOUS
  <2>1. 1 \in 1..Len(text)
    BY <1>2
  <2>2. text[1] = End
    BY <1>3, <2>1
  <2> QED BY <1>2, <2>1, <2>2, LettersAre
<1>6. src \in Seq(Letters) /\ (rests => Len(src) = 0)
      /\ (~ rests => n \in Nat /\ src = SubSeq(text, from + 1, from + n) /\ Len(src) = n /\ from + n <= Len(text))
  <2> DEFINE u == After(text, from)
  <2>1. u \in Seq(Letters) /\ u = SubSeq(text, from + 1, Len(text)) /\ Len(u) \in Nat
    BY <1>2 DEF After
  <2>2. (from >= Len(text) => Len(u) = 0) /\ (from <= Len(text) => Len(u) = Len(text) - from)
    BY <1>2 DEF After
  <2> DEFINE m == AP!Least(count, Len(u))
  <2>3. src = SubSeq(u, 1, m) /\ m \in Nat /\ m <= Len(u)
    <3>1. u \in Seq(Elements)
      BY <2>1, LettersAre
    <3>2. m \in Nat /\ m <= Len(u)
      BY <1>2, <2>1 DEF AP!Least
    <3> HIDE DEF u
    <3> QED BY <1>2, <3>1, <3>2, FirstAre DEF u
  <2> HIDE DEF src
  <2>4. src \in Seq(Letters) /\ Len(src) = m /\ \A i \in 1..m : src[i] = u[i]
    <3> HIDE DEF u, m
    <3> QED BY <2>1, <2>3
  <2>5. ASSUME rests PROVE Len(src) = 0
    <3>1. count = 0 \/ Len(u) = 0
      BY <1>2, <1>3, <1>4, <1>5, <2>2, <2>5
    <3>2. m = 0
      BY <1>2, <2>1, <3>1 DEF AP!Least
    <3> QED BY <2>4, <3>2
  <2>6. ASSUME ~ rests PROVE n \in Nat /\ src = SubSeq(text, from + 1, from + n) /\ Len(src) = n /\ from + n <= Len(text)
    <3>1. from < Len(text) /\ str.used - 1 = Len(text) /\ Len(u) = Len(text) - from
      BY <1>2, <1>3, <2>2, <2>6
    <3>2. n = m /\ n \in Nat /\ from + n <= Len(text)
      BY <1>2, <2>3, <3>1 DEF AP!Least, A!Least
    <3> HIDE DEF n, m
    <3>3. \A i \in 1..n : u[i] = text[from + i]
      BY <1>2, <2>1, <3>1, <3>2
    <3> HIDE DEF u
    <3> DEFINE v == SubSeq(text, from + 1, from + n)
    <3>4. v \in Seq(Letters) /\ Len(v) = n /\ \A i \in 1..n : v[i] = text[from + i]
      BY <1>2, <3>2, SubSeqIs
    <3> HIDE DEF v
    <3>5. src = v
      <4>1. \A i \in 1..Len(src) : src[i] = v[i]
        BY <2>4, <3>2, <3>3, <3>4
      <4>2. Len(src) = Len(v) /\ src \in Seq(Letters) /\ v \in Seq(Letters)
        BY <2>4, <3>2, <3>4
      <4> QED BY <4>1, <4>2
    <3> QED BY <2>4, <3>2, <3>5 DEF v
  <2> QED BY <2>4, <2>5, <2>6
<1>7. e \in Seq(Letters)
  BY <1>2, <1>6, WritesIn
<1>8. CASE rests
  <2>1. r = A!Done(str)
    BY <1>8 DEF mcr_String_move
  <2>2. e = text
    BY <1>2, <1>6, <1>8, WritesNothing
  <2>3. TextLeaves(r, text, e)
    BY <2>1, <2>2, TextDone DEF TextInv
  <2> QED BY <1>1, <1>7, <2>3, SaysKeeps
<1>9. CASE ~ rests
  <2>1. r = IF b.failed THEN b ELSE A!Done(w)
    BY <1>9 DEF mcr_String_move, A!Then
  <2>2. n \in Nat /\ src = SubSeq(text, from + 1, from + n) /\ Len(src) = n /\ from + n <= Len(text)
    BY <1>6, <1>9
  <2>3. str.used - 1 = Len(text) /\ first = AP!Least(to, Len(text)) /\ first \in 0..Len(text)
    BY <1>2, <1>3, <1>9 DEF A!Least, AP!Least
  <2>4. e = AP!Over(text, first, src)
    BY <1>2, <1>6, <2>3, WritesIn
  <2> HIDE DEF n, first, r, src
  <2>5. /\ b.failed \in BOOLEAN /\ AP!IsArray(b.arr, Numbers)
        /\ b.failed => TextHolds(b.arr, text)
        /\ ~ b.failed => /\ \A i \in 1..Len(text) : b.arr.cells[i] = text[i]
                         /\ b.arr.used >= Len(text) + 1 \/ text = << >>
                         /\ b.arr.used >= first + n + 1
                         /\ b.arr.used = Len(text) + 1 \/ b.arr.used = first + n + 1
    <3>1. first + n + 1 \in Nat /\ first + n + 1 > 0
      BY <1>2, <2>2, <2>3
    <3> QED BY <1>2, <3>1, RoomForText DEF TextInv
  <2> HIDE DEF b, e
  <2>6. TextLeaves(r, text, e)
    <3>1. CASE b.failed
      <4>1. r = b
        BY <2>1, <3>1
      <4> QED BY <2>5, <3>1, <4>1 DEF TextLeaves
    <3>2. CASE ~ b.failed
      <4>1. b.arr.used >= Len(text) + 1
        <5>1. CASE text = << >>
          <6>1. Len(text) = 0
            BY <5>1
          <6>2. b.arr.used \in Nat
            BY <2>5 DEF AP!IsArray
          <6> QED BY <2>2, <2>3, <2>5, <3>2, <6>1, <6>2
        <5>2. CASE text # << >>
          BY <2>5, <3>2, <5>2
        <5> QED BY <5>1, <5>2
      <4>2. SubSeq(b.arr.cells, from + 1, from + n) = src
        <5> DEFINE v == SubSeq(b.arr.cells, from + 1, from + n)
                   c == b.arr.cells
        <5>1. c \in Seq(Numbers) /\ Len(c) \in Nat /\ Len(text) <= Len(c)
          <6>1. c \in Seq(Numbers) /\ b.arr.used <= Len(c) /\ b.arr.used \in Nat
            BY <2>5 DEF AP!IsArray
          <6> QED BY <1>2, <4>1, <6>1
        <5> HIDE DEF c
        <5>2. v \in Seq(Numbers) /\ Len(v) = n /\ \A i \in 1..n : v[i] = c[from + i]
          <6>1. from + n <= Len(c)
            BY <1>2, <2>2, <5>1
          <6> QED BY <1>2, <2>2, <5>1, <6>1, SubSeqIs DEF c
        <5>3. \A i \in 1..n : src[i] = text[from + i]
          BY <1>2, <2>2
        <5>4. \A i \in 1..n : c[from + i] = text[from + i]
          <6>1. \A i \in 1..n : from + i \in 1..Len(text)
            BY <1>2, <2>2
          <6> QED BY <2>5, <3>2, <6>1 DEF c
        <5> HIDE DEF v
        <5>5. src \in Seq(Numbers) /\ Len(src) = n
          BY <1>6, <2>2, LettersAre
        <5>6. \A i \in 1..Len(v) : v[i] = src[i]
          BY <5>2, <5>3, <5>4
        <5>7. v = src
          BY <5>2, <5>5, <5>6
        <5> QED BY <5>7 DEF v
      <4>3. w = Ended([b.arr EXCEPT !.cells = Put(@, first, src)], b.arr.used - 1)
        BY <4>2
      <4> HIDE DEF w
      <4>4. AP!IsArray(w, Numbers) /\ TextHolds(w, e)
        BY <1>2, <1>6, <2>2, <2>3, <2>4, <2>5, <3>2, <4>1, <4>3, WriteText
      <4>5. r = A!Done(w)
        BY <2>1, <3>2
      <4> QED BY <4>4, <4>5, TextDone
    <3> QED BY <2>5, <3>1, <3>2
  <2> QED BY <1>1, <1>7, <2>6, SaysKeeps DEF e, r, src
<1> QED BY <1>8, <1>9

-----------------------------------------------------------------------------
(* The calls that make room for characters and for the end                 *)

LEMMA RoomMade ==
  ASSUME TextInv, ~ Mistreats, NEW n \in Nat, n > 0, RoomFor(n), NEW q, q = A!mcr_Array_smartsize(str, n), ~ q.failed
  PROVE  /\ AP!IsArray(q.arr, Numbers) /\ TextHolds(q.arr, text)
         /\ q.arr.used > 0 => q.arr.used + n <= A!Size(q.arr)
         /\ q.arr.used = 0 /\ A!Size(q.arr) > 0 => 1 + n <= A!Size(q.arr)
         /\ n = 1 => A!Size(q.arr) > 0
<1>1. AP!Keeps(q, Numbers, str) /\ (str.used > 0 => str.used + n <= AP!Size(q.arr))
  BY NumbersAre, SameSmartsize, AP!SmartsizeKeeps DEF TextInv
<1>2. AP!IsArray(q.arr, Numbers) /\ TextHolds(q.arr, text) /\ q.arr.used = str.used /\ str.used \in Nat
  BY <1>1, KeepsText DEF TextInv, AP!Keeps, AP!IsArray
<1>3. A!Size(q.arr) = AP!Size(q.arr) /\ A!Size(q.arr) \in Nat
  BY <1>2, SameResults DEF AP!IsArray, A!Size
<1>4. CASE str.used > 0
  BY <1>1, <1>2, <1>3, <1>4
<1>5. CASE str.used = 0
  <2>1. A!Size(str) \in Nat /\ (A!Size(str) > n \/ (n = 1 /\ A!Size(str) = 0))
    BY <1>5 DEF RoomFor, TextInv, AP!IsArray, A!Size
  <2>2. CASE A!Size(str) > n
    <3>1. q = A!Done(str)
      BY <1>5, <2>1, <2>2 DEF A!mcr_Array_smartsize
    <3>2. q.arr = str
      BY <3>1 DEF A!Done
    <3> QED BY <1>2, <1>5, <2>1, <2>2, <3>2
  <2>3. CASE n = 1 /\ A!Size(str) = 0
    <3>1. q = A!mcr_Array_resize(str, FirstCells)
      BY <1>5, <2>3 DEF A!mcr_Array_smartsize
    <3>2. AP!AsResized(q, Numbers, str, FirstCells)
      BY <3>1, NumbersAre, ArrayAssumption, SameResize, AP!ResizeKeeps DEF TextInv
    <3>3. AP!Size(q.arr) = FirstCells
      BY <3>2 DEF AP!AsResized
    <3> QED BY <1>2, <1>3, <1>5, <2>3, <3>3, TextAssumption, ArrayAssumption
  <2> QED BY <2>1, <2>2, <2>3
<1> QED BY <1>2, <1>4, <1>5

LEMMA RoomRefused ==
  ASSUME TextInv, NEW n \in Nat, NEW q, q = A!mcr_Array_smartsize(str, n), NEW t
  PROVE  q.failed \in BOOLEAN /\ (q.failed => TextLeaves(q, text, t))
<1>1. AP!Keeps(q, Numbers, str)
  BY NumbersAre, SameSmartsize, AP!SmartsizeKeeps DEF TextInv
<1> QED BY <1>1, KeepsText DEF TextInv, TextLeaves

\* Characters are put in front of those from pos on, which move with the end.
LEMMA MovedApart ==
  ASSUME NEW b, AP!IsArray(b, Numbers), NEW t \in Seq(Letters), EndsAt(b, t), NEW s \in Seq(Letters),
         NEW pos \in 0..Len(t), b.used + Len(s) <= Len(b.cells)
  PROVE  LET a == [cells |-> Put(Put(b.cells, pos + Len(s), SubSeq(b.cells, pos + 1, b.used)), pos, s),
                   used  |-> b.used + Len(s)]
         IN AP!IsArray(a, Numbers) /\ TextHolds(a, AP!Between(t, pos, s))
<1> DEFINE n == Len(s)
           tail == SubSeq(b.cells, pos + 1, b.used)
           v == Put(b.cells, pos + n, tail)
           w == Put(v, pos, s)
           o == AP!Between(t, pos, s)
           a == [cells |-> w, used  |-> b.used + n]
<1>1. /\ b.cells \in Seq(Numbers) /\ Len(b.cells) \in Nat /\ b.used = Len(t) + 1 /\ Len(b.cells) <= CellLimit /\ n \in Nat
      /\ Len(t) \in Nat /\ s \in Seq(Numbers) /\ b.used <= Len(b.cells) /\ pos \in Nat /\ pos + n \in Int /\ pos \in Int
      /\ \A i \in 1..Len(t) : b.cells[i] = t[i]
      /\ b.cells[Len(t) + 1] = End
  <2>1. /\ b.cells \in Seq(Numbers) /\ Len(b.cells) \in Nat /\ Len(b.cells) <= CellLimit /\ b.used <= Len(b.cells)
    BY DEF AP!IsArray
  <2>2. /\ b.used = Len(t) + 1 /\ (\A i \in 1..Len(t) : b.cells[i] = t[i]) /\ b.cells[Len(t) + 1] = End
    BY DEF EndsAt
  <2>3. n \in Nat /\ Len(t) \in Nat /\ s \in Seq(Numbers) /\ pos \in Nat /\ pos + n \in Int /\ pos \in Int
    BY LettersAre
  <2> QED BY <2>1, <2>2, <2>3
<1>2. tail \in Seq(Numbers) /\ Len(tail) = b.used - pos /\ \A i \in 1..b.used - pos : tail[i] = b.cells[pos + i]
  <2>1. b.used - pos \in Nat /\ pos + (b.used - pos) = b.used
    BY <1>1
  <2> QED BY <1>1, <2>1, SubSeqIs
<1> HIDE DEF tail
<1>3. AsPut(v, b.cells, pos + n, tail)
  BY <1>1, <1>2, PutIs
<1>4. v \in Seq(Numbers) /\ Len(v) = Len(b.cells)
  BY <1>3 DEF AsPut
<1> HIDE DEF v
<1>5. AsPut(w, v, pos, s)
  BY <1>1, <1>4, PutIs
<1>6. w \in Seq(Numbers) /\ Len(w) = Len(b.cells)
  BY <1>4, <1>5 DEF AsPut
<1> HIDE DEF w
<1>7. AP!AsBetween(o, Letters, t, pos, s)
  BY AP!BetweenIs
<1>8. o \in Seq(Letters) /\ Len(o) = Len(t) + n
  BY <1>7 DEF AP!AsBetween
<1> HIDE DEF o
<1>9. ASSUME NEW i \in 1..Len(o) PROVE w[i] = o[i]
  <2>0. i \in 1..Len(b.cells) /\ i \in 1..Len(v) /\ i \in 1..Len(t) + Len(s) /\ i \in 1..Len(t) + n
    BY <1>1, <1>4, <1>8
  <2>1. CASE i <= pos
    <3>1. w[i] = v[i] /\ v[i] = b.cells[i]
      BY <1>1, <1>3, <1>5, <2>0, <2>1 DEF AsPut
    <3>2. o[i] = t[i] /\ i \in 1..Len(t)
      BY <1>1, <1>7, <2>0, <2>1 DEF AP!AsBetween
    <3> QED BY <1>1, <3>1, <3>2
  <2>2. CASE pos < i /\ i <= pos + n
    BY <1>1, <1>5, <1>7, <2>0, <2>2 DEF AsPut, AP!AsBetween
  <2>3. CASE pos + n < i
    <3>1. w[i] = v[i]
      BY <1>1, <1>5, <2>0, <2>3 DEF AsPut
    <3>2. pos + n < i /\ i <= pos + n + Len(tail) /\ i - (pos + n) \in 1..b.used - pos
      BY <1>1, <1>2, <2>0, <2>3
    <3>3. v[i] = tail[i - (pos + n)]
      BY <1>1, <1>3, <2>0, <3>2 DEF AsPut
    <3>4. pos + (i - (pos + n)) = i - n /\ i - n \in 1..Len(t)
      BY <1>1, <2>0, <2>3
    <3>5. tail[i - (pos + n)] = b.cells[i - n]
      BY <1>2, <3>2, <3>4
    <3>6. o[i] = t[i - n]
      BY <1>7, <2>0, <2>3 DEF AP!AsBetween
    <3> QED BY <1>1, <3>1, <3>3, <3>4, <3>5, <3>6
  <2> QED BY <1>1, <2>1, <2>2, <2>3
<1>10. w[Len(o) + 1] = End
  <2> DEFINE i == Len(o) + 1
  <2>0. i \in 1..Len(b.cells) /\ i \in 1..Len(v) /\ i = Len(t) + n + 1
    BY <1>1, <1>4, <1>8
  <2> HIDE DEF i
  <2>1. w[i] = v[i]
    BY <1>1, <1>5, <2>0 DEF AsPut
  <2>2. pos + n < i /\ i <= pos + n + Len(tail) /\ i - (pos + n) \in 1..b.used - pos
    BY <1>1, <1>2, <2>0
  <2>3. v[i] = tail[i - (pos + n)]
    BY <1>1, <1>3, <2>0, <2>2 DEF AsPut
  <2>4. pos + (i - (pos + n)) = Len(t) + 1
    BY <1>1, <2>0
  <2>5. tail[i - (pos + n)] = b.cells[Len(t) + 1]
    BY <1>2, <2>2, <2>4
  <2> QED BY <1>1, <2>1, <2>3, <2>5 DEF i
<1>11. a.used = Len(o) + 1 /\ a.used \in Nat /\ a.used <= Len(w) /\ a.used # 0
  BY <1>1, <1>6, <1>8
<1>12. AP!IsArray(a, Numbers)
  BY <1>1, <1>6, <1>11 DEF AP!IsArray
<1>13. TextHolds(a, o)
  BY <1>9, <1>10, <1>11 DEF TextHolds, EndsAt
<1> QED BY <1>12, <1>13 DEF a, w, v, tail, o

LEMMA InsertsIn ==
  ASSUME NEW t \in Seq(Letters), NEW s \in Seq(Letters), NEW pos \in 0..Len(t) + 1
  PROVE  /\ Inserted(t, pos, s) \in Seq(Letters)
         /\ pos <= Len(t) => Inserted(t, pos, s) = AP!Between(t, pos, s)
         /\ s = << >> => Inserted(t, pos, s) = t
<1>1. t \in Seq(Elements) /\ Len(t) \in Nat /\ pos \in Nat /\ pos \in Int
  BY LettersAre
<1>2. pos <= Len(t) => First(t, pos) = SubSeq(t, 1, pos)
  BY <1>1, FirstAre
<1>3. pos > Len(t) => First(t, pos) = SubSeq(t, 1, Len(t))
  <2>1. pos > Len(t) => AP!Least(pos, Len(t)) = Len(t)
    BY <1>1 DEF AP!Least
  <2>2. First(t, pos) = SubSeq(t, 1, AP!Least(pos, Len(t)))
    BY <1>1, FirstAre
  <2> QED BY <2>1, <2>2
<1>4. pos <= Len(t) => Inserted(t, pos, s) = AP!Between(t, pos, s)
  BY <1>2 DEF Inserted, After, AP!Between
<1>5. First(t, pos) \in Seq(Letters) /\ After(t, pos) \in Seq(Letters)
  BY <1>1, <1>2, <1>3 DEF After
<1>6. Inserted(t, pos, s) \in Seq(Letters)
  BY <1>5 DEF Inserted
<1>7. ASSUME s = << >> PROVE Inserted(t, pos, s) = t
  <2>1. CASE pos <= Len(t)
    <3>1. Len(s) = 0 /\ pos + 0 + 1 = pos + 1 /\ pos \in 0..Len(t)
      BY <1>1, <1>7, <2>1
    <3>2. AP!Between(t, pos, s) = AP!Over(t, pos, s)
      BY <3>1 DEF AP!Between, AP!Over
    <3> QED BY <1>4, <2>1, <3>1, <3>2, AP!OverNothing
  <2>2. CASE pos > Len(t)
    <3>1. SubSeq(t, 1, Len(t)) = t /\ SubSeq(t, pos + 1, Len(t)) = << >>
      BY <1>1, <2>2
    <3>2. t \o << >> \o << >> = t
      OBVIOUS
    <3> QED BY <1>3, <1>7, <2>2, <3>1, <3>2 DEF Inserted, After
  <2> QED BY <1>1, <2>1, <2>2
<1> QED BY <1>4, <1>6, <1>7

LEMMA TextInsertLeaves ==
  ASSUME TextInv, ~ Mistreats, NEW s \in Seq(Letters), NEW pos \in 0..Len(text) + 1, RoomFor(Len(s))
  PROVE  TextLeaves(mcr_String_insert(str, pos, s), text, Inserted(text, pos, s))
<1> DEFINE r == mcr_String_insert(str, pos, s)
           q == A!mcr_Array_smartsize(str, Len(s))
           b == IF q.arr.used = 0 THEN mcr_String_clear(q.arr) ELSE q.arr
           a == [cells |-> Put(Put(b.cells, pos + Len(s), SubSeq(b.cells, pos + 1, b.used)), pos, s),
                 used  |-> b.used + Len(s)]
           e == Inserted(text, pos, s)
<1>1. text \in Seq(Letters) /\ Len(s) \in Nat /\ Len(text) \in Nat /\ pos \in Nat
  BY LettersAre DEF TextInv
<1>2. CASE s = << >>
  <2>1. r = A!Done(str) /\ e = text
    BY <1>1, <1>2, InsertsIn DEF mcr_String_insert
  <2> QED BY <2>1, TextDone DEF TextInv
<1>3. CASE s # << >>
  <2>0. Len(s) > 0
    BY <1>3
  <2>1. r = IF q.failed THEN q ELSE IF pos >= b.used THEN A!Fails(b) ELSE A!Done(a)
    BY <1>3 DEF mcr_String_insert, A!Then
  <2>2. q.failed \in BOOLEAN /\ (q.failed => TextLeaves(q, text, e))
    BY <1>1, RoomRefused
  <2> HIDE DEF r, e
  <2>3. CASE q.failed
    <3>1. r = q
      BY <2>1, <2>3
    <3> QED BY <2>2, <2>3, <3>1 DEF r, e
  <2>4. CASE ~ q.failed
    <3>1. /\ AP!IsArray(q.arr, Numbers) /\ TextHolds(q.arr, text)
          /\ q.arr.used > 0 => q.arr.used + Len(s) <= A!Size(q.arr)
          /\ q.arr.used = 0 /\ A!Size(q.arr) > 0 => 1 + Len(s) <= A!Size(q.arr)
      BY <1>1, <2>0, <2>4, RoomMade
    <3>2. q.arr.used \in Nat /\ A!Size(q.arr) \in Nat /\ q.arr.used <= A!Size(q.arr)
      BY <3>1 DEF AP!IsArray, A!Size
    <3> HIDE DEF q
    <3>3. AP!IsArray(b, Numbers) /\ TextHolds(b, text) /\ (b.used > 0 => b.used + Len(s) <= Len(b.cells))
      <4>1. CASE q.arr.used = 0 /\ A!Size(q.arr) > 0
        <5>1. b = mcr_String_clear(q.arr) /\ text = << >>
          BY <3>1, <4>1 DEF TextHolds
        <5>2. AP!IsArray(b, Numbers) /\ TextHolds(b, << >>) /\ EndsAt(b, << >>) /\ A!Size(b) = A!Size(q.arr)
          BY <3>1, <4>1, <5>1, ClearText
        <5>3. b.used = 1
          BY <5>2 DEF EndsAt
        <5>4. Len(b.cells) = A!Size(q.arr)
          BY <5>2 DEF A!Size
        <5> HIDE DEF b
        <5> QED BY <1>1, <3>1, <4>1, <5>1, <5>2, <5>3, <5>4
      <4>2. CASE q.arr.used = 0 /\ A!Size(q.arr) = 0
        <5>1. b = q.arr
          BY <4>2 DEF mcr_String_clear
        <5> HIDE DEF b
        <5> QED BY <3>1, <4>2, <5>1
      <4>3. CASE q.arr.used # 0
        <5>1. b = q.arr
          BY <4>3
        <5> HIDE DEF b
        <5> QED BY <3>1, <3>2, <4>3, <5>1 DEF A!Size
      <4> QED BY <3>2, <4>1, <4>2, <4>3
    <3>4. b.used \in Nat
      BY <3>3 DEF AP!IsArray
    <3> HIDE DEF b
    <3>5. CASE pos >= b.used
      <4>1. r = A!Fails(b)
        BY <2>1, <2>4, <3>5
      <4> QED BY <3>3, <4>1, TextDone DEF r, e
    <3>6. CASE ~ pos >= b.used
      <4>1. r = A!Done(a)
        BY <2>1, <2>4, <3>6
      <4>2. b.used > 0 /\ EndsAt(b, text) /\ b.used = Len(text) + 1 /\ pos <= Len(text)
        BY <1>1, <3>3, <3>4, <3>6 DEF TextHolds, EndsAt
      <4>3. e = AP!Between(text, pos, s)
        BY <1>1, <4>2, InsertsIn DEF e
      <4>4. AP!IsArray(a, Numbers) /\ TextHolds(a, e)
        <5>1. pos \in 0..Len(text) /\ b.used + Len(s) <= Len(b.cells)
          BY <1>1, <3>3, <4>2
        <5> QED BY <1>1, <3>3, <4>2, <4>3, <5>1, MovedApart
      <4> HIDE DEF a
      <4> QED BY <4>1, <4>4, TextDone DEF r, e
    <3> QED BY <3>5, <3>6
  <2> QED BY <2>2, <2>3, <2>4
<1> QED BY <1>2, <1>3

LEMMA TextInsertKeeps ==
  ASSUME TextInv, ~ Mistreats, TextInsert
  PROVE  TextInv'
<1>1. PICK pos \in Indices, s \in Words :
        RoomFor(Len(s)) /\ Says(mcr_String_insert(str, pos, s), Inserted(text, pos, s))
  BY DEF TextInsert
<1>2. pos \in 0..Len(text) + 1 /\ s \in Seq(Letters) /\ text \in Seq(Letters)
  BY PosAre, WordsAre
<1>3. TextLeaves(mcr_String_insert(str, pos, s), text, Inserted(text, pos, s)) /\ Inserted(text, pos, s) \in Seq(Letters)
  BY <1>1, <1>2, TextInsertLeaves, InsertsIn
<1> QED BY <1>1, <1>3, SaysKeeps

LEMMA TextAppendKeeps ==
  ASSUME TextInv, ~ Mistreats, TextAppend
  PROVE  TextInv'
<1>1. PICK s \in Words : RoomFor(Len(s)) /\ Says(mcr_String_append(str, s), text \o s)
  BY DEF TextAppend
<1>2. s \in Seq(Letters) /\ text \in Seq(Letters) /\ Len(text) \in Nat
  BY WordsAre, LettersAre DEF TextInv
<1>3. mcr_String_append(str, s) = mcr_String_insert(str, Len(text), s)
  <2>1. CASE str.used = 0
    <3>1. Len(text) = 0
      BY <2>1 DEF TextInv, TextHolds
    <3> QED BY <2>1, <3>1 DEF mcr_String_append
  <2>2. CASE str.used # 0
    <3>1. str.used - 1 = Len(text)
      BY <1>2, <2>2 DEF TextInv, TextHolds, EndsAt
    <3> QED BY <2>2, <3>1 DEF mcr_String_append
  <2> QED BY <2>1, <2>2
<1>4. Inserted(text, Len(text), s) = text \o s /\ text \o s \in Seq(Letters) /\ Len(text) \in 0..Len(text) + 1
  <2>1. Len(text) \in 0..Len(text) + 1 /\ Len(text) <= Len(text)
    BY <1>2
  <2>2. Inserted(text, Len(text), s) = AP!Between(text, Len(text), s)
    BY <1>2, <2>1, InsertsIn
  <2> QED BY <1>2, <2>1, <2>2, AP!OverTheEnd
<1>5. TextLeaves(mcr_String_append(str, s), text, text \o s)
  BY <1>1, <1>2, <1>3, <1>4, TextInsertLeaves
<1> QED BY <1>1, <1>4, <1>5, SaysKeeps

\* One character and the end behind it.
LEMMA TextPushLeaves ==
  ASSUME TextInv, ~ Mistreats, RoomFor(1), NEW c \in Letters
  PROVE  TextLeaves(mcr_String_push(str, c), text, Append(text, c)) /\ Append(text, c) \in Seq(Letters)
<1> DEFINE q == A!mcr_Array_smartsize(str, 1)
           b == q.arr
           n == IF b.used = 0 THEN 1 ELSE b.used
           x == << c >>
           w == Put(b.cells, n - 1, x)
           d == [b EXCEPT !.cells = Put(@, n - 1, << c >>)]
           t == Append(text, c)
           r == mcr_String_push(str, c)
<1>1. text \in Seq(Letters) /\ Len(text) \in Nat
  BY LettersAre DEF TextInv
<1>2. t \in Seq(Letters) /\ Len(t) = Len(text) + 1 /\ t[Len(text) + 1] = c /\ \A i \in 1..Len(text) : t[i] = text[i]
  BY <1>1
<1>3. r = IF q.failed THEN q ELSE A!Done(Ended(d, n))
  BY DEF mcr_String_push, A!Then
<1>4. q.failed \in BOOLEAN /\ (q.failed => TextLeaves(q, text, t))
  <2>1. 1 \in Nat
    OBVIOUS
  <2> QED BY <2>1, RoomRefused
<1>5. CASE q.failed
  <2>1. r = q
    BY <1>3, <1>5
  <2> QED BY <1>2, <1>4, <1>5, <2>1
<1>6. CASE ~ q.failed
  <2>1. /\ AP!IsArray(b, Numbers) /\ TextHolds(b, text)
        /\ b.used > 0 => b.used + 1 <= A!Size(b)
        /\ b.used = 0 /\ A!Size(b) > 0 => 1 + 1 <= A!Size(b)
        /\ A!Size(b) > 0
    <3>1. 1 \in Nat /\ 1 > 0
      OBVIOUS
    <3> QED BY <1>6, <3>1, RoomMade
  <2> HIDE DEF b, r, t
  <2>2. b \in [cells : Seq(Numbers), used : Nat] /\ Len(b.cells) \in Nat /\ Len(b.cells) <= CellLimit /\ A!Size(b) = Len(b.cells)
    BY <2>1 DEF AP!IsArray, A!Size
  <2>3. n = Len(t) /\ n \in Nat /\ n + 1 <= Len(b.cells) /\ n = Len(text) + 1
    <3>1. CASE b.used = 0
      <4>1. Len(text) = 0
        BY <2>1, <3>1 DEF TextHolds
      <4> QED BY <1>2, <2>1, <2>2, <3>1, <4>1
    <3>2. CASE b.used # 0
      <4>1. b.used = Len(text) + 1
        BY <2>1, <3>2 DEF TextHolds, EndsAt
      <4> QED BY <1>1, <1>2, <2>1, <2>2, <3>2, <4>1
    <3> QED BY <3>1, <3>2
  <2>4. \A i \in 1..Len(text) : b.cells[i] = text[i]
    <3>1. CASE b.used = 0
      <4>1. Len(text) = 0
        BY <2>1, <3>1 DEF TextHolds
      <4> QED BY <4>1
    <3>2. CASE b.used # 0
      BY <2>1, <3>2 DEF TextHolds, EndsAt
    <3> QED BY <3>1, <3>2
  <2>5. x \in Seq(Numbers) /\ Len(x) = 1 /\ x[1] = c
    BY LettersAre
  <2>6. d = [b EXCEPT !.cells = w]
    OBVIOUS
  <2> HIDE DEF n, x
  <2>7. AsPut(w, b.cells, n - 1, x)
    <3>1. n - 1 \in Int /\ b.cells \in Seq(Numbers)
      BY <2>2, <2>3
    <3> QED BY <2>5, <3>1, PutIs
  <2>8. w \in Seq(Numbers) /\ Len(w) = Len(b.cells)
    BY <2>7 DEF AsPut
  <2>9. ASSUME NEW i \in 1..Len(t) PROVE w[i] = t[i]
    <3>1. i \in 1..Len(b.cells) /\ i \in Int
      BY <2>2, <2>3
    <3>2. CASE i <= Len(text)
      <4>1. w[i] = b.cells[i]
        BY <1>1, <2>3, <2>5, <2>7, <3>1, <3>2 DEF AsPut
      <4> QED BY <1>1, <1>2, <2>4, <3>2, <4>1
    <3>3. CASE i = Len(text) + 1
      <4>1. n - 1 < i /\ i <= (n - 1) + Len(x) /\ i - (n - 1) = 1
        BY <1>1, <2>3, <2>5, <3>3
      <4>2. w[i] = x[i - (n - 1)]
        BY <2>7, <3>1, <4>1 DEF AsPut
      <4> QED BY <1>2, <2>5, <3>3, <4>1, <4>2
    <3> QED BY <1>1, <1>2, <3>2, <3>3
  <2> HIDE DEF w, d
  <2>10. d \in [cells : Seq(Numbers), used : Nat] /\ d.cells = w
    BY <2>2, <2>6, <2>8
  <2>11. AP!IsArray(Ended(d, n), Numbers) /\ TextHolds(Ended(d, n), t)
    <3>1. Len(t) < Len(d.cells) /\ Len(d.cells) <= CellLimit /\ \A i \in 1..Len(t) : d.cells[i] = t[i]
      BY <2>2, <2>3, <2>8, <2>9, <2>10
    <3> QED BY <1>2, <2>3, <2>10, <3>1, EndedIs
  <2>12. r = A!Done(Ended(d, n))
    BY <1>3, <1>6
  <2>13. TextLeaves(r, text, t)
    BY <2>11, <2>12, TextDone
  <2> QED BY <1>2, <2>13 DEF r, t
<1> QED BY <1>4, <1>5, <1>6

LEMMA TextPushKeeps ==
  ASSUME TextInv, ~ Mistreats, TextPush
  PROVE  TextInv'
<1>1. PICK c \in Letters : RoomFor(1) /\ Says(mcr_String_push(str, c), Append(text, c))
  BY DEF TextPush
<1> QED BY <1>1, TextPushLeaves, SaysKeeps

\* Writing over characters that stay in front of the end.
LEMMA WriteWithin ==
  ASSUME NEW a, AP!IsArray(a, Numbers), NEW t \in Seq(Letters), EndsAt(a, t), NEW src \in Seq(Letters),
         NEW pos \in Nat, pos + Len(src) <= Len(t)
  PROVE  LET b == [a EXCEPT !.cells = Put(@, pos, src)]
         IN AP!IsArray(b, Numbers) /\ TextHolds(b, AP!Over(t, pos, src))
<1> DEFINE o == AP!Over(t, pos, src)
           w == Put(a.cells, pos, src)
           b == [a EXCEPT !.cells = Put(@, pos, src)]
<1>1. /\ a \in [cells : Seq(Numbers), used : Nat] /\ a.used <= Len(a.cells) /\ Len(a.cells) <= CellLimit
      /\ Len(a.cells) \in Nat /\ a.cells \in Seq(Numbers)
  BY DEF AP!IsArray
<1>2. Len(t) \in Nat /\ Len(src) \in Nat /\ src \in Seq(Numbers) /\ pos \in Int /\ pos \in 0..Len(t)
  BY LettersAre
<1>3. a.used = Len(t) + 1 /\ (\A i \in 1..Len(t) : a.cells[i] = t[i]) /\ a.cells[Len(t) + 1] = End
  BY DEF EndsAt
<1>4. AsPut(w, a.cells, pos, src)
  BY <1>1, <1>2, PutIs
<1>5. b = [a EXCEPT !.cells = w]
  OBVIOUS
<1>6. w \in Seq(Numbers) /\ Len(w) = Len(a.cells)
  BY <1>4 DEF AsPut
<1>7. AP!AsOver(o, Letters, t, pos, src)
  BY <1>2, AP!OverIs
<1> HIDE DEF w, o, b
<1>8. o \in Seq(Letters) /\ Len(o) = Len(t)
  BY <1>2, <1>7 DEF AP!AsOver
<1>9. ASSUME NEW i \in 1..Len(o) PROVE w[i] = o[i]
  <2>0. i \in 1..Len(a.cells) /\ i \in 1..Len(t)
    BY <1>1, <1>2, <1>3, <1>8
  <2>1. CASE i <= pos
    BY <1>2, <1>3, <1>4, <1>7, <2>0, <2>1 DEF AsPut, AP!AsOver
  <2>2. CASE pos < i /\ i <= pos + Len(src)
    BY <1>2, <1>4, <1>7, <2>0, <2>2 DEF AsPut, AP!AsOver
  <2>3. CASE pos + Len(src) < i
    BY <1>2, <1>3, <1>4, <1>7, <2>0, <2>3 DEF AsPut, AP!AsOver
  <2> QED BY <1>2, <2>1, <2>2, <2>3
<1>10. w[Len(o) + 1] = End
  <2>1. Len(t) + 1 \in 1..Len(a.cells) /\ ~ (pos < Len(t) + 1 /\ Len(t) + 1 <= pos + Len(src))
    BY <1>1, <1>2, <1>3
  <2>2. w[Len(t) + 1] = a.cells[Len(t) + 1]
    BY <1>4, <2>1 DEF AsPut
  <2> QED BY <1>3, <1>8, <2>2
<1>11. b \in [cells : Seq(Numbers), used : Nat] /\ b.cells = w /\ b.used = a.used
  BY <1>1, <1>5, <1>6
<1>12. AP!IsArray(b, Numbers) /\ TextHolds(b, o)
  BY <1>1, <1>2, <1>3, <1>6, <1>8, <1>9, <1>10, <1>11 DEF AP!IsArray, TextHolds, EndsAt
<1> QED BY <1>12 DEF b, o

LEMMA TextSetKeeps ==
  ASSUME TextInv, ~ Mistreats, TextSet
  PROVE  TextInv'
<1>1. PICK pos \in Indices, c \in Letters :
        RoomFor(1) /\ Says(mcr_String_set(str, pos, c), Overwritten(text, pos, << c >>))
  BY DEF TextSet
<1> DEFINE x == << c >>
           e == Overwritten(text, pos, x)
           first == AP!Least(pos, Len(text))
<1>2. pos \in 0..Len(text) + 1 /\ pos \in Nat /\ Len(text) \in Nat /\ text \in Seq(Letters) /\ x \in Seq(Letters) /\ Len(x) = 1
  BY PosAre
<1>3. first \in 0..Len(text) /\ e = AP!Over(text, first, x) /\ e \in Seq(Letters)
  BY <1>2, WritesIn
<1>4. CASE pos >= Len(text)
  <2>1. mcr_String_set(str, pos, c) = mcr_String_push(str, c)
    <3>1. str.used = 0 \/ pos >= str.used - 1
      BY <1>2, <1>4 DEF TextInv, TextHolds, EndsAt
    <3> QED BY <3>1 DEF mcr_String_set
  <2>2. e = Append(text, c)
    <3>1. first = Len(text)
      BY <1>2, <1>4 DEF AP!Least
    <3>2. AP!Over(text, Len(text), x) = text \o x
      BY <1>2, AP!OverTheEnd
    <3>3. text \o << c >> = Append(text, c)
      BY <1>2
    <3> QED BY <1>3, <3>1, <3>2, <3>3
  <2>3. TextLeaves(mcr_String_set(str, pos, c), text, e)
    BY <1>1, <2>1, <2>2, TextPushLeaves
  <2> QED BY <1>1, <1>3, <2>3, SaysKeeps
<1>5. CASE pos < Len(text)
  <2>1. str.used # 0 /\ EndsAt(str, text)
    <3>1. Len(text) # 0
      BY <1>2, <1>5
    <3> QED BY <3>1 DEF TextInv, TextHolds
  <2>2. mcr_String_set(str, pos, c) = A!Done([str EXCEPT !.cells = Put(@, pos, x)])
    <3>1. ~ (str.used = 0 \/ pos >= str.used - 1)
      BY <1>2, <1>5, <2>1 DEF EndsAt
    <3> QED BY <3>1 DEF mcr_String_set
  <2>3. first = pos
    BY <1>2, <1>5 DEF AP!Least
  <2> DEFINE b == [str EXCEPT !.cells = Put(@, pos, x)]
  <2>4. AP!IsArray(b, Numbers) /\ TextHolds(b, e)
    <3>1. pos + Len(x) <= Len(text)
      BY <1>2, <1>5
    <3> QED BY <1>2, <1>3, <2>1, <2>3, <3>1, WriteWithin DEF TextInv
  <2> HIDE DEF b, x
  <2>5. TextLeaves(A!Done(b), text, e)
    BY <2>4, TextDone
  <2> QED BY <1>1, <1>3, <2>2, <2>5, SaysKeeps DEF b, x
<1> QED BY <1>2, <1>4, <1>5

LEMMA TakesOut ==
  ASSUME NEW t \in Seq(Letters), NEW pos \in 0..Len(t) + 1, NEW count \in Nat
  PROVE  /\ Removed(t, pos, count) \in Seq(Letters)
         /\ pos >= Len(t) => Removed(t, pos, count) = t
         /\ pos <= Len(t) /\ pos + count >= Len(t) => Removed(t, pos, count) = SubSeq(t, 1, pos)
         /\ pos + count < Len(t) => Removed(t, pos, count) = AP!Without(t, pos, count)
<1>1. t \in Seq(Elements) /\ Len(t) \in Nat /\ pos \in Nat /\ pos \in Int
  BY LettersAre
<1> DEFINE m == AP!Least(pos, Len(t))
<1>2. First(t, pos) = SubSeq(t, 1, m) /\ m \in 0..Len(t) /\ (pos >= Len(t) => m = Len(t)) /\ (pos <= Len(t) => m = pos)
  <2>1. First(t, pos) = SubSeq(t, 1, m)
    BY <1>1, FirstAre
  <2> QED BY <1>1, <2>1 DEF AP!Least
<1> HIDE DEF m
<1>3. SubSeq(t, 1, m) \in Seq(Letters) /\ (m = Len(t) => SubSeq(t, 1, m) = t)
  BY <1>1, <1>2
<1>4. After(t, pos + count) \in Seq(Letters) /\ (pos + count >= Len(t) => After(t, pos + count) = << >>)
  BY <1>1 DEF After
<1>5. Removed(t, pos, count) \in Seq(Letters)
  BY <1>2, <1>3, <1>4 DEF Removed
<1>6. pos >= Len(t) => Removed(t, pos, count) = t
  <2> SUFFICES ASSUME pos >= Len(t) PROVE Removed(t, pos, count) = t
    OBVIOUS
  <2>1. pos + count >= Len(t)
    BY <1>1
  <2>2. First(t, pos) = t /\ After(t, pos + count) = << >>
    BY <1>2, <1>3, <1>4, <2>1
  <2>3. t \o << >> = t
    OBVIOUS
  <2> QED BY <2>2, <2>3 DEF Removed
<1>7. pos <= Len(t) /\ pos + count >= Len(t) => Removed(t, pos, count) = SubSeq(t, 1, pos)
  <2> SUFFICES ASSUME pos <= Len(t), pos + count >= Len(t) PROVE Removed(t, pos, count) = SubSeq(t, 1, pos)
    OBVIOUS
  <2>1. First(t, pos) = SubSeq(t, 1, pos) /\ After(t, pos + count) = << >> /\ SubSeq(t, 1, pos) \in Seq(Letters)
    BY <1>2, <1>3, <1>4
  <2>2. SubSeq(t, 1, pos) \o << >> = SubSeq(t, 1, pos)
    BY <2>1
  <2> QED BY <2>1, <2>2 DEF Removed
<1>8. pos + count < Len(t) => Removed(t, pos, count) = AP!Without(t, pos, count)
  <2> SUFFICES ASSUME pos + count < Len(t) PROVE Removed(t, pos, count) = AP!Without(t, pos, count)
    OBVIOUS
  <2>1. pos <= Len(t)
    BY <1>1
  <2> QED BY <1>2, <2>1 DEF Removed, After, AP!Without
<1> QED BY <1>5, <1>6, <1>7, <1>8

\* A string that ends after a part of its characters.
LEMMA CutText ==
  ASSUME NEW a, AP!IsArray(a, Numbers), NEW t \in Seq(Letters), EndsAt(a, t), NEW n \in 0..Len(t)
  PROVE  AP!IsArray(Ended(a, n), Numbers) /\ TextHolds(Ended(a, n), SubSeq(t, 1, n)) /\ SubSeq(t, 1, n) \in Seq(Letters)
<1> DEFINE u == SubSeq(t, 1, n)
<1>1. Len(t) \in Nat /\ a.used = Len(t) + 1 /\ \A i \in 1..Len(t) : a.cells[i] = t[i]
  BY LettersAre DEF EndsAt
<1>2. a \in [cells : Seq(Numbers), used : Nat] /\ a.used <= Len(a.cells) /\ Len(a.cells) <= CellLimit /\ Len(a.cells) \in Nat
  BY DEF AP!IsArray
<1>3. u \in Seq(Letters) /\ Len(u) = n /\ \A i \in 1..n : u[i] = t[i]
  BY <1>1
<1> HIDE DEF u
<1>4. \A i \in 1..Len(u) : a.cells[i] = u[i]
  BY <1>1, <1>3
<1>5. Len(u) < Len(a.cells)
  BY <1>1, <1>2, <1>3
<1>6. AP!IsArray(Ended(a, Len(u)), Numbers) /\ TextHolds(Ended(a, Len(u)), u)
  BY <1>2, <1>3, <1>4, <1>5, EndedIs
<1> QED BY <1>3, <1>6 DEF u

LEMMA TextPopKeeps ==
  ASSUME TextInv, TextPop
  PROVE  TextInv'
<1> DEFINE a == mcr_String_pop(str)
           e == First(text, Len(text) - 1)
<1>1. text \in Seq(Letters) /\ text \in Seq(Elements) /\ Len(text) \in Nat /\ Len(text) - 1 \in Int /\ Len(text) - 1 <= Len(text)
  BY LettersAre DEF TextInv
<1>2. e = SubSeq(text, 1, Len(text) - 1) /\ e \in Seq(Letters)
  <2>1. First(text, Len(text) - 1) = SubSeq(text, 1, Len(text) - 1)
    BY <1>1, FirstAre
  <2> QED BY <1>1, <2>1
<1>3. CASE text = << >>
  <2>1. a = str
    <3>1. Len(text) = 0
      BY <1>3
    <3>2. str.used = 0 \/ str.cells[1] = End
      <4>1. CASE str.used # 0
        BY <3>1, <4>1 DEF TextInv, TextHolds, EndsAt
      <4> QED BY <4>1
    <3> QED BY <3>2 DEF mcr_String_pop
  <2>2. e = text
    <3>1. Len(e) = 0
      BY <1>2, <1>3
    <3> QED BY <1>2, <1>3, <3>1
  <2>3. TextLeaves(A!Done(a), text, e)
    BY <2>1, <2>2, TextDone DEF TextInv
  <2> QED BY <1>2, <2>3, SaysKeeps DEF TextPop
<1>4. CASE text # << >>
  <2>1. Len(text) > 0 /\ str.used # 0 /\ EndsAt(str, text)
    BY <1>1, <1>4 DEF TextInv, TextHolds
  <2>2. str.used = Len(text) + 1 /\ str.cells[1] = text[1] /\ text[1] # End
    <3>1. 1 \in 1..Len(text)
      BY <1>1, <2>1
    <3>2. text[1] # End
      BY <1>1, <3>1, LettersAre
    <3> QED BY <2>1, <3>1, <3>2 DEF EndsAt
  <2>3. a = Ended(str, Len(text) - 1)
    <3>1. str.used - 2 = Len(text) - 1 /\ ~ (str.used = 0 \/ str.cells[1] = End)
      BY <1>1, <2>1, <2>2
    <3> QED BY <3>1 DEF mcr_String_pop
  <2>4. AP!IsArray(a, Numbers) /\ TextHolds(a, e)
    <3>1. Len(text) - 1 \in 0..Len(text)
      BY <1>1, <2>1
    <3> QED BY <1>1, <1>2, <2>1, <2>3, <3>1, CutText DEF TextInv
  <2>5. TextLeaves(A!Done(a), text, e)
    <3> HIDE DEF a
    <3> QED BY <2>4, TextDone
  <2> QED BY <1>2, <2>5, SaysKeeps DEF TextPop
<1> QED BY <1>3, <1>4

\* The characters behind those that are removed move with the end.
LEMMA MovedTogether ==
  ASSUME NEW b, AP!IsArray(b, Numbers), NEW t \in Seq(Letters), EndsAt(b, t), NEW pos \in Nat, NEW count \in Nat,
         pos + count < Len(t)
  PROVE  LET a == [cells |-> Put(b.cells, pos, SubSeq(b.cells, pos + count + 1, b.used)), used |-> b.used - count]
         IN AP!IsArray(a, Numbers) /\ TextHolds(a, AP!Without(t, pos, count))
<1> DEFINE from == pos + count
           tail == SubSeq(b.cells, from + 1, b.used)
           w == Put(b.cells, pos, tail)
           o == AP!Without(t, pos, count)
           a == [cells |-> w, used |-> b.used - count]
<1>1. /\ b.cells \in Seq(Numbers) /\ Len(b.cells) \in Nat /\ b.used = Len(t) + 1 /\ Len(b.cells) <= CellLimit
      /\ Len(t) \in Nat /\ b.used <= Len(b.cells) /\ pos \in Int /\ from \in Nat /\ from < Len(t)
      /\ \A i \in 1..Len(t) : b.cells[i] = t[i]
      /\ b.cells[Len(t) + 1] = End
  <2>1. /\ b.cells \in Seq(Numbers) /\ Len(b.cells) \in Nat /\ Len(b.cells) <= CellLimit /\ b.used <= Len(b.cells)
    BY DEF AP!IsArray
  <2>2. /\ b.used = Len(t) + 1 /\ (\A i \in 1..Len(t) : b.cells[i] = t[i]) /\ b.cells[Len(t) + 1] = End
    BY DEF EndsAt
  <2>3. Len(t) \in Nat /\ pos \in Int /\ from \in Nat /\ from < Len(t)
    BY LettersAre
  <2> QED BY <2>1, <2>2, <2>3
<1>2. tail \in Seq(Numbers) /\ Len(tail) = b.used - from /\ \A i \in 1..b.used - from : tail[i] = b.cells[from + i]
  <2>1. b.used - from \in Nat /\ from + (b.used - from) = b.used
    BY <1>1
  <2> HIDE DEF from
  <2> QED BY <1>1, <2>1, SubSeqIs
<1> HIDE DEF tail
<1>3. AsPut(w, b.cells, pos, tail)
  BY <1>1, <1>2, PutIs
<1>4. w \in Seq(Numbers) /\ Len(w) = Len(b.cells)
  BY <1>3 DEF AsPut
<1> HIDE DEF w
<1>5. /\ o \in Seq(Letters) /\ Len(o) = Len(t) - count
      /\ \A i \in 1..Len(t) - count : i <= pos => o[i] = t[i]
      /\ \A i \in 1..Len(t) - count : pos < i => o[i] = t[i + count]
  <2>1. pos \in 0..Len(t) /\ count \in 0..Len(t) - pos
    BY <1>1
  <2> QED BY <2>1, AP!WithoutIs
<1> HIDE DEF o
<1>6. ASSUME NEW i \in 1..Len(o) PROVE w[i] = o[i]
  <2>0. i \in 1..Len(b.cells) /\ i \in 1..Len(t) - count /\ i \in 1..Len(t)
    BY <1>1, <1>5
  <2>1. CASE i <= pos
    <3>1. w[i] = b.cells[i]
      BY <1>1, <1>3, <2>0, <2>1 DEF AsPut
    <3> QED BY <1>1, <1>5, <2>0, <2>1, <3>1
  <2>2. CASE pos < i
    <3>1. i <= pos + Len(tail) /\ i - pos \in 1..b.used - from /\ from + (i - pos) = i + count /\ i + count \in 1..Len(t)
      BY <1>1, <1>2, <2>0, <2>2
    <3>2. w[i] = tail[i - pos]
      BY <1>3, <2>0, <2>2, <3>1 DEF AsPut
    <3>3. tail[i - pos] = b.cells[i + count]
      BY <1>2, <3>1
    <3> QED BY <1>1, <1>5, <2>0, <2>2, <3>1, <3>2, <3>3
  <2> QED BY <2>1, <2>2
<1>7. w[Len(o) + 1] = End
  <2> DEFINE i == Len(o) + 1
  <2>0. i \in 1..Len(b.cells) /\ i = Len(t) - count + 1 /\ pos < i
    BY <1>1, <1>5
  <2> HIDE DEF i
  <2>1. i <= pos + Len(tail) /\ i - pos \in 1..b.used - from /\ from + (i - pos) = Len(t) + 1
    BY <1>1, <1>2, <2>0
  <2>2. w[i] = tail[i - pos]
    BY <1>3, <2>0, <2>1 DEF AsPut
  <2>3. tail[i - pos] = b.cells[Len(t) + 1]
    BY <1>2, <2>1
  <2> QED BY <1>1, <2>2, <2>3 DEF i
<1>8. a.used = Len(o) + 1 /\ a.used \in Nat /\ a.used <= Len(w) /\ a.used # 0
  BY <1>1, <1>4, <1>5
<1>9. AP!IsArray(a, Numbers)
  BY <1>1, <1>4, <1>8 DEF AP!IsArray
<1>10. TextHolds(a, o)
  BY <1>6, <1>7, <1>8 DEF TextHolds, EndsAt
<1> QED BY <1>9, <1>10 DEF a, w, tail, o

LEMMA TextRemoveIndexKeeps ==
  ASSUME TextInv, TextRemoveIndex
  PROVE  TextInv'
<1>1. PICK pos \in Indices, count \in Counts :
        Says(A!Done(mcr_String_remove_index(str, pos, count)), Removed(text, pos, count))
  BY DEF TextRemoveIndex
<1> DEFINE a == mcr_String_remove_index(str, pos, count)
           e == Removed(text, pos, count)
<1>2. pos \in 0..Len(text) + 1 /\ pos \in Nat /\ Len(text) \in Nat /\ text \in Seq(Letters) /\ count \in Nat
  BY PosAre, ArrayAssumption DEF Counts
<1>3. /\ e \in Seq(Letters)
      /\ pos >= Len(text) => e = text
      /\ pos <= Len(text) /\ pos + count >= Len(text) => e = SubSeq(text, 1, pos)
      /\ pos + count < Len(text) => e = AP!Without(text, pos, count)
  BY <1>2, TakesOut
<1>4. AP!IsArray(a, Numbers) /\ TextHolds(a, e)
  <2>1. CASE pos >= Len(text)
    <3>1. str.used = 0 \/ pos >= str.used - 1
      BY <1>2, <2>1 DEF TextInv, TextHolds, EndsAt
    <3>2. a = str
      BY <3>1 DEF mcr_String_remove_index
    <3> QED BY <1>3, <2>1, <3>2 DEF TextInv
  <2>2. CASE pos < Len(text)
    <3>1. str.used # 0 /\ EndsAt(str, text) /\ str.used = Len(text) + 1
      <4>1. Len(text) # 0
        BY <1>2, <2>2
      <4> QED BY <4>1 DEF TextInv, TextHolds, EndsAt
    <3>2. ~ (str.used = 0 \/ pos >= str.used - 1) /\ str.used - 1 = Len(text)
      BY <1>2, <2>2, <3>1
    <3>3. CASE pos + count >= Len(text)
      <4>1. a = Ended(str, pos)
        BY <3>2, <3>3 DEF mcr_String_remove_index
      <4>2. pos \in 0..Len(text) /\ pos <= Len(text) /\ pos + count >= Len(text)
        BY <1>2, <2>2, <3>3
      <4>3. e = SubSeq(text, 1, pos)
        BY <1>3, <4>2
      <4>4. AP!IsArray(Ended(str, pos), Numbers) /\ TextHolds(Ended(str, pos), SubSeq(text, 1, pos))
        BY <3>1, <4>2, CutText DEF TextInv
      <4> HIDE DEF a, e
      <4> QED BY <4>1, <4>3, <4>4
    <3>4. CASE pos + count < Len(text)
      <4>1. a = [cells |-> Put(str.cells, pos, SubSeq(str.cells, pos + count + 1, str.used)), used |-> str.used - count]
        <5>1. ~ pos + count >= str.used - 1
          BY <1>2, <3>2, <3>4
        <5> QED BY <3>2, <5>1 DEF mcr_String_remove_index
      <4> HIDE DEF a
      <4> QED BY <1>2, <1>3, <3>1, <3>4, <4>1, MovedTogether DEF TextInv
    <3> QED BY <1>2, <3>3, <3>4
  <2> QED BY <1>2, <2>1, <2>2
<1> HIDE DEF a, e
<1>5. TextLeaves(A!Done(a), text, e)
  BY <1>4, TextDone
<1> QED BY <1>1, <1>3, <1>5, SaysKeeps DEF a, e

\* A string of other characters, in cells that there are.
LEMMA WriteWhole ==
  ASSUME NEW a \in [cells : Seq(Numbers), used : Nat], Len(a.cells) <= CellLimit, NEW s \in Seq(Letters),
         Len(s) < Len(a.cells)
  PROVE  LET b == Ended([a EXCEPT !.cells = Put(@, 0, s)], Len(s))
         IN AP!IsArray(b, Numbers) /\ TextHolds(b, s)
<1> DEFINE w == Put(a.cells, 0, s)
           c == [a EXCEPT !.cells = Put(@, 0, s)]
<1>1. a.cells \in Seq(Numbers) /\ s \in Seq(Numbers) /\ Len(s) \in Nat /\ Len(a.cells) \in Nat /\ 0 \in Int
  BY LettersAre
<1>2. AsPut(w, a.cells, 0, s)
  BY <1>1, PutIs
<1>3. c = [a EXCEPT !.cells = w]
  OBVIOUS
<1> HIDE DEF w, c
<1>4. w \in Seq(Numbers) /\ Len(w) = Len(a.cells)
  BY <1>2 DEF AsPut
<1>5. \A i \in 1..Len(s) : w[i] = s[i]
  BY <1>1, <1>2 DEF AsPut
<1>6. c \in [cells : Seq(Numbers), used : Nat] /\ c.cells = w
  BY <1>1, <1>3, <1>4
<1>7. AP!IsArray(Ended(c, Len(s)), Numbers) /\ TextHolds(Ended(c, Len(s)), s)
  BY <1>4, <1>5, <1>6, EndedIs
<1> QED BY <1>7 DEF c

LEMMA TextReplaceKeeps ==
  ASSUME TextInv, TextReplace
  PROVE  TextInv'
<1>1. PICK s \in Words : Says(mcr_String_nreplace(str, s), s)
  BY DEF TextReplace
<1> DEFINE q == A!mcr_Array_resize(str, Len(s) + 1)
           w == Ended([q.arr EXCEPT !.cells = Put(@, 0, s)], Len(s))
           r == mcr_String_nreplace(str, s)
<1>2. s \in Seq(Letters) /\ Len(s) + 1 \in Nat /\ Len(s) \in Nat
  BY WordsAre
<1>3. r = IF q.failed THEN q ELSE A!Done(w)
  BY DEF mcr_String_nreplace, A!Then
<1>4. AP!AsResized(q, Numbers, str, Len(s) + 1)
  BY <1>2, NumbersAre, SameResize, AP!ResizeKeeps DEF TextInv
<1> HIDE DEF q, r
<1>5. /\ q.failed \in BOOLEAN /\ AP!IsArray(q.arr, Numbers)
      /\ q.failed => q.arr.used = str.used
      /\ ~ q.failed => AP!Size(q.arr) = Len(s) + 1
      /\ \A i \in 1..q.arr.used : q.arr.cells[i] = str.cells[i]
  BY <1>4 DEF AP!AsResized
<1>6. CASE q.failed
  <2>1. TextHolds(q.arr, text)
    BY <1>5, <1>6, KeptText DEF TextInv
  <2>2. r = q
    BY <1>3, <1>6
  <2>3. TextLeaves(r, text, s)
    BY <1>5, <1>6, <2>1, <2>2 DEF TextLeaves
  <2> QED BY <1>1, <1>2, <2>3, SaysKeeps DEF r
<1>7. CASE ~ q.failed
  <2>1. /\ q.arr \in [cells : Seq(Numbers), used : Nat] /\ Len(q.arr.cells) <= CellLimit /\ Len(s) < Len(q.arr.cells)
    <3>1. Len(q.arr.cells) = Len(s) + 1
      BY <1>5, <1>7 DEF AP!Size
    <3> QED BY <1>2, <1>5, <3>1 DEF AP!IsArray
  <2>2. AP!IsArray(w, Numbers) /\ TextHolds(w, s)
    BY <1>2, <2>1, WriteWhole
  <2>3. r = A!Done(w)
    BY <1>3, <1>7
  <2> HIDE DEF w
  <2>4. TextLeaves(r, text, s)
    BY <2>2, <2>3, TextDone
  <2> QED BY <1>1, <1>2, <2>4, SaysKeeps DEF r
<1> QED BY <1>5, <1>6, <1>7

LEMMA TextCopyKeeps ==
  ASSUME TextInv, ~ Mistreats, TextCopy
  PROVE  TextInv'
<1>1. PICK pos \in Indices, s \in Words :
        /\ Begins(str, pos) = 0 /\ Len(s) >= Len(text)
        /\ Says(mcr_String_copy_str(str, pos, s), Overwritten(text, Begins(str, pos), s))
  BY DEF TextCopy
<1> DEFINE q == A!mcr_Array_minused(str, Len(s) + 1)
           c == [q.arr EXCEPT !.cells = Put(Put(@, 0, s), Len(s), << End >>)]
           d == Ended([q.arr EXCEPT !.cells = Put(@, 0, s)], Len(s))
           r == mcr_String_copy_str(str, pos, s)
           e == Overwritten(text, 0, s)
<1>2. /\ s \in Seq(Letters) /\ Len(s) + 1 \in Nat /\ Len(s) \in Nat /\ text \in Seq(Letters) /\ Len(text) \in Nat
      /\ Len(s) + 1 > 0 /\ 0 + Len(s) + 1 = Len(s) + 1
  BY WordsAre, LettersAre DEF TextInv
<1>3. e \in Seq(Letters) /\ (s = << >> => e = text) /\ (s # << >> => e = s)
  <2>1. 0 \in 0..Len(text) + 1 /\ AP!Least(0, Len(text)) = 0
    BY <1>2 DEF AP!Least
  <2>2. e \in Seq(Letters) /\ e = AP!Over(text, 0, s)
    BY <1>2, <2>1, WritesIn
  <2>3. s = << >> => e = text
    <3>1. s = << >> => Len(s) = 0
      OBVIOUS
    <3> QED BY <1>2, <2>1, <3>1, WritesNothing
  <2>4. e = s
    <3>1. SubSeq(text, 1, 0) = << >> /\ SubSeq(text, 0 + Len(s) + 1, Len(text)) = << >>
      BY <1>1, <1>2
    <3>2. << >> \o s \o << >> = s
      BY <1>2
    <3> QED BY <2>2, <3>1, <3>2 DEF AP!Over
  <2> QED BY <2>2, <2>3, <2>4
<1>4. CASE s = << >>
  <2>1. r = A!Done(str)
    BY <1>4 DEF mcr_String_copy_str
  <2>2. TextLeaves(r, text, e)
    BY <1>3, <1>4, <2>1, TextDone DEF TextInv
  <2> QED BY <1>1, <1>3, <2>2, SaysKeeps
<1>5. CASE s # << >>
  <2>1. r = IF q.failed THEN q ELSE A!Done(c)
    BY <1>1, <1>2, <1>5 DEF mcr_String_copy_str, A!Then
  <2>2. /\ q.failed \in BOOLEAN /\ AP!IsArray(q.arr, Numbers)
        /\ q.failed => TextHolds(q.arr, text)
        /\ ~ q.failed => /\ q.arr.used >= Len(s) + 1
                         /\ q.arr.used = Len(text) + 1 \/ q.arr.used = Len(s) + 1
    BY <1>2, RoomForText DEF TextInv
  <2> HIDE DEF q, r, e
  <2>3. CASE q.failed
    <3>1. r = q
      BY <2>1, <2>3
    <3>2. TextLeaves(r, text, e)
      BY <2>2, <2>3, <3>1 DEF TextLeaves
    <3> QED BY <1>1, <1>3, <3>2, SaysKeeps DEF r, e
  <2>4. CASE ~ q.failed
    <3>1. /\ q.arr \in [cells : Seq(Numbers), used : Nat] /\ Len(q.arr.cells) <= CellLimit /\ q.arr.used <= Len(q.arr.cells)
          /\ Len(q.arr.cells) \in Nat
      BY <2>2 DEF AP!IsArray
    <3>2. q.arr.used = Len(s) + 1 /\ Len(s) < Len(q.arr.cells)
      BY <1>1, <1>2, <2>2, <2>4, <3>1
    <3>3. AP!IsArray(d, Numbers) /\ TextHolds(d, s)
      BY <1>2, <3>1, <3>2, WriteWhole
    <3>4. c = d
      <4> DEFINE w == Put(Put(q.arr.cells, 0, s), Len(s), << End >>)
      <4>1. d = [q.arr EXCEPT !.cells = w, !.used = Len(s) + 1] /\ c = [q.arr EXCEPT !.cells = w]
        BY <3>1 DEF Ended
      <4> HIDE DEF w, c, d
      <4> QED BY <3>1, <3>2, <4>1
    <3> HIDE DEF c, d
    <3>5. TextLeaves(r, text, e)
      BY <1>3, <1>5, <2>1, <2>4, <3>3, <3>4, TextDone
    <3> QED BY <1>1, <1>3, <3>5, SaysKeeps DEF r, e
  <2> QED BY <2>2, <2>3, <2>4
<1> QED BY <1>4, <1>5

LEMMA TextSays ==
  ASSUME TextInv
  PROVE  TextTypeOK /\ HoldsText
<1>1. TextTypeOK
  BY DEF TextInv, TextTypeOK, AP!IsArray, Numbers
<1>2. CASE str.used = 0
  BY <1>1, <1>2 DEF TextInv, TextHolds, HoldsText
<1>3. CASE str.used # 0
  <2> DEFINE t == Append(text, End)
  <2>1. text \in Seq(Numbers) /\ Len(text) \in Nat /\ End \in Numbers
    BY LettersAre DEF TextInv
  <2>2. EndsAt(str, text)
    BY <1>3 DEF TextInv, TextHolds
  <2>3. t \in Seq(Numbers) /\ Len(t) = Len(text) + 1 /\ t[Len(text) + 1] = End /\ \A i \in 1..Len(text) : t[i] = text[i]
    BY <2>1
  <2> HIDE DEF t
  <2>4. \A i \in 1..Len(t) : str.cells[i] = t[i]
    <3>1. \A i \in 1..Len(t) : i \in 1..Len(text) \/ i = Len(text) + 1
      BY <2>1, <2>3
    <3> QED BY <2>2, <2>3, <3>1 DEF EndsAt
  <2>5. AP!Holds(str, t)
    BY <2>2, <2>3, <2>4 DEF EndsAt, AP!Holds
  <2>6. A!Contents(str) = t
    BY <2>3, <2>5, SameResults, AP!HoldsIts DEF TextInv
  <2>7. str.used <= A!Size(str)
    BY DEF TextInv, AP!IsArray, A!Size
  <2> QED BY <1>1, <1>3, <2>6, <2>7 DEF HoldsText, t
<1> QED BY <1>1, <1>2, <1>3

LEMMA TextStays ==
  ASSUME ~ Mistreats
  PROVE  TextInit /\ [][TextNext]_textVars => [](TextTypeOK /\ HoldsText)
<1>1. TextInit => TextInv
  <2>1. << >> \in Seq(Letters)
    OBVIOUS
  <2> QED BY <2>1, EmptyHolds DEF TextInit, TextInv, TextHolds, A!mcr_Array_deinit
<1>2. TextInv /\ [TextNext]_textVars => TextInv'
  <2> SUFFICES ASSUME TextInv, [TextNext]_textVars PROVE TextInv'
    OBVIOUS
  <2>1. CASE UNCHANGED textVars
    BY <2>1 DEF textVars, TextInv, AP!IsArray, TextHolds, EndsAt
  <2>2. CASE TextNext
    BY <2>2, TextInsertKeeps, TextAppendKeeps, TextPushKeeps, TextSetKeeps, TextRemoveIndexKeeps, TextPopKeeps,
       TextReplaceKeeps,
       TextCopyKeeps, TextFillKeeps, TextMoveKeeps, TextResizeKeeps, TextSizeKeeps, TextClearKeeps, Zenon
    DEF TextNext
  <2> QED BY <2>1, <2>2
<1> QED BY <1>1, <1>2, TextSays, PTL

-----------------------------------------------------------------------------
(* A behaviour of the library is one of each of its parts.                 *)

LEMMA EachPart ==
  Spec => /\ NamesSpec /\ ModifiersSpec /\ RegistrySpec /\ InstancesSpec /\ WrapSpec /\ TypingSpec /\ SafeSpec
          /\ ArraySpec /\ StringSpec /\ MapSpec /\ TextInit /\ [][TextNext]_textVars
<1>1. Init => /\ NamesInit /\ ModifiersInit /\ RegistryInit /\ InstancesInit /\ WrapInit /\ TypingInit /\ SafeInit
              /\ ArrayInit /\ StringInit /\ MapInit /\ TextInit
  BY DEF Init
<1>2. [Next]_vars => [ModifiersNext]_modifierVars
  BY Zenon DEF Next, vars, Only
<1>3. [Next]_vars => [RegistryNext]_registryVars
  BY Zenon DEF Next, vars, Only
<1>4. [Next]_vars => [InstancesNext]_instVars
  BY Zenon DEF Next, vars, Only
<1>5. [Next]_vars => [WrapNext]_wrapVars
  BY Zenon DEF Next, vars, Only
<1>6. [Next]_vars => [TypingNext]_typingVars
  BY Zenon DEF Next, vars, Only
<1>7. [Next]_vars => [NamesNext]_nameVars
  BY Zenon DEF Next, vars, Only
<1>8. [Next]_vars => [SafeNext]_safeVars
  BY Zenon DEF Next, vars, Only
<1>9. [Next]_vars => [ArrayNext]_arrayVars
  BY Zenon DEF Next, vars, Only
<1>10. [Next]_vars => [StringNext]_setVars
  BY Zenon DEF Next, vars, Only
<1>11. [Next]_vars => [TextNext]_textVars
  BY Zenon DEF Next, vars, Only
<1>12. [Next]_vars => [MapNext]_mapVars
  BY Zenon DEF Next, vars, Only
<1> QED
  BY <1>1, <1>2, <1>3, <1>4, <1>5, <1>6, <1>7, <1>8, <1>9, <1>10, <1>11, <1>12, PTL
  DEF Spec, NamesSpec, ModifiersSpec, RegistrySpec, InstancesSpec, WrapSpec, TypingSpec, SafeSpec, ArraySpec,
      StringSpec,
      MapSpec

-----------------------------------------------------------------------------
(* The theorems                                                            *)

\* A code is found by the name it has, whatever was renamed, moved, removed, loaded or resized before,
\* unless naming it failed half-way; and every name leads to a code that is in the table
\* (src/util/string_index.c, src/standard/key.c and hid_echo.c).
THEOREM CodesAreFound == Spec => []FoundByName
BY NamesStayFound, EachPart, PTL

\* Pressing the key that stands for a modifier sets that modifier, whatever keys and
\* modifiers were moved to others, and unless a call that moved one has failed half-way
\* (mcr_Key_set_mod and the rest of src/standard/key.c).
THEOREM KeysAlwaysAgree ==
  ASSUME ~ MovesInPlace
  PROVE  Spec => []KeysAgree
BY KeysStay, EachPart, PTL

\* A registered interface is found by its id and by the name of its id, if it can be asked for
\* that, and every name leads to a registered interface, whatever was named, renamed or
\* cleared before, unless the last call that named it failed half-way
\* (src/util/registry.c).
THEOREM RegistryAgrees == Spec => []IdsAndNamesAgree
BY RegistryStays, EachPart, PTL

\* Whatever fails while instances are set, copied, reset and destroyed, no data is
\* lost, held twice, or destroyed other than once for every time it was made
\* (src/util/instance.c and interface.c).
THEOREM DataIsOwned == Spec => []OwnsData
BY DataStays, EachPart, PTL

\* Macros of C++ are heard while they are enabled: as long as no triggers were replaced while they were
\* receivers, signals go to triggers that there are and that start the macro they belong to; and of
\* macros that are changed as the classes mean it, all activators go to all triggers if they are
\* enabled, and none if not (setEnabled, addDispatch and removeDispatch of src/extras/model.cpp).
THEOREM WrapsAreHeard == Spec => []HeardWhileEnabled
BY WrapsStay, EachPart, PTL

\* Texts are typed cleanly: whoever types at the same time, and whatever was done to the characters
\* before, each is sent as it was last asked for, and leaves no key down unless a send fails or the
\* character changes under its typist (StringKey::send of src/extras/string_key.cpp).
THEOREM TextsAreTyped == Spec => []TypesCleanly
BY TextsStay, EachPart, PTL

\* An array has the elements that its caller put there, in the caller's order or in the order of the
\* elements, whatever was written, moved, inserted, removed, sorted or resized before, and whichever
\* allocation was refused, when no call fills elements before the last one, or none right
\* behind it (src/util/array.c).
THEOREM ArraysHold ==
  ASSUME ~ Misfills
  PROVE  Spec => []HoldsContent
BY ArrayStays, EachPart, PTL

\* A map is the function that its caller built: every key leads to the value that it was last given,
\* by whichever call of Maps, and a key that was removed leads nowhere, as long as a pair is moved to another
\* key only when there is room for it or the other key has a pair (src/util/map.c).
THEOREM MapsHold ==
  ASSUME ~ RemapsGrow
  PROVE  Spec => []HoldsMapping
BY MapStays, EachPart, PTL

\* A set of strings has the texts that its caller put there, a string its characters and its end,
\* and an encrypted string its text, whatever fails on the way (src/util/string_set.c,
\* src/util/string.c and src/extras/safe_string.cpp).
THEOREM StringsHold ==
  ASSUME Mishandled = {}, ~ Mistreats
  PROVE  Spec => []HoldsStrings
<1>1. HoldsSet /\ HoldsText /\ HoldsSafe => HoldsStrings
  BY DEF HoldsStrings
<1> QED BY <1>1, SetStays, TextStays, SafeStays, EachPart, PTL

\* The type invariant: whatever is called, every part of the library keeps to its types. This says of
\* arrays, maps and sets that no cell has anything but elements and what the allocation left there, of
\* names and ids that they lead to codes and interfaces, of instances that their data are objects, and
\* of vectors of triggers that they fit their memory.
THEOREM LibraryTyped ==
  ASSUME ~ Misfills, ~ RemapsGrow, Mishandled = {}, ~ Mistreats
  PROVE  Spec => []TypeOK
<1>1. Spec => [](part \in Parts)
  <2>1. Init => part \in Parts
    BY DEF Init
  <2>2. part \in Parts /\ [Next]_vars => (part \in Parts)'
    BY Zenon DEF Next, vars, Only
  <2> QED BY <2>1, <2>2, PTL DEF Spec
<1>2. /\ part \in Parts /\ ArrayTypeOK /\ MapTypeOK /\ StringTypeOK /\ TextTypeOK /\ NamesTypeOK
      /\ ModifiersTypeOK /\ RegistryTypeOK /\ InstancesTypeOK /\ WrapTypeOK /\ SafeTypeOK /\ TypingTypeOK
      => TypeOK
  BY DEF TypeOK
<1>3. /\ ArraySpec => [](ArrayTypeOK /\ HoldsContent)
      /\ MapSpec => [](MapTypeOK /\ HoldsMapping)
      /\ StringSpec => [](StringTypeOK /\ HoldsSet)
      /\ TextInit /\ [][TextNext]_textVars => [](TextTypeOK /\ HoldsText)
  BY ArrayStays, MapStays, SetStays, TextStays
<1> QED BY <1>1, <1>2, <1>3, EachPart, NamesTyped, KeysTyped, RegistryTyped, DataTyped, WrapsTyped, SafeStays,
           TypingStaysTyped, PTL
==============================================================================
