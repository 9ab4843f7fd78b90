--------------------------- MODULE ReceptionProofs ---------------------------
(***************************************************************************)
(* Theorems about the ways of a signal, for every number of threads,       *)
(* receivers, keys, signals and cells, and every stage array, batch and    *)
(* bound. Dispatch: the arrays stay sorted, who is called was registered,  *)
(* nobody is left out, a block is heeded, and modifiers change once.       *)
(* Staged triggers: the walk implements matching in one step, and          *)
(* completes in order. Events: those of a batch arrive.                    *)
(***************************************************************************)
EXTENDS Reception, SequenceTheorems, WellFoundedInduction, TLAPS

-----------------------------------------------------------------------------
(* Arrays of receivers *)

InOrder(arr, unique) ==
  \A i, j \in 1 .. arr.used :
    i < j => IF unique THEN arr.cells[i] < arr.cells[j] ELSE arr.cells[i] <= arr.cells[j]

Good(arr, unique) ==
  /\ arr \in Array
  /\ \A i \in 1 .. arr.used : arr.cells[i] \in Receivers
  /\ InOrder(arr, unique)

LEMMA LessThanPairs == OpToRel(<, Nat) = {p \in Nat \X Nat : p[1] < p[2]}
BY Zenon DEF OpToRel

\* What is in the memory of an array after a change was in it, or is in the array now.
Kept(old, new) ==
  \A j \in 1 .. Cells :
    \/ new.cells[j] = old.cells[j]
    \/ \E k \in 1 .. old.used : new.cells[j] = old.cells[k]
    \/ j \in 1 .. new.used

\* A set of numbers that is not empty has a least one (Below and UpTo choose it).
LEMMA LeastNumber ==
  ASSUME NEW T \in SUBSET Nat, T # {}
  PROVE  Min(T) \in T /\ \A j \in T : Min(T) <= j
<1> DEFINE R == {p \in Nat \X Nat : p[1] < p[2]}
<1>1. IsWellFoundedOn(R, Nat)
  BY LessThanPairs, NatLessThanWellFounded, Zenon
<1> HIDE DEF R
<1>2. \E x \in T : \A y \in T : ~ (<<y, x>> \in R)
  BY <1>1, WFMin
<1>3. \A x, y \in T : ~ (<<y, x>> \in R) => x <= y
  BY DEF R
<1>4. \E x \in T : \A y \in T : x <= y
  BY <1>2, <1>3
<1>5. QED
  BY <1>4 DEF Min

LEMMA Numbers == Receivers \subseteq Nat /\ Cells \in Nat
BY DispatchAssumption, Zenon

\* What a good array is, one by one.
LEMMA GoodArray ==
  ASSUME NEW arr, NEW unique \in BOOLEAN, Good(arr, unique)
  PROVE  /\ arr.used \in 0 .. Cells /\ arr.used \in Nat
         /\ arr.cells \in [1 .. Cells -> Receivers \cup {Nobody}]
         /\ \A i \in 1 .. Cells : arr.cells[i] \in Receivers \cup {Nobody}
         /\ \A i \in 1 .. arr.used : i \in 1 .. Cells /\ arr.cells[i] \in Receivers /\ arr.cells[i] \in Nat
         /\ \A i, j \in 1 .. arr.used :
              i < j => IF unique THEN arr.cells[i] < arr.cells[j] ELSE arr.cells[i] <= arr.cells[j]
<1>1. arr \in Array /\ (\A i \in 1 .. arr.used : arr.cells[i] \in Receivers) /\ InOrder(arr, unique)
  BY Zenon DEF Good
<1>2. arr.used \in 0 .. Cells /\ arr.cells \in [1 .. Cells -> Receivers \cup {Nobody}]
  BY <1>1 DEF Array
<1>3. arr.used \in Nat /\ \A i \in 1 .. arr.used : i \in 1 .. Cells
  BY <1>2, Numbers
<1>4. \A i \in 1 .. arr.used : arr.cells[i] \in Nat
  BY <1>1, Numbers
<1>5. \A i \in 1 .. Cells : arr.cells[i] \in Receivers \cup {Nobody}
  BY <1>2
<1>6. QED
  BY <1>1, <1>2, <1>3, <1>4, <1>5, Zenon DEF InOrder

\* Below and UpTo find where a receiver is, or would be, in a sorted array (bsearch).
LEMMA Found ==
  ASSUME NEW arr, NEW unique \in BOOLEAN, Good(arr, unique), NEW r \in Receivers
  PROVE  /\ Below(arr, r) \in 0 .. arr.used /\ UpTo(arr, r) \in 0 .. arr.used
         /\ \A j \in 1 .. arr.used : j <= Below(arr, r) <=> arr.cells[j] < r
         /\ \A j \in 1 .. arr.used : j <= UpTo(arr, r) <=> arr.cells[j] <= r
         /\ Below(arr, r) <= UpTo(arr, r)
<1> DEFINE B == {n \in 0 .. arr.used : n < arr.used => arr.cells[n + 1] >= r}
           U == {n \in 0 .. arr.used : n < arr.used => arr.cells[n + 1] > r}
           b == Below(arr, r)
           u == UpTo(arr, r)
<1>1. /\ arr.used \in 0 .. Cells /\ Cells \in Nat /\ arr.used \in Nat
      /\ \A i \in 1 .. arr.used : arr.cells[i] \in Nat
      /\ r \in Nat
  BY GoodArray, Numbers
<1>2. B \in SUBSET Nat /\ arr.used \in B /\ U \in SUBSET Nat /\ arr.used \in U
  BY <1>1
<1>3. b = Min(B) /\ u = Min(U)
  BY Zenon DEF Below, UpTo
<1> HIDE DEF b, u
<1>4. b \in B /\ (\A j \in B : b <= j) /\ u \in U /\ (\A j \in U : u <= j)
  <2>1. B # {} /\ U # {}
    BY <1>2
  <2> HIDE DEF B, U
  <2>2. QED
    BY <1>2, <1>3, <2>1, LeastNumber
<1>5. \A i, j \in 1 .. arr.used : i <= j => arr.cells[i] <= arr.cells[j]
  <2>1. \A i, j \in 1 .. arr.used : i < j => arr.cells[i] <= arr.cells[j]
    BY <1>1, GoodArray
  <2>2. QED
    BY <1>1, <2>1
<1>6. \A j \in 1 .. arr.used : j <= b <=> arr.cells[j] < r
  <2> TAKE j \in 1 .. arr.used
  <2>1. CASE j <= b
    <3>1. j - 1 \in 0 .. arr.used /\ j - 1 \notin B
      BY <2>1, <1>1, <1>4
    <3>2. QED
      BY <3>1, <2>1, <1>1
  <2>2. CASE ~ (j <= b)
    <3>1. b + 1 \in 1 .. arr.used /\ b + 1 <= j /\ arr.cells[b + 1] >= r
      BY <2>2, <1>1, <1>4
    <3>2. QED
      BY <3>1, <2>2, <1>1, <1>5
  <2>3. QED
    BY <2>1, <2>2
<1>7. \A j \in 1 .. arr.used : j <= u <=> arr.cells[j] <= r
  <2> TAKE j \in 1 .. arr.used
  <2>1. CASE j <= u
    <3>1. j - 1 \in 0 .. arr.used /\ j - 1 \notin U
      BY <2>1, <1>1, <1>4
    <3>2. QED
      BY <3>1, <2>1, <1>1
  <2>2. CASE ~ (j <= u)
    <3>1. u + 1 \in 1 .. arr.used /\ u + 1 <= j /\ arr.cells[u + 1] > r
      BY <2>2, <1>1, <1>4
    <3>2. QED
      BY <3>1, <2>2, <1>1, <1>5
  <2>3. QED
    BY <2>1, <2>2
<1>8. b <= u
  <2>1. SUFFICES ASSUME u < b PROVE FALSE
    BY <1>1, <1>4
  <2>2. b \in 1 .. arr.used /\ b <= b
    BY <2>1, <1>1, <1>4
  <2>3. arr.cells[b] < r /\ ~ (arr.cells[b] <= r)
    BY <2>1, <2>2, <1>1, <1>4, <1>6, <1>7
  <2>4. QED
    BY <2>2, <2>3, <1>1
<1>9. QED
  BY <1>1, <1>4, <1>6, <1>7, <1>8 DEF b, u

\* The members of an array.
LEMMA Members ==
  ASSUME NEW arr, arr \in Array
  PROVE  ToSet(Used(arr)) = {arr.cells[i] : i \in 1 .. arr.used}
<1>1. arr.used \in 0 .. Cells /\ Cells \in Nat /\ arr.cells \in [1 .. Cells -> Receivers \cup {Nobody}]
  BY DispatchAssumption DEF Array
<1>2. arr.cells \in Seq(Receivers \cup {Nobody}) /\ Len(arr.cells) = Cells
  BY <1>1
<1>3. /\ DOMAIN Used(arr) = 1 .. arr.used
      /\ \A i \in 1 .. arr.used : Used(arr)[i] = arr.cells[i]
  BY <1>1, <1>2 DEF Used
<1>4. QED
  BY <1>3 DEF ToSet

\* mcr_Array_remove keeps an array good, and its memory holds what it held.
LEMMA WithoutGood ==
  ASSUME NEW arr, NEW unique \in BOOLEAN, Good(arr, unique), NEW r \in Receivers
  PROVE  Good(Without(arr, r), unique) /\ Kept(arr, Without(arr, r))
<1> DEFINE b == Below(arr, r)
           n == UpTo(arr, r) - Below(arr, r)
           w == Without(arr, r)
<1>1. /\ arr.used \in 0 .. Cells /\ Cells \in Nat /\ arr.used \in Nat
      /\ \A i \in 1 .. Cells : arr.cells[i] \in Receivers \cup {Nobody}
      /\ arr.cells \in [1 .. Cells -> Receivers \cup {Nobody}]
      /\ \A i \in 1 .. arr.used : i \in 1 .. Cells /\ arr.cells[i] \in Receivers /\ arr.cells[i] \in Nat
      /\ \A i, j \in 1 .. arr.used :
           i < j => IF unique THEN arr.cells[i] < arr.cells[j] ELSE arr.cells[i] <= arr.cells[j]
  BY GoodArray, Numbers
<1>2. n \in 0 .. arr.used /\ b \in 0 .. arr.used /\ b + n <= arr.used
  BY <1>1, Found
<1>3. /\ w = [cells |-> [j \in 1 .. Cells |-> IF j <= b \/ j > arr.used THEN arr.cells[j]
                                      ELSE IF j + n <= arr.used THEN arr.cells[j + n]
                                      ELSE arr.cells[arr.used]],
              used  |-> arr.used - n]
  BY DEF Without
<1> HIDE DEF b, n, w
<1>4. /\ w.used = arr.used - n /\ w.used \in 0 .. Cells
      /\ \A j \in 1 .. Cells : w.cells[j] = IF j <= b \/ j > arr.used THEN arr.cells[j]
                                      ELSE IF j + n <= arr.used THEN arr.cells[j + n]
                                      ELSE arr.cells[arr.used]
  BY <1>1, <1>2, <1>3
<1>5. w \in Array
  <2>1. \A j \in 1 .. Cells : j + n <= arr.used => j + n \in 1 .. Cells
    BY <1>1, <1>2
  <2>4. \A j \in 1 .. Cells : j <= arr.used => arr.used \in 1 .. Cells
    BY <1>1
  <2>5. \A j \in 1 .. Cells : w.cells[j] \in Receivers \cup {Nobody}
    <3> TAKE j \in 1 .. Cells
    <3>1. w.cells[j] = arr.cells[j] \/ (j + n <= arr.used /\ w.cells[j] = arr.cells[j + n])
          \/ (j <= arr.used /\ w.cells[j] = arr.cells[arr.used])
      BY <1>1, <1>2, <1>4
    <3>2. QED
      BY <3>1, <1>1, <2>1, <2>4
  <2>2. w.cells \in [1 .. Cells -> Receivers \cup {Nobody}]
    BY <1>3, <2>5
  <2>3. QED
    BY <1>3, <1>4, <2>2 DEF Array
<1>6. \A j \in 1 .. w.used : /\ j \in 1 .. Cells
                             /\ w.cells[j] = IF j <= b THEN arr.cells[j] ELSE arr.cells[j + n]
                             /\ j \in 1 .. arr.used /\ j + n \in 1 .. arr.used
  <2> TAKE j \in 1 .. w.used
  <2>1. j \in 1 .. Cells /\ j <= arr.used /\ j + n <= arr.used /\ j \in 1 .. arr.used /\ j + n \in 1 .. arr.used
    BY <1>1, <1>2, <1>4
  <2>2. QED
    BY <1>4, <2>1, <1>1
<1>7. \A j \in 1 .. w.used : w.cells[j] \in Receivers
  BY <1>1, <1>6
<1>8. InOrder(w, unique)
  <2> SUFFICES ASSUME NEW i \in 1 .. w.used, NEW j \in 1 .. w.used, i < j
               PROVE  IF unique THEN w.cells[i] < w.cells[j] ELSE w.cells[i] <= w.cells[j]
    BY DEF InOrder
  <2> DEFINE k == IF i <= b THEN i ELSE i + n
             l == IF j <= b THEN j ELSE j + n
  <2>1. k \in 1 .. arr.used /\ l \in 1 .. arr.used /\ w.cells[i] = arr.cells[k] /\ w.cells[j] = arr.cells[l]
    BY <1>6
  <2>2. k < l
    BY <1>1, <1>2, <1>4
  <2> HIDE DEF k, l
  <2>3. QED
    BY <1>1, <2>1, <2>2
<1>9. \A j \in 1 .. Cells : \/ w.cells[j] = arr.cells[j]
                            \/ \E k \in 1 .. arr.used : w.cells[j] = arr.cells[k]
  <2> TAKE j \in 1 .. Cells
  <2>1. CASE j <= b \/ j > arr.used
    BY <2>1, <1>4
  <2>2. CASE ~ (j <= b \/ j > arr.used) /\ j + n <= arr.used
    BY <2>2, <1>1, <1>2, <1>4
  <2>3. CASE ~ (j <= b \/ j > arr.used) /\ ~ (j + n <= arr.used)
    <3>1. w.cells[j] = arr.cells[arr.used] /\ arr.used \in 1 .. arr.used
      BY <2>3, <1>1, <1>2, <1>4
    <3>2. QED
      BY <3>1
  <2>4. QED
    BY <2>1, <2>2, <2>3
<1>10. QED
  BY <1>5, <1>7, <1>8, <1>9 DEF Good, Kept, w

\* mcr_Array_add keeps an array good, and its memory holds what it held and the receiver.
LEMMA WithGood ==
  ASSUME NEW arr, NEW unique \in BOOLEAN, Good(arr, unique), NEW r \in Receivers, arr.used < Cells
  PROVE  Good(With(arr, r, unique), unique) /\ Kept(arr, With(arr, r, unique))
<1> DEFINE u == UpTo(arr, r)
           w == With(arr, r, unique)
<1>1. /\ arr.used \in 0 .. Cells /\ Cells \in Nat /\ arr.used \in Nat /\ r \in Nat
      /\ \A i \in 1 .. Cells : arr.cells[i] \in Receivers \cup {Nobody}
      /\ arr.cells \in [1 .. Cells -> Receivers \cup {Nobody}]
      /\ \A i \in 1 .. arr.used : i \in 1 .. Cells /\ arr.cells[i] \in Receivers /\ arr.cells[i] \in Nat
      /\ \A i, j \in 1 .. arr.used :
           i < j => IF unique THEN arr.cells[i] < arr.cells[j] ELSE arr.cells[i] <= arr.cells[j]
  BY GoodArray, Numbers
<1>2. CASE unique /\ r \in ToSet(Used(arr))
  BY <1>2 DEF With, Kept
<1>3. CASE ~ (unique /\ r \in ToSet(Used(arr)))
  <2>1. u \in 0 .. arr.used /\ \A j \in 1 .. arr.used : j <= u <=> arr.cells[j] <= r
    BY Found
  <2>2. w = [cells |-> [j \in 1 .. Cells |-> IF j = u + 1 THEN r
                                           ELSE IF j \in (u + 1) + 1 .. arr.used + 1 THEN arr.cells[j - 1]
                                           ELSE arr.cells[j]],
             used  |-> arr.used + 1]
    BY <1>3 DEF With
  <2>3. unique => \A j \in 1 .. arr.used : arr.cells[j] # r
    BY <1>3, Members DEF Good
  <2> HIDE DEF u, w
  <2>4. /\ w.used = arr.used + 1 /\ w.used \in 0 .. Cells
        /\ \A j \in 1 .. Cells : w.cells[j] = IF j = u + 1 THEN r
                                           ELSE IF j \in (u + 1) + 1 .. arr.used + 1 THEN arr.cells[j - 1]
                                           ELSE arr.cells[j]
    BY <1>1, <2>1, <2>2
  <2>5. w \in Array
    <3>1. \A j \in 1 .. Cells : w.cells[j] \in Receivers \cup {Nobody}
      <4> TAKE j \in 1 .. Cells
      <4>1. \/ w.cells[j] = r \/ w.cells[j] = arr.cells[j]
            \/ j \in (u + 1) + 1 .. arr.used + 1 /\ w.cells[j] = arr.cells[j - 1]
        BY <2>4
      <4>3. j \in (u + 1) + 1 .. arr.used + 1 => j - 1 \in 1 .. Cells
        BY <1>1, <2>1
      <4>2. QED
        BY <4>1, <4>3, <1>1
    <3>2. w.cells \in [1 .. Cells -> Receivers \cup {Nobody}]
      BY <2>2, <3>1
    <3>3. QED
      BY <2>2, <2>4, <3>2 DEF Array
  <2>6. \A j \in 1 .. w.used :
          /\ j \in 1 .. Cells
          /\ j <= u => j \in 1 .. arr.used /\ w.cells[j] = arr.cells[j]
          /\ j > u + 1 => j - 1 \in 1 .. arr.used /\ w.cells[j] = arr.cells[j - 1]
          /\ j = u + 1 => w.cells[j] = r
    BY <1>1, <2>1, <2>4
  <2>7. \A j \in 1 .. w.used : w.cells[j] \in Receivers
    <3> TAKE j \in 1 .. w.used
    <3>1. j <= u \/ j = u + 1 \/ j > u + 1
      BY <1>1, <2>1, <2>4
    <3>2. QED
      BY <3>1, <1>1, <2>6
  <2>8. InOrder(w, unique)
    <3> SUFFICES ASSUME NEW i \in 1 .. w.used, NEW j \in 1 .. w.used, i < j
                 PROVE  IF unique THEN w.cells[i] < w.cells[j] ELSE w.cells[i] <= w.cells[j]
      BY DEF InOrder
    <3>1. CASE j <= u
      <4>1. i <= u
        BY <3>1, <1>1, <2>1, <2>4
      <4>2. i \in 1 .. arr.used /\ j \in 1 .. arr.used /\ w.cells[i] = arr.cells[i] /\ w.cells[j] = arr.cells[j]
        BY <3>1, <4>1, <2>6
      <4>3. QED
        BY <4>2, <1>1
    <3>2. CASE j = u + 1
      <4>1. i \in 1 .. arr.used /\ i <= u /\ w.cells[i] = arr.cells[i] /\ w.cells[j] = r
        BY <3>2, <1>1, <2>1, <2>4, <2>6
      <4>2. QED
        BY <4>1, <1>1, <2>1, <2>3
    <3>3. CASE j > u + 1
      <4>1. j - 1 \in 1 .. arr.used /\ w.cells[j] = arr.cells[j - 1] /\ ~ (j - 1 <= u)
        BY <3>3, <1>1, <2>1, <2>4, <2>6
      <4>2. CASE i <= u
        <5>1. i \in 1 .. arr.used /\ i < j - 1 /\ w.cells[i] = arr.cells[i]
          BY <4>1, <4>2, <1>1, <2>1, <2>4, <2>6
        <5>2. QED
          BY <4>1, <5>1, <1>1
      <4>3. CASE i = u + 1
        <5>1. w.cells[i] = r /\ ~ (arr.cells[j - 1] <= r)
          BY <4>1, <4>3, <2>1, <2>6
        <5>2. QED
          BY <4>1, <5>1, <1>1
      <4>4. CASE i > u + 1
        <5>1. i - 1 \in 1 .. arr.used /\ i - 1 < j - 1 /\ w.cells[i] = arr.cells[i - 1]
          BY <4>1, <4>4, <1>1, <2>1, <2>4, <2>6
        <5>2. QED
          BY <4>1, <5>1, <1>1
      <4>5. QED
        BY <4>2, <4>3, <4>4, <2>1, <2>4, <1>1
    <3>4. QED
      BY <3>1, <3>2, <3>3, <2>1, <2>4, <1>1
  <2>9. \A j \in 1 .. Cells : w.cells[j] = arr.cells[j] \/ j \in 1 .. w.used
    BY <1>1, <2>1, <2>4
  <2>10. Kept(arr, w)
    BY <2>9, Zenon DEF Kept
  <2>11. Good(w, unique)
    BY <2>5, <2>7, <2>8 DEF Good
  <2>12. QED
    BY <2>10, <2>11 DEF w
<1>4. QED
  BY <1>2, <1>3

-----------------------------------------------------------------------------
(* What holds of every thread *)

AllGood == arrays \in [Places -> Array] /\ \A p \in Places : Good(arrays[p], Unique(p))

Busy == [at : {"walk", "store", "passed", "send", "sent"}, s : Signals, op : {"send", "dispatch"},
         pass : {1, 2}, keys : BOOLEAN, plan : Seq(Places), place : Places, it : Nat, end : 0 .. Cells,
         mods : SUBSET Flags, next : {"passed", "sent"}]

Pairs == Places \X Receivers

Record == [called : SUBSET Pairs, was : SUBSET Pairs, disturbed : BOOLEAN,
           before : SUBSET Flags, alone : BOOLEAN]

\* A thread and its history; only a signal that is dispatched twice has a second pass.
Typed(t) ==
  /\ \/ th[t] = Idle
     \/ /\ th[t] \in Busy /\ th[t].it \in 1 .. th[t].end + 1
        /\ th[t].op = "send" /\ th[t].pass = 2 => th[t].s.is_dispatch
  /\ hist[t] \in Record

\* Who is in the memory that a walk has before it was registered since the pass began.
Safe(t) ==
  /\ hist[t].called \subseteq hist[t].was
  /\ At(t, "walk") =>
       /\ Listed(arrays) \subseteq hist[t].was
       /\ \A j \in 1 .. th[t].end : <<th[t].place, arrays[th[t].place].cells[j]>> \in hist[t].was

\* A pair that a signal is for.
Meant(t, x) == For(x[1], th[t].s) /\ IF Unique(x[1]) THEN generic_enabled ELSE th[t].keys

Heard(t) == {x[2] : x \in hist[t].called}

\* A receiver that a walk has before it.
Before(t, x) ==
  \/ x[1] \in ToSet(th[t].plan)
  \/ x[1] = th[t].place /\ \E j \in th[t].it .. th[t].end : arrays[x[1]].cells[j] = x[2]

Walked(t) == At(t, "passed") \/ At(t, "send") \/ (At(t, "store") /\ th[t].next = "passed")

\* Nobody is left out while nothing is registered or enabled.
Thorough(t) ==
  ~ hist[t].disturbed =>
    /\ At(t, "walk") => \A x \in Listed(arrays) : Meant(t, x) => x[2] \in Heard(t) \/ Before(t, x)
    /\ Walked(t) => \A x \in Listed(arrays) : Meant(t, x) => x[2] \in Heard(t)

Heeds(t) == Heard(t) \cap blockers = {}

\* The modifiers that a key leaves.
Left(t) ==
  IF Modifies(t) THEN Changed(hist[t].before, KeyModifier[th[t].s.key], th[t].s.apply) ELSE hist[t].before

FirstTime(t) == th[t].pass = 1 \/ th[t].op = "dispatch"

\* Between two changes by others, the modifiers are those before the signal, with its own
\* change from the end of the first pass.
Changes(t) ==
  th[t] # Idle /\ hist[t].alone /\ ~ Undone(t) =>
    /\ th[t].keys = (key_enabled /\ th[t].s.type = "key")
    /\ At(t, "walk") => internal_modifiers = IF FirstTime(t) THEN hist[t].before ELSE Left(t)
    /\ At(t, "store") /\ th[t].next = "passed" => Modifies(t) /\ th[t].mods = Left(t)
    /\ At(t, "passed") \/ At(t, "send") => internal_modifiers = Left(t)
    /\ At(t, "store") /\ th[t].next = "sent" =>
         th[t].s.type = "modifier" /\ th[t].mods = Changed(hist[t].before, th[t].s.flags, th[t].s.apply)
    /\ At(t, "sent") => internal_modifiers = Expected(t)

ThreadInv(t) == Typed(t) /\ Safe(t) /\ Thorough(t) /\ Heeds(t) /\ Changes(t)

DispatchInv ==
  /\ AllGood /\ blockers \subseteq Receivers
  /\ key_enabled \in BOOLEAN /\ generic_enabled \in BOOLEAN
  /\ internal_modifiers \subseteq Flags /\ begun \in 0 .. Budget
  /\ th \in [Threads -> {Idle} \cup Busy] /\ hist \in [Threads -> Record]
  /\ \A t \in Threads : ThreadInv(t)
-----------------------------------------------------------------------------
(* The arrays together *)

\* Who is listed, array by array.
LEMMA ListedIs ==
  ASSUME NEW arrs, \A p \in Places : Good(arrs[p], Unique(p))
  PROVE  /\ Listed(arrs) \subseteq Pairs
         /\ \A p \in Places : \A r : <<p, r>> \in Listed(arrs) <=> \E i \in 1 .. arrs[p].used : arrs[p].cells[i] = r
<1>1. \A p \in Places : ToSet(Used(arrs[p])) = {arrs[p].cells[i] : i \in 1 .. arrs[p].used}
                       /\ \A i \in 1 .. arrs[p].used : arrs[p].cells[i] \in Receivers
  <2> TAKE p \in Places
  <2>1. arrs[p] \in Array /\ \A i \in 1 .. arrs[p].used : arrs[p].cells[i] \in Receivers
    BY Zenon DEF Good
  <2>2. QED
    BY <2>1, Members, Zenon
<1>2. Listed(arrs) \subseteq Pairs
  BY Zenon DEF Listed, Pairs
<1>3. ASSUME NEW p \in Places, NEW r
      PROVE  <<p, r>> \in Listed(arrs) <=> \E i \in 1 .. arrs[p].used : arrs[p].cells[i] = r
  BY <1>1 DEF Listed
<1>4. QED
  BY <1>2, <1>3

\* mcr_Dispatcher_remove_all
LEMMA RemoveKeeps ==
  ASSUME AllGood, NEW r \in Receivers, arrays' = RemoveFrom(arrays, r)
  PROVE  AllGood' /\ \A p \in Places : Kept(arrays[p], arrays'[p])
<1>1. DOMAIN arrays = Places /\ \A p \in Places : Good(arrays[p], Unique(p))
  BY DEF AllGood
<1>2. arrays' = [p \in Places |-> Without(arrays[p], r)]
  BY <1>1 DEF RemoveFrom
<1>3. \A p \in Places : Good(arrays'[p], Unique(p)) /\ Kept(arrays[p], arrays'[p])
  <2> TAKE p \in Places
  <2>1. Unique(p) \in BOOLEAN
    BY DEF Unique
  <2>2. Good(Without(arrays[p], r), Unique(p)) /\ Kept(arrays[p], Without(arrays[p], r))
    BY <1>1, <2>1, WithoutGood, Zenon
  <2>3. QED
    BY <1>2, <2>2
<1>4. arrays' \in [Places -> Array]
  BY <1>2, <1>3 DEF Good
<1>5. QED
  BY <1>3, <1>4 DEF AllGood

\* mcr_Dispatcher_add, mcr_Dispatcher_add_generic
LEMMA AddKeeps ==
  ASSUME AllGood, NEW r \in Receivers, NEW places,
         \A p \in places : arrays[p].used < Cells, arrays' = AddTo(arrays, r, places)
  PROVE  AllGood' /\ \A p \in Places : Kept(arrays[p], arrays'[p])
<1>1. DOMAIN arrays = Places /\ \A p \in Places : Good(arrays[p], Unique(p))
  BY DEF AllGood
<1>2. arrays' = [p \in Places |-> IF p \in places THEN With(arrays[p], r, Unique(p)) ELSE arrays[p]]
  BY <1>1 DEF AddTo
<1>3. \A p \in Places : Good(arrays'[p], Unique(p)) /\ Kept(arrays[p], arrays'[p])
  <2> TAKE p \in Places
  <2>1. Unique(p) \in BOOLEAN
    BY DEF Unique
  <2>2. CASE p \in places
    <3>1. Good(With(arrays[p], r, Unique(p)), Unique(p)) /\ Kept(arrays[p], With(arrays[p], r, Unique(p)))
      BY <1>1, <2>1, <2>2, WithGood, Zenon
    <3>2. QED
      BY <1>2, <2>2, <3>1
  <2>3. CASE p \notin places
    BY <1>1, <1>2, <2>3 DEF Kept
  <2>4. QED
    BY <2>2, <2>3
<1>4. arrays' \in [Places -> Array]
  BY <1>2, <1>3 DEF Good
<1>5. QED
  BY <1>3, <1>4 DEF AllGood

LEMMA RegisterKeeps ==
  ASSUME AllGood, Register
  PROVE  AllGood' /\ \A p \in Places : Kept(arrays[p], arrays'[p])
<1>1. PICK r \in Receivers :
        \/ arrays' = RemoveFrom(arrays, r)
        \/ \E places \in Additions :
             (\A p \in places : arrays[p].used < Cells) /\ arrays' = AddTo(arrays, r, places)
  BY Zenon DEF Register
<1>2. CASE arrays' = RemoveFrom(arrays, r)
  BY <1>2, RemoveKeeps
<1>3. CASE \E places \in Additions :
             (\A p \in places : arrays[p].used < Cells) /\ arrays' = AddTo(arrays, r, places)
  BY <1>3, AddKeeps
<1>4. QED
  BY <1>1, <1>2, <1>3

LEMMA ClearKeeps ==
  ASSUME AllGood, Clear
  PROVE  AllGood'
<1>1. arrays' = [Empty EXCEPT ![<<"all">>] = [arrays[<<"all">>] EXCEPT !.used = 0]]
  BY DEF Clear
<1>2. <<"all">> \in Places /\ Cells \in Nat
  BY Numbers DEF Places
<1>3. arrays[<<"all">>] \in Array
  BY <1>2 DEF AllGood
<1>4. \A p \in Places : arrays'[p] \in Array /\ arrays'[p].used = 0
  <2> TAKE p \in Places
  <2>1. Empty = [q \in Places |-> [cells |-> [j \in 1 .. Cells |-> Nobody], used |-> 0]] /\ DOMAIN Empty = Places
    BY DEF Empty
  <2>2. CASE p = <<"all">>
    <3>1. arrays'[p] = [arrays[<<"all">>] EXCEPT !.used = 0]
      BY <1>1, <1>2, <2>1, <2>2
    <3>2. QED
      BY <1>2, <1>3, <3>1 DEF Array
  <2>3. CASE p # <<"all">>
    <3>1. arrays'[p] = [cells |-> [j \in 1 .. Cells |-> Nobody], used |-> 0]
      BY <1>1, <2>1, <2>3
    <3>2. QED
      BY <1>2, <3>1 DEF Array
  <2>4. QED
    BY <2>2, <2>3
<1>5. arrays' \in [Places -> Array]
  BY <1>1, <1>4 DEF Empty
<1>6. \A p \in Places : Good(arrays'[p], Unique(p))
  BY <1>4 DEF Good, InOrder
<1>7. QED
  BY <1>5, <1>6 DEF AllGood

-----------------------------------------------------------------------------
(* Plans *)

LEMMA SignalIs ==
  ASSUME NEW s \in Signals
  PROVE  /\ s.type \in {"key", "modifier"} /\ s.key \in Keys /\ s.flags \subseteq Flags
         /\ s.apply \in Applies /\ s.is_dispatch \in BOOLEAN
         /\ AnyKey \in Keys
<1>1. s \in [type : {"key", "modifier"}, key : Keys, flags : SUBSET Flags,
             apply : Applies, is_dispatch : BOOLEAN] /\ AnyKey \in Keys
  BY DispatchAssumption, Zenon
<1>2. QED
  BY <1>1

LEMMA Joined ==
  ASSUME NEW S, NEW a \in Seq(S), NEW b \in Seq(S)
  PROVE  a \o b \in Seq(S) /\ ToSet(a \o b) = ToSet(a) \cup ToSet(b)
<1> DEFINE c == a \o b
<1>1. /\ c \in Seq(S) /\ Len(c) = Len(a) + Len(b)
      /\ \A i \in 1 .. Len(a) + Len(b) : c[i] = IF i <= Len(a) THEN a[i] ELSE b[i - Len(a)]
  BY ConcatProperties, Zenon
<1>2. Len(a) \in Nat /\ Len(b) \in Nat /\ DOMAIN a = 1 .. Len(a) /\ DOMAIN b = 1 .. Len(b)
  BY LenProperties, Zenon
<1>3. DOMAIN c = 1 .. Len(a) + Len(b)
  BY <1>1
<1> HIDE DEF c
<1>4. \A i \in DOMAIN c : c[i] \in ToSet(a) \cup ToSet(b)
  <2> TAKE i \in DOMAIN c
  <2>1. CASE i <= Len(a)
    BY <2>1, <1>1, <1>2, <1>3 DEF ToSet
  <2>2. CASE ~ (i <= Len(a))
    <3>1. i - Len(a) \in DOMAIN b /\ c[i] = b[i - Len(a)]
      BY <2>2, <1>1, <1>2, <1>3
    <3>2. QED
      BY <3>1 DEF ToSet
  <2>3. QED
    BY <2>1, <2>2
<1>5. \A i \in DOMAIN a : a[i] \in ToSet(c)
  <2> TAKE i \in DOMAIN a
  <2>1. i \in DOMAIN c /\ c[i] = a[i]
    BY <1>1, <1>2, <1>3
  <2>2. QED
    BY <2>1 DEF ToSet
<1>6. \A i \in DOMAIN b : b[i] \in ToSet(c)
  <2> TAKE i \in DOMAIN b
  <2>1. i + Len(a) \in DOMAIN c /\ c[i + Len(a)] = b[i]
    BY <1>1, <1>2, <1>3
  <2>2. QED
    BY <2>1 DEF ToSet
<1>7. ToSet(c) = ToSet(a) \cup ToSet(b)
  BY <1>4, <1>5, <1>6 DEF ToSet
<1>8. QED
  BY <1>1, <1>7 DEF c

\* The arrays that mcr_Key_Dispatcher_dispatch walks are all those in which somebody
\* can wait for the key of a signal; and gendisp_dispatch for its address.
LEMMA PlansReachAll ==
  ASSUME NEW s \in Signals
  PROVE  /\ KeyPlaces(s) \in Seq(Places) /\ GenericPlaces(s) \in Seq(Places)
         /\ \A p \in Places : For(p, s) /\ ~ Unique(p) => p \in ToSet(KeyPlaces(s))
         /\ \A p \in Places : For(p, s) /\ Unique(p) => p \in ToSet(GenericPlaces(s))
<1>1. /\ s.key \in Keys /\ AnyKey \in Keys
      /\ s.apply \in {"set", "unset", "both", "toggle"}
  BY SignalIs DEF Applies
<1>2. /\ \A k \in Keys : <<"set", k>> \in Places /\ <<"unset", k>> \in Places
      /\ <<"signal", s>> \in Places /\ <<"all">> \in Places
  BY DEF Places
<1> DEFINE any == <<(<<"set", AnyKey>>), (<<"unset", AnyKey>>)>>
           key == Specific(s)
<1>3. any \in Seq(Places) /\ <<"set", AnyKey>> \in ToSet(any) /\ <<"unset", AnyKey>> \in ToSet(any)
  <2>1. any \in Seq(Places) /\ any[1] = <<"set", AnyKey>> /\ any[2] = <<"unset", AnyKey>> /\ DOMAIN any = 1 .. 2
    BY <1>1, <1>2
  <2>2. QED
    BY <2>1 DEF ToSet
<1>4. /\ key \in Seq(Places)
      /\ s.key # AnyKey /\ s.apply \in {"set", "both", "toggle"} => <<"set", s.key>> \in ToSet(key)
      /\ s.key # AnyKey /\ s.apply \in {"unset", "both", "toggle"} => <<"unset", s.key>> \in ToSet(key)
  <2>1. CASE s.apply \in {"set", "unset"}
    <3> DEFINE one == IF s.key = AnyKey THEN <<>> ELSE <<(<<s.apply, s.key>>)>>
               other == <<(<<s.apply, AnyKey>>)>>
    <3>1. key = one \o other
      BY <2>1 DEF Specific
    <3>2. one \in Seq(Places) /\ other \in Seq(Places)
      <4>1. <<s.apply, s.key>> \in Places /\ <<s.apply, AnyKey>> \in Places
        BY <2>1, <1>1, <1>2
      <4>2. \A p \in Places : <<p>> \in Seq(Places)
        OBVIOUS
      <4>3. other \in Seq(Places)
        BY <4>1, <4>2, Zenon
      <4>4. CASE s.key = AnyKey
        BY <4>3, <4>4
      <4>5. CASE s.key # AnyKey
        <5>1. one = <<(<<s.apply, s.key>>)>>
          BY <4>5
        <5>2. QED
          BY <4>1, <4>2, <4>3, <5>1, Zenon
      <4>6. QED
        BY <4>4, <4>5
    <3>3. s.key # AnyKey => <<s.apply, s.key>> \in ToSet(one)
      <4> SUFFICES ASSUME s.key # AnyKey PROVE <<s.apply, s.key>> \in ToSet(one)
        OBVIOUS
      <4>1. one = <<(<<s.apply, s.key>>)>>
        OBVIOUS
      <4> HIDE DEF one
      <4>2. 1 \in DOMAIN one /\ one[1] = <<s.apply, s.key>>
        BY <4>1
      <4>3. QED
        BY <4>2 DEF ToSet
    <3> HIDE DEF one, other, key
    <3>4. key \in Seq(Places) /\ ToSet(key) = ToSet(one) \cup ToSet(other)
      BY <3>1, <3>2, Joined, Zenon
    <3>5. QED
      BY <2>1, <3>3, <3>4
  <2>2. CASE s.apply \notin {"set", "unset"} /\ s.key = AnyKey
    BY <2>2 DEF Specific
  <2>3. CASE s.apply \notin {"set", "unset"} /\ s.key # AnyKey
    <3>1. key = <<(<<"set", s.key>>), (<<"unset", s.key>>)>>
      BY <2>3 DEF Specific
    <3> HIDE DEF key
    <3>2. /\ key \in Seq(Places) /\ DOMAIN key = 1 .. 2
          /\ key[1] = <<"set", s.key>> /\ key[2] = <<"unset", s.key>>
      BY <3>1, <1>1, <1>2
    <3>3. QED
      BY <3>2 DEF ToSet
  <2>4. QED
    BY <2>1, <2>2, <2>3
<1>5. KeyPlaces(s) = key \o any
  BY Zenon DEF KeyPlaces
<1> HIDE DEF any, key
<1>6. KeyPlaces(s) \in Seq(Places) /\ ToSet(KeyPlaces(s)) = ToSet(key) \cup ToSet(any)
  <2>1. key \o any \in Seq(Places) /\ ToSet(key \o any) = ToSet(key) \cup ToSet(any)
    <3>1. key \in Seq(Places) /\ any \in Seq(Places)
      BY <1>3, <1>4
    <3>2. QED
      BY <3>1, Joined
  <2>2. QED
    BY <1>5, <2>1
<1>7. ASSUME NEW p \in Places, For(p, s), ~ Unique(p)
      PROVE  p \in ToSet(KeyPlaces(s))
  <2>1. PICK a \in {"set", "unset"}, k \in Keys : p = <<a, k>>
    BY <1>7 DEF Places, Unique
  <2>2. k \in {s.key, AnyKey} /\ s.apply \in {a, "both", "toggle"}
    BY <1>7, <2>1 DEF For
  <2>3. CASE k = AnyKey
    BY <2>1, <2>3, <1>3, <1>6
  <2>4. CASE k # AnyKey
    BY <2>1, <2>2, <2>4, <1>4, <1>6
  <2>5. QED
    BY <2>3, <2>4
<1>8. /\ GenericPlaces(s) \in Seq(Places)
      /\ \A p \in Places : For(p, s) /\ Unique(p) => p \in ToSet(GenericPlaces(s))
  <2> DEFINE g == GenericPlaces(s)
  <2>1. g = <<(<<"signal", s>>), <<"all">> >>
    BY DEF GenericPlaces
  <2> HIDE DEF g
  <2>2. g \in Seq(Places) /\ DOMAIN g = 1 .. 2 /\ g[1] = <<"signal", s>> /\ g[2] = <<"all">>
    BY <2>1, <1>2
  <2>3. ASSUME NEW p \in Places, For(p, s), Unique(p)
        PROVE  p = <<"signal", s>> \/ p = <<"all">>
    BY <2>3 DEF For, Unique
  <2>4. QED
    BY <2>2, <2>3 DEF g, ToSet
<1>9. QED
  BY <1>6, <1>7, <1>8

-----------------------------------------------------------------------------
(* Modifiers *)

LEMMA ChangedTyped ==
  ASSUME NEW mods \in SUBSET Flags, NEW flags \in SUBSET Flags, NEW apply
  PROVE  Changed(mods, flags, apply) \in SUBSET Flags
BY DEF Changed

\* Nothing but a toggle does more when it is done twice.
LEMMA ChangedTwice ==
  ASSUME NEW mods, NEW flags, NEW apply, apply # "toggle"
  PROVE  Changed(Changed(mods, flags, apply), flags, apply) = Changed(mods, flags, apply)
BY DEF Changed

\* The flags of a key.
LEMMA KeyFlags ==
  ASSUME NEW k \in DOMAIN KeyModifier
  PROVE  KeyModifier[k] \in SUBSET Flags
BY DispatchAssumption, Zenon

-----------------------------------------------------------------------------
(* A thread while another one does something *)

Aside(t) ==
  /\ th'[t] = th[t] /\ hist'[t] \in Record
  /\ hist'[t].called = hist[t].called /\ hist'[t].was = hist[t].was /\ hist'[t].before = hist[t].before
  /\ blockers' = blockers
  /\ At(t, "walk") => arrays' = arrays
  /\ ~ hist'[t].disturbed => ~ hist[t].disturbed /\ arrays' = arrays /\ generic_enabled' = generic_enabled
  /\ hist'[t].alone => hist[t].alone /\ internal_modifiers' = internal_modifiers /\ key_enabled' = key_enabled

LEMMA Frame ==
  ASSUME NEW t \in Threads, ThreadInv(t), Aside(t)
  PROVE  ThreadInv(t)'
<1> USE DEF Aside
<1>1. Typed(t) /\ Safe(t) /\ Thorough(t) /\ Heeds(t) /\ Changes(t)
  BY DEF ThreadInv
<1>2. Typed(t)'
  BY <1>1 DEF Typed
<1>3. Safe(t)'
  BY <1>1 DEF Safe, At, Listed
<1>4. Thorough(t)'
  <2> SUFFICES ASSUME ~ hist'[t].disturbed PROVE Thorough(t)'
    BY Zenon DEF Thorough
  <2>1. arrays' = arrays /\ generic_enabled' = generic_enabled /\ ~ hist[t].disturbed
    OBVIOUS
  <2>2. Listed(arrays)' = Listed(arrays) /\ Heard(t)' = Heard(t) /\ At(t, "walk")' = At(t, "walk")
        /\ Walked(t)' = Walked(t)
    BY <2>1 DEF Listed, Heard, At, Walked
  <2>3. \A x : Meant(t, x)' = Meant(t, x) /\ Before(t, x)' = Before(t, x)
    BY <2>1 DEF Meant, Before
  <2>4. QED
    BY <1>1, <2>1, <2>2, <2>3, Zenon DEF Thorough
<1>5. Heeds(t)'
  BY <1>1 DEF Heeds, Heard
<1>6. Changes(t)'
  <2> SUFFICES ASSUME th'[t] # Idle, hist'[t].alone, ~ Undone(t)' PROVE Changes(t)'
    BY Zenon DEF Changes
  <2>1. /\ hist[t].alone /\ internal_modifiers' = internal_modifiers /\ key_enabled' = key_enabled
        /\ th[t] # Idle /\ ~ Undone(t)
    BY DEF Undone
  <2>2. /\ Left(t)' = Left(t) /\ FirstTime(t)' = FirstTime(t) /\ Modifies(t)' = Modifies(t)
        /\ Expected(t)' = Expected(t) /\ \A point : At(t, point)' = At(t, point)
    BY <2>1 DEF Left, FirstTime, Modifies, Expected, At
  <2>3. QED
    BY <1>1, <2>1, <2>2, Zenon DEF Changes
<1>7. QED
  BY <1>2, <1>3, <1>4, <1>5, <1>6 DEF ThreadInv

-----------------------------------------------------------------------------
(* A pass begins *)

\* A thread that is idle has nothing to keep.
LEMMA Rests ==
  ASSUME NEW t \in Threads, th'[t] = Idle, hist'[t] = NoHistory
  PROVE  ThreadInv(t)'
<1>1. /\ th'[t].at = "idle" /\ hist'[t].called = {} /\ hist'[t].was = {} /\ hist'[t].disturbed
      /\ hist'[t] \in Record
  BY DEF Idle, NoHistory, Record
<1>2. Typed(t)' /\ Safe(t)' /\ Thorough(t)' /\ Heeds(t)' /\ Changes(t)'
  BY <1>1 DEF Typed, Safe, Thorough, Heeds, Changes, At, Heard
<1>3. QED
  BY <1>2 DEF ThreadInv

LEMMA PassIs ==
  ASSUME NEW s \in Signals, NEW op \in {"send", "dispatch"}, NEW n \in {1, 2},
         key_enabled \in BOOLEAN, generic_enabled \in BOOLEAN
  PROVE  /\ Pass(s, op, n) \in Busy
         /\ Pass(s, op, n).at = "walk" /\ Pass(s, op, n).s = s /\ Pass(s, op, n).op = op
         /\ Pass(s, op, n).pass = n /\ Pass(s, op, n).keys = (key_enabled /\ s.type = "key")
         /\ Pass(s, op, n).it = 1 /\ Pass(s, op, n).end = 0
         /\ \A p \in Places : For(p, s) /\ (IF Unique(p) THEN generic_enabled ELSE (key_enabled /\ s.type = "key"))
                            => p \in ToSet(Pass(s, op, n).plan)
<1> DEFINE x == Pass(s, op, n)
           keys == key_enabled /\ s.type = "key"
           kp == IF keys THEN KeyPlaces(s) ELSE <<>>
           gp == IF generic_enabled THEN GenericPlaces(s) ELSE <<>>
<1>1. x = [at |-> "walk", s |-> s, op |-> op, pass |-> n, keys |-> keys, plan |-> kp \o gp,
           place |-> <<"all">>, it |-> 1, end |-> 0, mods |-> {}, next |-> "passed"]
  BY Zenon DEF Pass
<1>2. kp \in Seq(Places) /\ gp \in Seq(Places)
  BY PlansReachAll
<1>3. \A p \in Places : For(p, s) /\ (IF Unique(p) THEN generic_enabled ELSE keys)
                        => p \in ToSet(kp) \cup ToSet(gp)
  BY PlansReachAll
<1>4. keys \in BOOLEAN
  OBVIOUS
<1> HIDE DEF x, kp, gp, keys
<1>5. kp \o gp \in Seq(Places) /\ ToSet(kp \o gp) = ToSet(kp) \cup ToSet(gp)
  BY <1>2, Joined
<1>6. <<"all">> \in Places /\ 0 \in 0 .. Cells
  BY Numbers DEF Places
<1>7. x \in Busy
  BY <1>1, <1>4, <1>5, <1>6 DEF Busy
<1>8. /\ x.at = "walk" /\ x.s = s /\ x.op = op /\ x.pass = n /\ x.keys = keys /\ x.it = 1 /\ x.end = 0
      /\ x.plan = kp \o gp
  BY <1>1
<1>9. \A p \in Places : For(p, s) /\ (IF Unique(p) THEN generic_enabled ELSE keys) => p \in ToSet(x.plan)
  BY <1>3, <1>5, <1>8
<1>10. QED
  BY <1>7, <1>8, <1>9 DEF x, keys

\* mcr_dispatch reads which dispatchers are enabled and begins with the first array.
LEMMA PassStarts ==
  ASSUME NEW t \in Threads, AllGood, key_enabled \in BOOLEAN, generic_enabled \in BOOLEAN,
         NEW s \in Signals, NEW op \in {"send", "dispatch"}, NEW n \in {1, 2},
         NEW had \in SUBSET Flags, NEW alone \in BOOLEAN,
         th'[t] = Pass(s, op, n), hist'[t] = History(had, alone),
         op = "send" /\ n = 2 => s.is_dispatch,
         UNCHANGED <<shared, internal_modifiers>>,
         alone /\ ~ Undone(t)' =>
           internal_modifiers' = IF FirstTime(t)' THEN had ELSE Left(t)'
  PROVE  ThreadInv(t)'
<1> DEFINE x == Pass(s, op, n)
           h == History(had, alone)
<1>1. /\ x \in Busy /\ x.at = "walk" /\ x.s = s /\ x.op = op /\ x.pass = n
      /\ x.keys = (key_enabled /\ s.type = "key") /\ x.it = 1 /\ x.end = 0
      /\ \A p \in Places : For(p, s) /\ (IF Unique(p) THEN generic_enabled ELSE (key_enabled /\ s.type = "key"))
                         => p \in ToSet(x.plan)
  BY PassIs
<1>2. /\ h \in Record /\ h.called = {} /\ h.was = Listed(arrays) /\ h.disturbed = FALSE
      /\ h.before = had /\ h.alone = alone
  BY ListedIs DEF AllGood, History, Record
<1>3. th'[t] = x /\ hist'[t] = h
  OBVIOUS
<1> HIDE DEF x, h
<1>4. arrays' = arrays /\ generic_enabled' = generic_enabled /\ key_enabled' = key_enabled
      /\ internal_modifiers' = internal_modifiers /\ Listed(arrays)' = Listed(arrays)
  BY DEF shared, Listed
<1>5. At(t, "walk")' /\ \A point \in {"store", "passed", "send", "sent"} : ~ At(t, point)'
  BY <1>1, <1>3 DEF At
<1>6. Typed(t)'
  BY <1>1, <1>2, <1>3 DEF Typed
<1>7. Safe(t)'
  BY <1>1, <1>2, <1>3, <1>4 DEF Safe
<1>8. Heard(t)' = {}
  BY <1>2, <1>3 DEF Heard
<1>9. Thorough(t)'
  <2>1. ~ Walked(t)'
    BY <1>5 DEF Walked
  <2>2. ASSUME NEW y \in Listed(arrays), Meant(t, y)'
        PROVE  Before(t, y)'
    <3>1. y[1] \in Places
      BY DEF Listed
    <3>2. For(y[1], s) /\ (IF Unique(y[1]) THEN generic_enabled ELSE (key_enabled /\ s.type = "key"))
      BY <2>2, <1>1, <1>3, <1>4 DEF Meant
    <3>3. y[1] \in ToSet(th'[t].plan)
      BY <1>1, <1>3, <3>1, <3>2
    <3>4. QED
      BY <3>3 DEF Before
  <2>3. QED
    BY <2>1, <2>2, <1>4 DEF Thorough
<1>10. Heeds(t)'
  BY <1>8 DEF Heeds
<1>11. Changes(t)'
  <2> SUFFICES ASSUME hist'[t].alone, ~ Undone(t)' PROVE Changes(t)'
    BY Zenon DEF Changes
  <2>1. th'[t].keys = (key_enabled' /\ th'[t].s.type = "key")
    BY <1>1, <1>3, <1>4
  <2>2. internal_modifiers' = IF FirstTime(t)' THEN hist'[t].before ELSE Left(t)'
    BY <1>2, <1>3
  <2>3. QED
    BY <1>5, <2>1, <2>2, Zenon DEF Changes
<1>12. QED
  BY <1>6, <1>7, <1>9, <1>10, <1>11 DEF ThreadInv

-----------------------------------------------------------------------------
(* The steps of a thread *)

\* What the lemmas below start from.
Given(t) ==
  /\ AllGood /\ key_enabled \in BOOLEAN /\ generic_enabled \in BOOLEAN
  /\ internal_modifiers \subseteq Flags
  /\ th \in [Threads -> {Idle} \cup Busy] /\ hist \in [Threads -> Record]
  /\ ThreadInv(t)

\* mcr_send or mcr_dispatch is called.
LEMMA BeginKeeps ==
  ASSUME NEW t \in Threads, Given(t), Begin(t)
  PROVE  ThreadInv(t)'
<1>1. PICK s \in Signals : \/ th' = [th EXCEPT ![t] = Pass(s, "send", 1)]
                           \/ th' = [th EXCEPT ![t] = Pass(s, "dispatch", 2)]
  BY Zenon DEF Begin
<1>2. /\ hist' = [hist EXCEPT ![t] = History(internal_modifiers, TRUE)]
      /\ UNCHANGED <<shared, internal_modifiers>>
  BY Zenon DEF Begin
<1>3. DOMAIN th = Threads /\ DOMAIN hist = Threads
  BY DEF Given
<1>4. hist'[t] = History(internal_modifiers, TRUE)
  BY <1>2, <1>3
<1>5. ASSUME NEW op \in {"send", "dispatch"}, NEW n \in {1, 2}, th'[t] = Pass(s, op, n), n = 1 \/ op = "dispatch"
      PROVE  ThreadInv(t)'
  <2>1. th'[t].pass = n /\ th'[t].op = op
    BY <1>5, PassIs DEF Given
  <2>2. FirstTime(t)' /\ internal_modifiers' = internal_modifiers
    BY <1>2, <1>5, <2>1 DEF FirstTime
  <2>3. QED
    <3>1. op = "send" /\ n = 2 => s.is_dispatch
      BY <1>5
    <3>2. internal_modifiers \in SUBSET Flags
      BY DEF Given
    <3>3. QED
      BY <1>2, <1>4, <1>5, <2>2, <3>1, <3>2, PassStarts DEF Given
<1>6. CASE th' = [th EXCEPT ![t] = Pass(s, "send", 1)]
  <2>1. th'[t] = Pass(s, "send", 1)
    BY <1>3, <1>6
  <2>2. QED
    BY <1>5, <2>1
<1>7. CASE th' = [th EXCEPT ![t] = Pass(s, "dispatch", 2)]
  <2>1. th'[t] = Pass(s, "dispatch", 2)
    BY <1>3, <1>7
  <2>2. QED
    BY <1>5, <2>1
<1>8. QED
  BY <1>1, <1>6, <1>7

\* Which array is next: those before it in the plan are empty.
LEMMA AheadIs ==
  ASSUME NEW t \in Threads, th[t] \in Busy
  PROVE  /\ Ahead(t) \in 0 .. Len(th[t].plan) /\ th[t].plan \in Seq(Places)
         /\ Ahead(t) > 0 => arrays[th[t].plan[Ahead(t)]].used > 0
         /\ \A i \in 1 .. Len(th[t].plan) : i < Ahead(t) \/ Ahead(t) = 0 => ~ (arrays[th[t].plan[i]].used > 0)
<1> DEFINE plan == th[t].plan
           I == {i \in 1 .. Len(plan) : arrays[plan[i]].used > 0}
           a == Ahead(t)
<1>1. plan \in Seq(Places) /\ Len(plan) \in Nat
  BY DEF Busy
<1>2. a = IF I # {} THEN Min(I) ELSE 0
  BY DEF Ahead, SelectInSeq
<1>3. I \in SUBSET Nat
  BY <1>1
<1> HIDE DEF a, plan
<1>4. CASE I # {}
  <2>1. Min(I) \in I /\ \A j \in I : Min(I) <= j
    <3> HIDE DEF I
    <3>1. QED
      BY <1>3, <1>4, LeastNumber
  <2>2. a = Min(I)
    BY <1>2, <1>4
  <2>3. a \in 1 .. Len(plan) /\ arrays[plan[a]].used > 0
    BY <2>1, <2>2
  <2>4. \A i \in 1 .. Len(plan) : i < a => ~ (arrays[plan[i]].used > 0)
    BY <2>1, <2>2, <2>3, <1>1
  <2>5. QED
    BY <2>3, <2>4, <1>1 DEF a, plan
<1>5. CASE I = {}
  <2>1. a = 0
    BY <1>2, <1>5
  <2>2. \A i \in 1 .. Len(plan) : ~ (arrays[plan[i]].used > 0)
    BY <1>5
  <2>3. QED
    BY <2>1, <2>2, <1>1 DEF a, plan
<1>6. QED
  BY <1>4, <1>5

\* The state of a thread at some point.
LEMMA BusyAt ==
  ASSUME NEW t \in Threads, Given(t), NEW point \in {"walk", "store", "passed", "send", "sent"}, At(t, point)
  PROVE  /\ th[t] \in Busy /\ th[t] # Idle /\ th[t].it \in 1 .. th[t].end + 1 /\ hist[t] \in Record
         /\ th[t].op = "send" /\ th[t].pass = 2 => th[t].s.is_dispatch
         /\ th[t].s \in Signals /\ th[t].end \in 0 .. Cells /\ th[t].place \in Places /\ th[t].at = point
<1>1. th[t] # Idle
  BY DEF At, Idle
<1>2. QED
  BY <1>1 DEF Given, ThreadInv, Typed, Busy, At

\* The walk goes on with an array that is not empty.
LEMMA NextArrayKeeps ==
  ASSUME NEW t \in Threads, Given(t), NextArray(t)
  PROVE  ThreadInv(t)'
<1> DEFINE x == th[t]
           y == th'[t]
           a == Ahead(t)
           place == x.plan[a]
<1>1. /\ x \in Busy /\ x # Idle /\ x.it \in 1 .. x.end + 1 /\ hist[t] \in Record /\ x.s \in Signals
      /\ x.op = "send" /\ x.pass = 2 => x.s.is_dispatch
      /\ x.end \in 0 .. Cells /\ x.place \in Places /\ x.at = "walk"
  BY BusyAt, Zenon DEF NextArray
<1>2. /\ a > 0 /\ ~ (x.it <= x.end)
      /\ th' = [th EXCEPT ![t].plan = SubSeq(@, a + 1, Len(@)), ![t].place = place,
                         ![t].it = 1, ![t].end = arrays[place].used]
      /\ UNCHANGED <<shared, internal_modifiers, hist>>
  BY DEF NextArray, Inside
<1>3. /\ a \in 1 .. Len(x.plan) /\ x.plan \in Seq(Places) /\ Len(x.plan) \in Nat
      /\ \A i \in 1 .. Len(x.plan) : i < a => ~ (arrays[x.plan[i]].used > 0)
  BY <1>1, <1>2, AheadIs
<1>4. place \in Places
  BY <1>3
<1>5. DOMAIN th = Threads
  BY DEF Given
<1> HIDE DEF a, place
<1>6. y = [x EXCEPT !.plan = SubSeq(@, a + 1, Len(@)), !.place = place, !.it = 1, !.end = arrays[place].used]
  BY <1>2, <1>5
<1> HIDE DEF x, y
<1>7. /\ y.at = "walk" /\ y.s = x.s /\ y.op = x.op /\ y.pass = x.pass /\ y.keys = x.keys
      /\ y.plan = SubSeq(x.plan, a + 1, Len(x.plan)) /\ y.place = place /\ y.it = 1
      /\ y.end = arrays[place].used /\ y.mods = x.mods /\ y.next = x.next
  BY <1>1, <1>6 DEF Busy
<1>8. /\ y.plan \in Seq(Places) /\ Len(y.plan) = Len(x.plan) - a
      /\ \A i \in 1 .. Len(x.plan) - a : y.plan[i] = x.plan[i + a]
  <2>1. SubSeq(x.plan, a + 1, Len(x.plan)) \in Seq(Places)
    BY <1>3
  <2>2. \A i \in 1 .. Len(x.plan) - a : SubSeq(x.plan, a + 1, Len(x.plan))[i] = x.plan[i + a]
    BY <1>3
  <2>3. Len(SubSeq(x.plan, a + 1, Len(x.plan))) = Len(x.plan) - a
    BY <1>3
  <2>4. QED
    BY <1>7, <2>1, <2>2, <2>3
<1>9. AllGood /\ Safe(t) /\ Thorough(t) /\ Heeds(t) /\ Changes(t)
  BY DEF Given, ThreadInv
<1>10. arrays[place].used \in 0 .. Cells /\ Cells \in Nat
  BY <1>4, <1>9, Numbers DEF AllGood, Array
<1>11. /\ arrays' = arrays /\ hist' = hist /\ generic_enabled' = generic_enabled /\ key_enabled' = key_enabled
       /\ blockers' = blockers /\ internal_modifiers' = internal_modifiers /\ Listed(arrays)' = Listed(arrays)
       /\ Heard(t)' = Heard(t)
  BY <1>2 DEF shared, Listed, Heard
<1>12. y \in Busy
  <2>1. y = [at |-> y.at, s |-> y.s, op |-> y.op, pass |-> y.pass, keys |-> y.keys, plan |-> y.plan,
             place |-> y.place, it |-> y.it, end |-> y.end, mods |-> y.mods, next |-> y.next]
    BY <1>1, <1>6 DEF Busy
  <2>2. /\ y.at \in {"walk", "store", "passed", "send", "sent"} /\ y.s \in Signals /\ y.op \in {"send", "dispatch"}
        /\ y.pass \in {1, 2} /\ y.keys \in BOOLEAN /\ y.plan \in Seq(Places) /\ y.place \in Places /\ y.it \in Nat
        /\ y.end \in 0 .. Cells /\ y.mods \in SUBSET Flags /\ y.next \in {"passed", "sent"}
    BY <1>1, <1>4, <1>7, <1>8, <1>10 DEF Busy
  <2> HIDE DEF y
  <2>3. QED
    BY <2>1, <2>2 DEF Busy
<1>13. Typed(t)'
  BY <1>1, <1>7, <1>10, <1>11, <1>12 DEF Typed, y
<1>14. At(t, "walk") /\ At(t, "walk")' /\ \A point \in {"store", "passed", "send", "sent"} : ~ At(t, point)'
  BY <1>1, <1>7 DEF At, x, y
<1>15. Safe(t)'
  <2>1. \A j \in 1 .. arrays[place].used : <<place, arrays[place].cells[j]>> \in hist[t].was
    BY <1>4, <1>9, <1>14, ListedIs DEF AllGood, Safe
  <2>2. QED
    BY <1>7, <1>9, <1>11, <1>14, <2>1 DEF Safe, y
<1>16. Thorough(t)'
  <2> SUFFICES ASSUME ~ hist[t].disturbed, NEW z \in Listed(arrays), Meant(t, z)'
               PROVE  z[2] \in Heard(t) \/ Before(t, z)'
    BY <1>11, <1>14 DEF Thorough, Walked
  <2>1. Meant(t, z)
    BY <1>7, <1>11 DEF Meant, x, y
  <2>2. z[2] \in Heard(t) \/ Before(t, z)
    BY <1>9, <1>14, <2>1 DEF Thorough
  <2>3. z = <<z[1], z[2]>> /\ z[1] \in Places
    BY DEF Listed
  <2>4. PICK k \in 1 .. arrays[z[1]].used : arrays[z[1]].cells[k] = z[2]
    BY <1>9, <2>3, ListedIs DEF AllGood
  <2>5. arrays[z[1]].used > 0
    <3>1. arrays[z[1]].used \in 0 .. Cells
      BY <1>9, <2>3 DEF AllGood, Array
    <3>2. QED
      BY <1>10, <2>4, <3>1
  <2>6. ASSUME Before(t, z) PROVE Before(t, z)'
    <3>1. z[1] \in ToSet(x.plan)
      BY <2>6, <1>1, <1>2, <1>10 DEF Before, x
    <3>2. PICK i \in 1 .. Len(x.plan) : x.plan[i] = z[1]
      BY <1>3, <3>1 DEF ToSet
    <3>3. i >= a
      BY <1>3, <2>5, <3>2
    <3>4. CASE i = a
      <4>1. z[1] = y.place /\ k \in y.it .. y.end /\ arrays'[z[1]].cells[k] = z[2]
        BY <1>7, <1>11, <2>4, <3>2, <3>4 DEF place
      <4>2. QED
        BY <4>1 DEF Before, y
    <3>5. CASE i > a
      <4>1. i - a \in 1 .. Len(x.plan) - a /\ y.plan[i - a] = z[1]
        BY <1>3, <1>8, <3>2, <3>5
      <4>2. z[1] \in ToSet(y.plan)
        BY <1>8, <4>1 DEF ToSet
      <4>3. QED
        BY <4>2 DEF Before, y
    <3>6. QED
      BY <1>3, <3>3, <3>4, <3>5
  <2>7. QED
    BY <2>2, <2>6
<1>17. Heeds(t)'
  BY <1>9, <1>11 DEF Heeds
<1>18. Changes(t)'
  <2> SUFFICES ASSUME hist[t].alone, ~ Undone(t)' PROVE Changes(t)'
    BY <1>11, Zenon DEF Changes
  <2>1. ~ Undone(t) /\ FirstTime(t)' = FirstTime(t) /\ Left(t)' = Left(t)
    BY <1>7, <1>11 DEF Undone, FirstTime, Left, Modifies, x, y
  <2>2. /\ x.keys = (key_enabled /\ x.s.type = "key")
        /\ internal_modifiers = IF FirstTime(t) THEN hist[t].before ELSE Left(t)
    BY <1>1, <1>9, <1>14, <2>1 DEF Changes, x
  <2>3. /\ y.keys = (key_enabled' /\ y.s.type = "key")
        /\ internal_modifiers' = IF FirstTime(t)' THEN hist'[t].before ELSE Left(t)'
    BY <1>7, <1>11, <2>1, <2>2
  <2>4. QED
    BY <1>14, <2>3 DEF Changes, y
<1>19. QED
  BY <1>13, <1>15, <1>16, <1>17, <1>18 DEF ThreadInv

\* A receiver is called that does not block, and may add or remove receivers.
LEMMA ReceiveKeeps ==
  ASSUME NEW t \in Threads, Given(t), Receive(t)
  PROVE  ThreadInv(t)'
<1> DEFINE x == th[t]
           y == th'[t]
           pair == <<x.place, Called(t)>>
<1>1. /\ x \in Busy /\ x # Idle /\ x.it \in 1 .. x.end + 1 /\ hist[t] \in Record /\ x.s \in Signals
      /\ x.op = "send" /\ x.pass = 2 => x.s.is_dispatch
      /\ x.end \in 0 .. Cells /\ x.place \in Places /\ x.at = "walk" /\ Cells \in Nat
  BY BusyAt, Numbers, Zenon DEF Receive
<1>2. x.it <= x.end /\ Called(t) \notin blockers /\ th' = [th EXCEPT ![t].it = @ + 1]
  BY DEF Receive, Inside
<1>3. DOMAIN th = Threads /\ DOMAIN hist = Threads
  BY DEF Given
<1>4. y = [x EXCEPT !.it = @ + 1]
  BY <1>2, <1>3
<1> HIDE DEF x, y
<1>5. /\ y.at = "walk" /\ y.s = x.s /\ y.op = x.op /\ y.pass = x.pass /\ y.keys = x.keys
      /\ y.plan = x.plan /\ y.place = x.place /\ y.it = x.it + 1
      /\ y.end = x.end /\ y.mods = x.mods /\ y.next = x.next
  BY <1>1, <1>4 DEF Busy
<1>6. y \in Busy /\ y.it \in 1 .. y.end + 1
  <2> DEFINE i == x.it + 1
  <2>1. i \in Nat /\ i \in 1 .. x.end + 1
    BY <1>1, <1>2
  <2>2. y = [x EXCEPT !.it = i]
    BY <1>4
  <2> HIDE DEF i
  <2>3. y \in Busy
    BY <1>1, <2>1, <2>2 DEF Busy
  <2> QED BY <1>5, <2>1, <2>3 DEF i
<1>7. AllGood /\ Safe(t) /\ Thorough(t) /\ Heeds(t) /\ Changes(t)
  BY DEF Given, ThreadInv
<1>8. At(t, "walk") /\ At(t, "walk")' /\ \A point \in {"store", "passed", "send", "sent"} : ~ At(t, point)'
  BY <1>1, <1>5 DEF At, x, y
<1>9. pair \in hist[t].was /\ Called(t) = arrays[x.place].cells[x.it]
  <2>1. x.it \in 1 .. x.end
    BY <1>1, <1>2
  <2>2. QED
    BY <1>7, <1>8, <2>1 DEF Called, Safe, x
<1>10. hist[t].was \in SUBSET Pairs /\ hist[t].called \in SUBSET Pairs /\ pair \in Pairs
  BY <1>1, <1>9 DEF Record
<1> HIDE DEF pair
<1>11. CASE UNCHANGED <<shared, internal_modifiers, begun>> /\ hist' = [hist EXCEPT ![t] = Noted(t)]
  <2>1. /\ arrays' = arrays /\ generic_enabled' = generic_enabled /\ key_enabled' = key_enabled
        /\ blockers' = blockers /\ internal_modifiers' = internal_modifiers /\ Listed(arrays)' = Listed(arrays)
    BY <1>11 DEF shared, Listed
  <2>2. hist'[t] = [hist[t] EXCEPT !.called = @ \cup {pair}]
    BY <1>3, <1>11 DEF Noted, pair, x
  <2>3. /\ hist'[t] \in Record /\ hist'[t].called = hist[t].called \cup {pair} /\ hist'[t].was = hist[t].was
        /\ hist'[t].disturbed = hist[t].disturbed /\ hist'[t].before = hist[t].before
        /\ hist'[t].alone = hist[t].alone
    BY <1>1, <1>10, <2>2 DEF Record
  <2>4. Typed(t)'
    BY <1>1, <1>5, <1>6, <2>3 DEF Typed, y
  <2>5. Safe(t)'
    BY <1>5, <1>7, <1>8, <1>9, <2>1, <2>3 DEF Safe, x, y
  <2>6. Heard(t)' = Heard(t) \cup {Called(t)}
    <3>1. pair[2] = Called(t)
      BY DEF pair
    <3>2. QED
      BY <2>3, <3>1 DEF Heard
  <2>7. Thorough(t)'
    <3> SUFFICES ASSUME ~ hist[t].disturbed, NEW z \in Listed(arrays), Meant(t, z)'
                 PROVE  z[2] \in Heard(t)' \/ Before(t, z)'
      BY <1>8, <2>1, <2>3 DEF Thorough, Walked
    <3>1. Meant(t, z)
      BY <1>5, <2>1 DEF Meant, x, y
    <3>2. z[2] \in Heard(t) \/ Before(t, z)
      BY <1>7, <1>8, <3>1 DEF Thorough
    <3>3. CASE z[1] \in ToSet(x.plan)
      BY <1>5, <3>3 DEF Before, x, y
    <3>4. CASE z[1] = x.place /\ \E j \in x.it .. x.end : arrays[z[1]].cells[j] = z[2]
      <4>1. PICK j \in x.it .. x.end : arrays[z[1]].cells[j] = z[2]
        BY <3>4
      <4>2. CASE j = x.it
        BY <1>9, <2>6, <3>4, <4>1, <4>2
      <4>3. CASE j # x.it
        <5>1. j \in y.it .. y.end /\ z[1] = y.place /\ arrays'[z[1]].cells[j] = z[2]
          BY <1>1, <1>5, <2>1, <3>4, <4>1, <4>3
        <5>2. QED
          BY <5>1 DEF Before, y
      <4>4. QED
        BY <4>2, <4>3
    <3>5. QED
      BY <2>6, <3>2, <3>3, <3>4 DEF Before, x
  <2>8. Heeds(t)'
    BY <1>2, <1>7, <2>1, <2>6 DEF Heeds
  <2>9. Changes(t)'
    <3> SUFFICES ASSUME hist[t].alone, ~ Undone(t)' PROVE Changes(t)'
      BY <2>3, Zenon DEF Changes
    <3>1. ~ Undone(t) /\ FirstTime(t)' = FirstTime(t) /\ Left(t)' = Left(t)
      BY <1>5, <2>3 DEF Undone, FirstTime, Left, Modifies, x, y
    <3>2. /\ x.keys = (key_enabled /\ x.s.type = "key")
          /\ internal_modifiers = IF FirstTime(t) THEN hist[t].before ELSE Left(t)
      BY <1>1, <1>7, <1>8, <3>1 DEF Changes, x
    <3>3. /\ y.keys = (key_enabled' /\ y.s.type = "key")
          /\ internal_modifiers' = IF FirstTime(t)' THEN hist'[t].before ELSE Left(t)'
      BY <1>5, <2>1, <2>3, <3>1, <3>2
    <3>4. QED
      BY <1>8, <3>3 DEF Changes, y
  <2>10. QED
    BY <2>4, <2>5, <2>7, <2>8, <2>9 DEF ThreadInv
<1>12. CASE /\ Register
            /\ hist' = Disturbed([hist EXCEPT ![t] = [Noted(t) EXCEPT !.was = @ \cup Listed(arrays')]])
  <2>1. /\ generic_enabled' = generic_enabled /\ key_enabled' = key_enabled
        /\ blockers' = blockers /\ internal_modifiers' = internal_modifiers
    BY <1>12 DEF Register
  <2>2. AllGood' /\ \A p \in Places : Kept(arrays[p], arrays'[p])
    BY <1>7, <1>12, RegisterKeeps
  <2>3. Listed(arrays') \in SUBSET Pairs
    BY <2>2, ListedIs DEF AllGood
  <2>4. hist'[t] = [[[hist[t] EXCEPT !.called = @ \cup {pair}] EXCEPT !.was = @ \cup Listed(arrays')]
                      EXCEPT !.disturbed = TRUE]
    BY <1>3, <1>12 DEF Disturbed, Noted, pair, x
  <2>5. /\ hist'[t] \in Record /\ hist'[t].called = hist[t].called \cup {pair}
        /\ hist'[t].was = hist[t].was \cup Listed(arrays')
        /\ hist'[t].disturbed /\ hist'[t].before = hist[t].before /\ hist'[t].alone = hist[t].alone
    <3> DEFINE h == hist[t]
    <3>1. h \in Record
      BY <1>1
    <3> HIDE DEF h
    <3>2. hist'[t] = [[[h EXCEPT !.called = @ \cup {pair}] EXCEPT !.was = @ \cup Listed(arrays')]
                      EXCEPT !.disturbed = TRUE]
      BY <2>4 DEF h
    <3>3. h.called \cup {pair} \in SUBSET Pairs /\ h.was \cup Listed(arrays') \in SUBSET Pairs
      BY <1>10, <2>3 DEF h
    <3> DEFINE C == h.called \cup {pair}
               W == h.was \cup Listed(arrays')
    <3> HIDE DEF C, W
    <3>4. hist'[t] = [called |-> C, was |-> W, disturbed |-> TRUE, before |-> h.before, alone |-> h.alone]
      BY <3>1, <3>2 DEF Record, C, W
    <3>5. QED
      BY <3>1, <3>3, <3>4 DEF Record, h, C, W
  <2>6. Typed(t)'
    BY <1>1, <1>5, <1>6, <2>5 DEF Typed, y
  <2>7. Safe(t)'
    <3>1. hist'[t].called \subseteq hist'[t].was
      BY <1>7, <1>9, <2>5 DEF Safe
    <3>2. Listed(arrays)' \subseteq hist'[t].was
      BY <2>5 DEF Listed
    <3>3. ASSUME NEW j \in 1 .. x.end
          PROVE  <<x.place, arrays'[x.place].cells[j]>> \in hist'[t].was
      <4>1. j \in 1 .. Cells
        BY <1>1
      <4>2. CASE arrays'[x.place].cells[j] = arrays[x.place].cells[j]
        BY <1>7, <1>8, <2>5, <4>2 DEF Safe, x
      <4>3. CASE \E k \in 1 .. arrays[x.place].used : arrays'[x.place].cells[j] = arrays[x.place].cells[k]
        <5>1. <<x.place, arrays'[x.place].cells[j]>> \in Listed(arrays)
          BY <1>1, <1>7, <4>3, ListedIs DEF AllGood
        <5>2. QED
          BY <1>7, <1>8, <2>5, <5>1 DEF Safe
      <4>4. CASE j \in 1 .. arrays'[x.place].used
        <5>1. <<x.place, arrays'[x.place].cells[j]>> \in Listed(arrays')
          BY <1>1, <2>2, <4>4, ListedIs DEF AllGood
        <5>2. QED
          BY <2>5, <5>1
      <4>5. QED
        BY <1>1, <2>2, <4>1, <4>2, <4>3, <4>4 DEF Kept
    <3>4. QED
      BY <1>5, <3>1, <3>2, <3>3 DEF Safe, y
  <2>8. Heard(t)' = Heard(t) \cup {Called(t)}
    <3>1. pair[2] = Called(t)
      BY DEF pair
    <3>2. QED
      BY <2>5, <3>1 DEF Heard
  <2>9. Thorough(t)'
    BY <2>5 DEF Thorough
  <2>10. Heeds(t)'
    BY <1>2, <1>7, <2>1, <2>8 DEF Heeds
  <2>11. Changes(t)'
    <3> SUFFICES ASSUME hist[t].alone, ~ Undone(t)' PROVE Changes(t)'
      BY <2>5, Zenon DEF Changes
    <3>1. ~ Undone(t) /\ FirstTime(t)' = FirstTime(t) /\ Left(t)' = Left(t)
      BY <1>5, <2>5 DEF Undone, FirstTime, Left, Modifies, x, y
    <3>2. /\ x.keys = (key_enabled /\ x.s.type = "key")
          /\ internal_modifiers = IF FirstTime(t) THEN hist[t].before ELSE Left(t)
      BY <1>1, <1>7, <1>8, <3>1 DEF Changes, x
    <3>3. /\ y.keys = (key_enabled' /\ y.s.type = "key")
          /\ internal_modifiers' = IF FirstTime(t)' THEN hist'[t].before ELSE Left(t)'
      BY <1>5, <2>1, <2>5, <3>1, <3>2
    <3>4. QED
      BY <1>8, <3>3 DEF Changes, y
  <2>12. QED
    BY <2>6, <2>7, <2>9, <2>10, <2>11 DEF ThreadInv
<1>13. QED
  BY <1>11, <1>12 DEF Receive

\* A receiver blocks.
LEMMA BlockedKeeps ==
  ASSUME NEW t \in Threads, Given(t), ReceiveBlocks(t)
  PROVE  ThreadInv(t)'
<1>1. DOMAIN th = Threads /\ DOMAIN hist = Threads
  BY DEF Given
<1>2. th'[t] = Idle
  BY <1>1 DEF ReceiveBlocks, Blocked
<1>3. hist'[t] = NoHistory
  BY <1>1, <1>2 DEF ReceiveBlocks
<1>4. QED
  BY <1>2, <1>3, Rests

\* mcr_send or mcr_dispatch returns.
LEMMA ReturnKeeps ==
  ASSUME NEW t \in Threads, Given(t), Returns(t)
  PROVE  ThreadInv(t)'
<1>1. DOMAIN th = Threads /\ DOMAIN hist = Threads
  BY DEF Given
<1>2. th'[t] = Idle /\ hist'[t] = NoHistory
  BY <1>1 DEF Returns
<1>3. QED
  BY <1>2, Rests

\* A thread that goes on after a walk: its signal and its history are the same.
LEMMA MovesOn ==
  ASSUME NEW t \in Threads, Given(t), th[t] \in Busy,
         NEW at \in {"store", "passed", "send", "sent"}, NEW mods \in SUBSET Flags, NEW next_ \in {"passed", "sent"},
         th'[t] = [th[t] EXCEPT !.at = at, !.next = next_, !.mods = mods],
         hist'[t] = hist[t], UNCHANGED shared,
         Walked(t)' => Walked(t) \/ (At(t, "walk") /\ \A z \in Listed(arrays) : ~ Before(t, z)),
         hist[t].alone /\ ~ Undone(t) => Changes(t)'
  PROVE  ThreadInv(t)'
<1> DEFINE x == th[t]
           y == th'[t]
<1>1. /\ x \in Busy /\ x # Idle /\ x.it \in 1 .. x.end + 1
      /\ x.op = "send" /\ x.pass = 2 => x.s.is_dispatch
      /\ hist[t] \in Record
  <2>1. x # Idle
    <3>1. x.at # "idle"
      BY DEF Busy
    <3>2. QED
      BY <3>1 DEF Idle
  <2>2. QED
    BY <2>1 DEF Given, ThreadInv, Typed
<1> HIDE DEF x, y
<1>2. /\ y.at = at /\ y.s = x.s /\ y.op = x.op /\ y.pass = x.pass /\ y.keys = x.keys
      /\ y.plan = x.plan /\ y.place = x.place /\ y.it = x.it /\ y.end = x.end /\ y.mods = mods /\ y.next = next_
  BY DEF Busy, x, y
<1>3. y \in Busy
  BY DEF Busy, x, y
<1>4. /\ arrays' = arrays /\ generic_enabled' = generic_enabled /\ key_enabled' = key_enabled
      /\ blockers' = blockers /\ Listed(arrays)' = Listed(arrays) /\ Heard(t)' = Heard(t)
  BY DEF shared, Listed, Heard
<1>5. Safe(t) /\ Thorough(t) /\ Heeds(t) /\ Changes(t)
  BY DEF Given, ThreadInv
<1>6. Typed(t)'
  BY <1>1, <1>2, <1>3 DEF Typed, y
<1>7. ~ At(t, "walk")'
  BY <1>2 DEF At, y
<1>8. Safe(t)'
  BY <1>5, <1>7 DEF Safe
<1>9. Thorough(t)'
  <2> SUFFICES ASSUME ~ hist[t].disturbed, Walked(t)', NEW z \in Listed(arrays), Meant(t, z)'
               PROVE  z[2] \in Heard(t)
    BY <1>4, <1>7 DEF Thorough
  <2>1. Meant(t, z)
    BY <1>2, <1>4 DEF Meant, x, y
  <2>2. QED
    BY <1>5, <2>1 DEF Thorough
<1>10. Heeds(t)'
  BY <1>4, <1>5 DEF Heeds
<1>11. Changes(t)'
  <2>1. Undone(t)' = Undone(t)
    BY <1>2 DEF Undone, x, y
  <2>2. CASE hist[t].alone /\ ~ Undone(t)
    BY <2>2
  <2>3. CASE ~ (hist[t].alone /\ ~ Undone(t))
    BY <2>1, <2>3 DEF Changes
  <2>4. QED
    BY <2>2, <2>3
<1>12. QED
  BY <1>6, <1>8, <1>9, <1>10, <1>11 DEF ThreadInv

\* All arrays were walked, and the key has its effect on the modifiers.
LEMMA PassEndsKeeps ==
  ASSUME NEW t \in Threads, Given(t), PassEnds(t)
  PROVE  ThreadInv(t)'
<1> DEFINE x == th[t]
<1>1. /\ x \in Busy /\ x # Idle /\ x.it \in 1 .. x.end + 1 /\ hist[t] \in Record /\ x.s \in Signals
      /\ x.op = "send" /\ x.pass = 2 => x.s.is_dispatch
      /\ x.end \in 0 .. Cells /\ x.place \in Places /\ x.at = "walk" /\ Cells \in Nat
  BY BusyAt, Numbers, Zenon DEF PassEnds
<1>2. At(t, "walk") /\ Ahead(t) = 0 /\ ~ (x.it <= x.end)
  BY DEF PassEnds, Inside
<1>3. DOMAIN th = Threads
  BY DEF Given
<1>4. AllGood /\ Safe(t) /\ Thorough(t) /\ Heeds(t) /\ Changes(t) /\ internal_modifiers \in SUBSET Flags
  BY DEF Given, ThreadInv
<1>5. ASSUME NEW z \in Listed(arrays) PROVE ~ Before(t, z)
  <2>1. z = <<z[1], z[2]>> /\ z[1] \in Places
    BY DEF Listed
  <2>2. PICK k \in 1 .. arrays[z[1]].used : arrays[z[1]].cells[k] = z[2]
    BY <1>4, <2>1, ListedIs DEF AllGood
  <2>3. arrays[z[1]].used > 0
    <3>1. arrays[z[1]].used \in 0 .. Cells
      BY <1>4, <2>1 DEF AllGood, Array
    <3>2. QED
      BY <1>1, <2>2, <3>1
  <2>4. z[1] \notin ToSet(x.plan)
    <3>1. /\ x.plan \in Seq(Places)
          /\ \A i \in 1 .. Len(x.plan) : ~ (arrays[x.plan[i]].used > 0)
      BY <1>1, <1>2, AheadIs
    <3>2. QED
      BY <2>3, <3>1 DEF ToSet
  <2>5. \A j \in x.it .. x.end : FALSE
    BY <1>1, <1>2
  <2>6. QED
    BY <2>4, <2>5 DEF Before
<1>6. /\ hist[t].alone /\ ~ Undone(t) => x.keys = (key_enabled /\ x.s.type = "key")
      /\ hist[t].alone /\ ~ Undone(t) => internal_modifiers = IF FirstTime(t) THEN hist[t].before ELSE Left(t)
  BY <1>1, <1>2, <1>4 DEF Changes
<1>7. CASE Modifies(t) /\ Load(t, KeyModifier[x.s.key], "passed")
  <2> DEFINE flags == KeyModifier[x.s.key]
  <2>1. flags \in SUBSET Flags
    BY <1>7, KeyFlags DEF Modifies
  <2>2. PICK m \in SUBSET Flags : m = Changed(internal_modifiers, flags, x.s.apply)
    BY <1>4, <2>1, ChangedTyped
  <2>3. /\ th' = [th EXCEPT ![t].at = "store", ![t].next = "passed", ![t].mods = m]
        /\ UNCHANGED <<shared, internal_modifiers, begun, hist>>
    BY <1>7, <2>2 DEF Load
  <2>4. th'[t] = [th[t] EXCEPT !.at = "store", !.next = "passed", !.mods = m] /\ hist'[t] = hist[t]
    BY <1>3, <2>3
  <2>5. /\ Left(t)' = Left(t) /\ Modifies(t)' = Modifies(t)
        /\ th'[t].keys = x.keys /\ th'[t].s = x.s
        /\ th'[t].at = "store" /\ th'[t].mods = m /\ th'[t].next = "passed"
    <3>1. /\ th'[t].s = x.s /\ th'[t].op = x.op /\ th'[t].pass = x.pass /\ th'[t].keys = x.keys
          /\ th'[t].at = "store" /\ th'[t].mods = m /\ th'[t].next = "passed"
      BY <1>1, <2>4 DEF Busy
    <3>2. Modifies(t)' = Modifies(t)
      BY <3>1 DEF Modifies
    <3>3. Left(t)' = Left(t)
      BY <2>4, <3>1, <3>2 DEF Left
    <3>4. QED
      BY <3>1, <3>2, <3>3
  <2>6. ASSUME hist[t].alone, ~ Undone(t) PROVE Changes(t)'
    <3>1. m = Left(t)
      <4>1. CASE FirstTime(t)
        BY <1>6, <1>7, <2>2, <2>6, <4>1 DEF Left
      <4>2. CASE ~ FirstTime(t)
        <5>1. internal_modifiers = Left(t) /\ Left(t) = Changed(hist[t].before, flags, x.s.apply)
          BY <1>6, <1>7, <2>6, <4>2 DEF Left
        <5>2. x.s.type = "key" /\ x.op = "send" /\ x.s.is_dispatch
          BY <1>1, <1>6, <1>7, <2>6, <4>2 DEF Modifies, FirstTime, Busy
        <5>3. x.s.apply # "toggle"
          BY <2>6, <5>2 DEF Undone
        <5>4. QED
          BY <2>2, <5>1, <5>3, ChangedTwice
      <4>3. QED
        BY <4>1, <4>2
    <3>2. At(t, "store")' /\ \A point \in {"walk", "passed", "send", "sent"} : ~ At(t, point)'
      BY <2>5 DEF At
    <3>3. key_enabled' = key_enabled
      BY <2>3 DEF shared
    <3>4. QED
      BY <1>6, <1>7, <2>5, <2>6, <3>1, <3>2, <3>3 DEF Changes
  <2>7. UNCHANGED shared
    BY <2>3
  <2>8. QED
    BY <1>1, <1>2, <1>5, <2>2, <2>4, <2>6, <2>7, MovesOn
<1>8. CASE /\ ~ Modifies(t) /\ th' = [th EXCEPT ![t].at = "passed"]
           /\ UNCHANGED <<shared, internal_modifiers, begun, hist>>
  <2>1. x.mods \in SUBSET Flags /\ x.next \in {"passed", "sent"}
    BY <1>1 DEF Busy
  <2>2. th'[t] = [th[t] EXCEPT !.at = "passed", !.next = x.next, !.mods = x.mods] /\ hist'[t] = hist[t]
    BY <1>1, <1>3, <1>8 DEF Busy
  <2>3. /\ Left(t)' = Left(t) /\ th'[t].keys = x.keys /\ th'[t].s = x.s /\ th'[t].at = "passed"
    <3>1. th'[t].keys = x.keys /\ th'[t].s = x.s /\ th'[t].at = "passed"
      BY <1>1, <1>3, <1>8 DEF Busy
    <3>2. QED
      BY <1>8, <3>1 DEF Left, Modifies
  <2>4. ASSUME hist[t].alone, ~ Undone(t) PROVE Changes(t)'
    <3>1. internal_modifiers = Left(t)
      BY <1>6, <1>8, <2>4 DEF Left
    <3>2. At(t, "passed")' /\ \A point \in {"walk", "store", "send", "sent"} : ~ At(t, point)'
      BY <2>3 DEF At
    <3>3. key_enabled' = key_enabled /\ internal_modifiers' = internal_modifiers
      BY <1>8 DEF shared
    <3>4. QED
      BY <1>6, <2>3, <2>4, <3>1, <3>2, <3>3 DEF Changes
  <2>5. UNCHANGED shared
    BY <1>8
  <2>6. QED
    BY <1>1, <1>2, <1>5, <2>1, <2>2, <2>4, <2>5, MovesOn
<1>9. QED
  BY <1>7, <1>8 DEF PassEnds

\* The modifiers are stored.
LEMMA StoreKeeps ==
  ASSUME NEW t \in Threads, Given(t), Store(t)
  PROVE  ThreadInv(t)'
<1> DEFINE x == th[t]
           n == x.next
           m == x.mods
<1>1. x \in Busy /\ x # Idle /\ hist[t] \in Record /\ x.s \in Signals /\ x.at = "store"
  BY BusyAt, Zenon DEF Store
<1>2. DOMAIN th = Threads
  BY DEF Given
<1>3. Changes(t)
  BY DEF Given, ThreadInv
<1>4. /\ internal_modifiers' = m /\ th' = [th EXCEPT ![t].at = n] /\ hist'[t] = hist[t]
      /\ UNCHANGED shared
  BY DEF Store
<1>5. n \in {"passed", "sent"} /\ m \in SUBSET Flags
  BY <1>1 DEF Busy
<1>6. th'[t] = [th[t] EXCEPT !.at = n, !.next = n, !.mods = m]
  BY <1>1, <1>2, <1>4 DEF Busy
<1>7. /\ th'[t].s = x.s /\ th'[t].op = x.op /\ th'[t].pass = x.pass /\ th'[t].keys = x.keys
      /\ th'[t].at = n /\ key_enabled' = key_enabled
  <2> HIDE DEF n, m
  <2>1. th'[t] = [th[t] EXCEPT !.at = n]
    BY <1>2, <1>4
  <2>2. QED
    BY <1>1, <1>4, <2>1 DEF Busy, shared
<1>8. Modifies(t)' = Modifies(t)
  BY <1>7 DEF Modifies
<1>9. Left(t)' = Left(t)
  BY <1>4, <1>7, <1>8 DEF Left
<1> HIDE DEF n, m
<1>10. ASSUME hist[t].alone, ~ Undone(t) PROVE Changes(t)'
  <2>1. x.keys = (key_enabled /\ x.s.type = "key")
    BY <1>1, <1>3, <1>10 DEF Changes
  <2>2. CASE n = "passed"
    <3>1. m = Left(t)
      BY <1>1, <1>3, <1>10, <2>2 DEF Changes, At, n, m
    <3>2. At(t, "passed")' /\ \A point \in {"walk", "store", "send", "sent"} : ~ At(t, point)'
      BY <1>7, <2>2 DEF At
    <3>3. QED
      BY <1>4, <1>7, <1>9, <2>1, <3>1, <3>2 DEF Changes
  <2>3. CASE n = "sent"
    <3>1. x.s.type = "modifier" /\ m = Changed(hist[t].before, x.s.flags, x.s.apply)
      BY <1>1, <1>3, <1>10, <2>3 DEF Changes, At, n, m
    <3>2. At(t, "sent")' /\ \A point \in {"walk", "store", "passed", "send"} : ~ At(t, point)'
      BY <1>7, <2>3 DEF At
    <3>3. ~ Modifies(t)'
      BY <1>8, <2>1, <3>1 DEF Modifies
    <3>4. Expected(t)' = m
      BY <1>4, <1>7, <3>1, <3>2, <3>3 DEF Expected
    <3>5. QED
      BY <1>4, <1>7, <2>1, <3>2, <3>4 DEF Changes
  <2>4. QED
    BY <1>5, <2>2, <2>3
<1>11. Walked(t)' => Walked(t)
  BY <1>1, <1>5, <1>7 DEF Walked, At, n
<1>12. QED
  BY <1>1, <1>4, <1>5, <1>6, <1>10, <1>11, MovesOn

\* mcr_dispatch has returned.
LEMMA PassedKeeps ==
  ASSUME NEW t \in Threads, Given(t), Passed(t)
  PROVE  ThreadInv(t)'
<1> DEFINE x == th[t]
<1>1. x \in Busy /\ x # Idle /\ hist[t] \in Record /\ x.s \in Signals /\ x.at = "passed"
  BY BusyAt, Zenon DEF Passed
<1>2. DOMAIN th = Threads /\ DOMAIN hist = Threads
  BY DEF Given
<1>3. Changes(t) /\ UNCHANGED <<shared, internal_modifiers>>
  BY DEF Given, ThreadInv, Passed
<1>4. key_enabled' = key_enabled /\ internal_modifiers' = internal_modifiers /\ UNCHANGED shared
  BY <1>3 DEF shared
<1>5. ASSUME hist[t].alone, ~ Undone(t)
      PROVE  x.keys = (key_enabled /\ x.s.type = "key") /\ internal_modifiers = Left(t)
  BY <1>1, <1>3, <1>5 DEF Changes, At
<1>6. CASE x.op = "dispatch" /\ Returns(t)
  BY <1>6, ReturnKeeps
<1>7. CASE /\ Again(t)
           /\ th' = [th EXCEPT ![t] = Pass(x.s, "send", 2)]
           /\ hist' = [hist EXCEPT ![t] = History(@.before, @.alone)]
  <2> DEFINE h == hist[t]
  <2>1. th'[t] = Pass(x.s, "send", 2) /\ hist'[t] = History(h.before, h.alone)
    BY <1>2, <1>7
  <2>2. h.before \in SUBSET Flags /\ h.alone \in BOOLEAN /\ x.s.is_dispatch /\ x.op = "send"
    BY <1>1, <1>7 DEF Record, Again
  <2>3. /\ th'[t].s = x.s /\ th'[t].op = "send" /\ th'[t].pass = 2
        /\ th'[t].keys = (key_enabled /\ x.s.type = "key")
    BY <1>1, <2>1, PassIs DEF Given
  <2>4. hist'[t].before = h.before
    BY <2>1 DEF History
  <2>5. ASSUME h.alone, ~ Undone(t)'
        PROVE  internal_modifiers' = IF FirstTime(t)' THEN h.before ELSE Left(t)'
    <3>1. ~ Undone(t)
      BY <2>2, <2>3, <2>5 DEF Undone
    <3>2. x.keys = th'[t].keys /\ internal_modifiers = Left(t)
      BY <1>5, <2>3, <2>5, <3>1
    <3>3. Modifies(t)' = Modifies(t)
      BY <2>3, <3>2 DEF Modifies
    <3>4. Left(t)' = Left(t)
      BY <2>3, <2>4, <3>3 DEF Left
    <3>5. ~ FirstTime(t)'
      BY <2>3 DEF FirstTime
    <3>6. QED
      BY <1>4, <3>2, <3>4, <3>5
  <2> HIDE DEF h
  <2>6. QED
    BY <1>1, <1>3, <2>1, <2>2, <2>5, PassStarts DEF Given
<1>8. CASE th' = [th EXCEPT ![t].at = "send"] /\ UNCHANGED hist
  <2>1. x.mods \in SUBSET Flags /\ x.next \in {"passed", "sent"}
    BY <1>1 DEF Busy
  <2>2. th'[t] = [th[t] EXCEPT !.at = "send", !.next = x.next, !.mods = x.mods] /\ hist'[t] = hist[t]
    BY <1>1, <1>2, <1>8 DEF Busy
  <2>3. /\ Left(t)' = Left(t) /\ th'[t].keys = x.keys /\ th'[t].s = x.s /\ th'[t].at = "send"
    <3>1. th'[t].keys = x.keys /\ th'[t].s = x.s /\ th'[t].at = "send"
      BY <1>1, <1>2, <1>8 DEF Busy
    <3>2. QED
      BY <1>8, <3>1 DEF Left, Modifies
  <2>4. ASSUME hist[t].alone, ~ Undone(t) PROVE Changes(t)'
    <3>1. At(t, "send")' /\ \A point \in {"walk", "store", "passed", "sent"} : ~ At(t, point)'
      BY <2>3 DEF At
    <3>2. QED
      BY <1>4, <1>5, <2>3, <2>4, <3>1 DEF Changes
  <2>5. Walked(t)
    BY <1>1 DEF Walked, At
  <2>6. QED
    BY <1>1, <1>4, <2>1, <2>2, <2>4, <2>5, MovesOn
<1>9. QED
  BY <1>6, <1>7, <1>8 DEF Passed

\* The send function of the interface.
LEMMA SendKeeps ==
  ASSUME NEW t \in Threads, Given(t), Send(t)
  PROVE  ThreadInv(t)'
<1> DEFINE x == th[t]
<1>1. x \in Busy /\ x # Idle /\ hist[t] \in Record /\ x.s \in Signals /\ x.at = "send"
  BY BusyAt, Zenon DEF Send
<1>2. DOMAIN th = Threads
  BY DEF Given
<1>3. Changes(t) /\ internal_modifiers \in SUBSET Flags
  BY DEF Given, ThreadInv
<1>4. ASSUME hist[t].alone, ~ Undone(t)
      PROVE  x.keys = (key_enabled /\ x.s.type = "key") /\ internal_modifiers = Left(t)
  BY <1>1, <1>3, <1>4 DEF Changes, At
<1>5. Walked(t)
  BY <1>1 DEF Walked, At
<1>6. CASE x.s.type = "modifier" /\ Load(t, x.s.flags, "sent")
  <2>1. PICK m \in SUBSET Flags : m = Changed(internal_modifiers, x.s.flags, x.s.apply)
    <3>1. x.s.flags \in SUBSET Flags
      BY <1>1, SignalIs
    <3>2. QED
      BY <1>3, <3>1, ChangedTyped
  <2>2. /\ th'[t] = [th[t] EXCEPT !.at = "store", !.next = "sent", !.mods = m] /\ hist'[t] = hist[t]
        /\ UNCHANGED shared /\ key_enabled' = key_enabled
    BY <1>2, <1>6, <2>1 DEF Load, shared
  <2>3. /\ th'[t].s = x.s /\ th'[t].keys = x.keys
        /\ th'[t].at = "store" /\ th'[t].mods = m /\ th'[t].next = "sent"
    BY <1>1, <2>2 DEF Busy
  <2>4. ASSUME hist[t].alone, ~ Undone(t) PROVE Changes(t)'
    <3>1. x.keys = (key_enabled /\ x.s.type = "key") /\ internal_modifiers = Left(t)
      BY <1>4, <2>4
    <3>2. Left(t) = hist[t].before
      BY <1>6, <3>1 DEF Left, Modifies
    <3>3. At(t, "store")' /\ \A point \in {"walk", "passed", "send", "sent"} : ~ At(t, point)'
      BY <2>3 DEF At
    <3>4. QED
      BY <1>6, <2>1, <2>2, <2>3, <3>1, <3>2, <3>3 DEF Changes
  <2>5. QED
    BY <1>1, <1>5, <2>2, <2>4, MovesOn
<1>7. CASE x.s.type = "key" /\ th' = [th EXCEPT ![t].at = "sent"] /\ UNCHANGED <<shared, internal_modifiers, begun, hist>>
  <2>1. x.mods \in SUBSET Flags /\ x.next \in {"passed", "sent"}
    BY <1>1 DEF Busy
  <2>2. /\ th'[t] = [th[t] EXCEPT !.at = "sent", !.next = x.next, !.mods = x.mods] /\ hist'[t] = hist[t]
        /\ UNCHANGED shared /\ key_enabled' = key_enabled /\ internal_modifiers' = internal_modifiers
    BY <1>1, <1>2, <1>7 DEF Busy, shared
  <2>3. th'[t].keys = x.keys /\ th'[t].s = x.s /\ th'[t].at = "sent" /\ Modifies(t)' = Modifies(t)
    BY <1>1, <1>2, <1>7 DEF Busy, Modifies
  <2>4. ASSUME hist[t].alone, ~ Undone(t) PROVE Changes(t)'
    <3>1. At(t, "sent")' /\ \A point \in {"walk", "store", "passed", "send"} : ~ At(t, point)'
      BY <2>3 DEF At
    <3>2. Expected(t)' = Left(t)
      BY <1>7, <2>2, <2>3 DEF Expected, Left
    <3>3. QED
      BY <1>4, <2>2, <2>3, <2>4, <3>1, <3>2 DEF Changes
  <2>5. QED
    BY <1>1, <1>5, <2>1, <2>2, <2>4, MovesOn
<1>8. QED
  BY <1>6, <1>7 DEF Send

-----------------------------------------------------------------------------
(* All threads *)

\* A function on the threads.
OnThreads(f) == f = [u \in Threads |-> f[u]]

\* A step of one thread that leaves to the others all that they see.
Quiet(t) ==
  /\ OnThreads(th') /\ OnThreads(hist')
  /\ \A u \in Threads \ {t} : th'[u] = th[u] /\ hist'[u] = hist[u]
  /\ UNCHANGED <<shared, internal_modifiers>>
  /\ begun' \in 0 .. Budget

LEMMA QuietSteps ==
  ASSUME DispatchInv, NEW t \in Threads,
         \/ Begin(t) \/ NextArray(t) \/ ReceiveBlocks(t) \/ PassEnds(t) \/ Passed(t) \/ Send(t) \/ Sent(t)
  PROVE  Quiet(t)
<1>1. DOMAIN th = Threads /\ DOMAIN hist = Threads /\ begun \in 0 .. Budget /\ Budget \in Nat
  <2>1. Budget \in Nat
    BY DispatchAssumption, Zenon
  <2>2. QED
    BY <2>1 DEF DispatchInv
<1>2. ASSUME NEW a, NEW h, th' = [th EXCEPT ![t] = a], hist' = [hist EXCEPT ![t] = h] \/ hist' = hist,
             UNCHANGED <<shared, internal_modifiers>>, begun' = begun \/ begun' \in 0 .. Budget
      PROVE  Quiet(t)
  <2>1. OnThreads(th') /\ \A u \in Threads \ {t} : th'[u] = th[u]
    BY <1>1, <1>2 DEF OnThreads
  <2>2. OnThreads(hist') /\ \A u \in Threads \ {t} : hist'[u] = hist[u]
    <3>1. OnThreads(hist)
      BY DEF DispatchInv, OnThreads
    <3>2. CASE hist' = hist
      BY <3>1, <3>2
    <3>3. CASE hist' = [hist EXCEPT ![t] = h]
      BY <1>1, <3>3 DEF OnThreads
    <3>4. QED
      BY <1>2, <3>2, <3>3
  <2>3. begun' \in 0 .. Budget
    BY <1>1, <1>2
  <2>4. QED
    BY <1>2, <2>1, <2>2, <2>3, Zenon DEF Quiet
<1>3. CASE Begin(t)
  <2>1. /\ \E a : th' = [th EXCEPT ![t] = a]
        /\ \E h : hist' = [hist EXCEPT ![t] = h]
        /\ UNCHANGED <<shared, internal_modifiers>>
    BY <1>3, Zenon DEF Begin
  <2>2. begun' \in 0 .. Budget
    BY <1>1, <1>3 DEF Begin
  <2>3. QED
    BY <1>2, <2>1, <2>2
<1>4. CASE NextArray(t)
  <2>1. /\ \E a : th' = [th EXCEPT ![t] = a]
        /\ UNCHANGED <<shared, internal_modifiers, begun, hist>>
    BY <1>4, Zenon DEF NextArray
  <2>2. QED
    BY <1>2, <2>1
<1>5. CASE ReceiveBlocks(t)
  <2>1. /\ \E a : th' = [th EXCEPT ![t] = a]
        /\ \E h : hist' = [hist EXCEPT ![t] = h]
        /\ UNCHANGED <<shared, internal_modifiers, begun>>
    BY <1>5, Zenon DEF ReceiveBlocks
  <2>2. QED
    BY <1>2, <2>1
<1>6. CASE PassEnds(t)
  <2>1. /\ \E a : th' = [th EXCEPT ![t] = a]
        /\ UNCHANGED <<shared, internal_modifiers, begun, hist>>
    BY <1>6, Zenon DEF PassEnds, Load
  <2>2. QED
    BY <1>2, <2>1
<1>7. CASE Passed(t)
  <2>1. /\ \E a : th' = [th EXCEPT ![t] = a]
        /\ (\E h : hist' = [hist EXCEPT ![t] = h]) \/ hist' = hist
        /\ UNCHANGED <<shared, internal_modifiers, begun>>
    BY <1>7, Zenon DEF Passed, Returns
  <2>2. QED
    BY <1>2, <2>1
<1>8. CASE Send(t)
  <2>1. /\ \E a : th' = [th EXCEPT ![t] = a]
        /\ UNCHANGED <<shared, internal_modifiers, begun, hist>>
    BY <1>8, Zenon DEF Send, Load
  <2>2. QED
    BY <1>2, <2>1
<1>9. CASE Sent(t)
  <2>1. /\ \E a : th' = [th EXCEPT ![t] = a]
        /\ \E h : hist' = [hist EXCEPT ![t] = h]
        /\ UNCHANGED <<shared, internal_modifiers, begun>>
    BY <1>9, Zenon DEF Sent, Returns
  <2>2. QED
    BY <1>2, <2>1
<1>10. QED
  BY <1>3, <1>4, <1>5, <1>6, <1>7, <1>8, <1>9

\* What the others and the rest of the state see of a step of one thread.
Around(t) ==
  /\ OnThreads(th') /\ OnThreads(hist')
  /\ AllGood' /\ internal_modifiers' \subseteq Flags /\ begun' \in 0 .. Budget
  /\ blockers' = blockers /\ key_enabled' = key_enabled /\ generic_enabled' = generic_enabled
  /\ \A u \in Threads \ {t} : Aside(u)

LEMMA ThreadStep ==
  ASSUME DispatchInv, NEW t \in Threads, mcr_send(t)
  PROVE  Around(t)
<1>1. /\ DOMAIN th = Threads /\ DOMAIN hist = Threads /\ begun \in 0 .. Budget /\ Budget \in Nat
      /\ AllGood /\ internal_modifiers \subseteq Flags
      /\ \A u \in Threads : hist[u] \in Record
  <2>1. Budget \in Nat
    BY DispatchAssumption, Zenon
  <2>2. QED
    BY <2>1 DEF DispatchInv
<1>2. CASE Quiet(t)
  <2>1. AllGood'
    BY <1>1, <1>2 DEF Quiet, shared, AllGood
  <2>2. \A u \in Threads \ {t} : Aside(u)
    BY <1>1, <1>2 DEF Quiet, shared, Aside
  <2>3. QED
    BY <1>1, <1>2, <2>1, <2>2 DEF Quiet, shared, Around
<1>3. CASE Receive(t)
  <2>1. th' = [th EXCEPT ![t].it = @ + 1]
    BY <1>3 DEF Receive
  <2>2. CASE UNCHANGED <<shared, internal_modifiers, begun>> /\ hist' = [hist EXCEPT ![t] = Noted(t)]
    <3> DEFINE h == Noted(t)
    <3> HIDE DEF h
    <3>1. hist' = [hist EXCEPT ![t] = h]
      BY <2>2 DEF h
    <3>2. Quiet(t)
      <4>1. OnThreads(th') /\ OnThreads(hist')
        BY <1>1, <2>1, <3>1 DEF OnThreads
      <4>2. \A u \in Threads \ {t} : th'[u] = th[u] /\ hist'[u] = hist[u]
        BY <1>1, <2>1, <3>1
      <4>3. begun' \in 0 .. Budget
        BY <1>1, <2>2
      <4>4. QED
        BY <2>2, <4>1, <4>2, <4>3, Zenon DEF Quiet
    <3>3. QED
      BY <1>2, <3>2
  <2>3. CASE /\ Dispatching = {t} /\ Register
             /\ hist' = Disturbed([hist EXCEPT ![t] = [Noted(t) EXCEPT !.was = @ \cup Listed(arrays')]])
    <3> DEFINE h == [Noted(t) EXCEPT !.was = @ \cup Listed(arrays')]
               g == [hist EXCEPT ![t] = h]
    <3> HIDE DEF h
    <3>1. hist' = [u \in Threads |-> [g[u] EXCEPT !.disturbed = TRUE]]
      BY <2>3 DEF Disturbed, h
    <3>2. \A u \in Threads \ {t} : g[u] = hist[u]
      BY <1>1
    <3> HIDE DEF g
    <3>3. ASSUME NEW u \in Threads \ {t} PROVE Aside(u)
      <4>1. hist'[u] = [hist[u] EXCEPT !.disturbed = TRUE] /\ hist[u] \in Record
        BY <1>1, <3>1, <3>2
      <4>2. /\ hist'[u] \in Record /\ hist'[u].called = hist[u].called /\ hist'[u].was = hist[u].was
            /\ hist'[u].before = hist[u].before /\ hist'[u].disturbed /\ hist'[u].alone = hist[u].alone
        BY <4>1 DEF Record
      <4>3. ~ At(u, "walk")
        BY <2>3 DEF Dispatching
      <4>4. th'[u] = th[u]
        BY <1>1, <2>1
      <4>5. QED
        BY <2>3, <4>2, <4>3, <4>4 DEF Aside, Register
    <3>4. AllGood'
      BY <1>1, <2>3, RegisterKeeps
    <3>5. begun' \in 0 .. Budget
      BY <1>1, <2>3 DEF Register
    <3>6. OnThreads(th') /\ OnThreads(hist')
      BY <1>1, <2>1, <3>1 DEF OnThreads
    <3>7. QED
      BY <1>1, <2>3, <3>3, <3>4, <3>5, <3>6 DEF Around, Register
  <2>4. QED
    BY <1>3, <2>2, <2>3 DEF Receive
<1>4. CASE Store(t)
  <2>1. /\ internal_modifiers' = th[t].mods /\ th' = [th EXCEPT ![t].at = th[t].next]
        /\ hist' = [u \in Threads |-> IF u = t THEN hist[u] ELSE [hist[u] EXCEPT !.alone = FALSE]]
        /\ UNCHANGED <<shared, begun>>
    BY <1>4 DEF Store
  <2>2. th[t].mods \in SUBSET Flags
    <3>1. Given(t) /\ At(t, "store")
      BY <1>4 DEF Store, DispatchInv, Given
    <3>2. th[t] \in Busy
      BY <3>1, BusyAt
    <3>3. QED
      BY <3>2 DEF Busy
  <2>3. AllGood'
    BY <1>1, <2>1 DEF shared, AllGood
  <2>4. ASSUME NEW u \in Threads \ {t} PROVE Aside(u)
    <3>1. hist'[u] = [hist[u] EXCEPT !.alone = FALSE] /\ hist[u] \in Record /\ th'[u] = th[u]
      BY <1>1, <2>1
    <3>2. /\ hist'[u] \in Record /\ hist'[u].called = hist[u].called /\ hist'[u].was = hist[u].was
          /\ hist'[u].before = hist[u].before /\ hist'[u].disturbed = hist[u].disturbed /\ ~ hist'[u].alone
      BY <3>1 DEF Record
    <3>3. QED
      BY <2>1, <3>1, <3>2 DEF Aside, shared
  <2>5. OnThreads(th') /\ OnThreads(hist')
    BY <1>1, <2>1 DEF OnThreads
  <2>6. QED
    BY <1>1, <2>1, <2>2, <2>3, <2>4, <2>5 DEF Around, shared
<1>5. QED
  BY <1>2, <1>3, <1>4, QuietSteps DEF mcr_send

\* Every step of a thread keeps what holds of it.
LEMMA ThreadKeeps ==
  ASSUME DispatchInv, NEW t \in Threads, mcr_send(t)
  PROVE  ThreadInv(t)'
<1>1. Given(t)
  BY DEF DispatchInv, Given
<1>2. Sent(t) => Returns(t)
  BY DEF Sent
<1>3. QED
  BY <1>1, <1>2, BeginKeeps, NextArrayKeeps, ReceiveKeeps, BlockedKeeps, PassEndsKeeps, StoreKeeps,
     PassedKeeps, SendKeeps, ReturnKeeps DEF mcr_send

LEMMA SendKeepsInv ==
  ASSUME DispatchInv, NEW t \in Threads, mcr_send(t)
  PROVE  DispatchInv'
<1>1. Around(t)
  BY ThreadStep
<1>2. \A u \in Threads : ThreadInv(u)'
  <2> TAKE u \in Threads
  <2>1. CASE u = t
    BY <2>1, ThreadKeeps
  <2>2. CASE u # t
    BY <1>1, <2>2, Frame DEF Around, DispatchInv
  <2>3. QED
    BY <2>1, <2>2
<1>3. \A u \in Threads : th'[u] \in {Idle} \cup Busy /\ hist'[u] \in Record
  BY <1>2 DEF ThreadInv, Typed
<1>4. th' \in [Threads -> {Idle} \cup Busy] /\ hist' \in [Threads -> Record]
  BY <1>1, <1>3 DEF Around, OnThreads
<1>5. QED
  BY <1>1, <1>2, <1>4 DEF Around, DispatchInv

\* What the owner does, and what does not concern the dispatchers.
LEMMA OwnerKeepsInv ==
  ASSUME DispatchInv, OwnerRegisters \/ Clear \/ SetEnabled \/ UNCHANGED dispatchVars
  PROVE  DispatchInv'
<1>1. /\ DOMAIN th = Threads /\ DOMAIN hist = Threads /\ begun \in 0 .. Budget /\ Budget \in Nat
      /\ AllGood /\ key_enabled \in BOOLEAN /\ generic_enabled \in BOOLEAN
      /\ \A u \in Threads : hist[u] \in Record
  <2>1. Budget \in Nat
    BY DispatchAssumption, Zenon
  <2>2. QED
    BY <2>1 DEF DispatchInv
<1> DEFINE Right == /\ AllGood' /\ begun' \in 0 .. Budget /\ th' = th /\ blockers' = blockers
                    /\ key_enabled' \in BOOLEAN /\ generic_enabled' \in BOOLEAN
                    /\ internal_modifiers' = internal_modifiers
                    /\ OnThreads(hist')
                    /\ \A u \in Threads : Aside(u)
<1>2. ASSUME Disturbed(hist) = hist', Dispatching = {}, th' = th, blockers' = blockers,
             key_enabled' = key_enabled, generic_enabled' = generic_enabled,
             internal_modifiers' = internal_modifiers
      PROVE  OnThreads(hist') /\ \A u \in Threads : Aside(u)
  <2>1. hist' = [u \in Threads |-> [hist[u] EXCEPT !.disturbed = TRUE]]
    BY <1>2 DEF Disturbed
  <2>2. ASSUME NEW u \in Threads PROVE Aside(u)
    <3>1. hist'[u] = [hist[u] EXCEPT !.disturbed = TRUE] /\ hist[u] \in Record
      BY <1>1, <2>1
    <3>2. /\ hist'[u] \in Record /\ hist'[u].called = hist[u].called /\ hist'[u].was = hist[u].was
          /\ hist'[u].before = hist[u].before /\ hist'[u].disturbed /\ hist'[u].alone = hist[u].alone
      BY <3>1 DEF Record
    <3>3. ~ At(u, "walk")
      BY <1>2 DEF Dispatching
    <3>4. QED
      BY <1>2, <3>2, <3>3 DEF Aside
  <2>3. QED
    BY <2>1, <2>2 DEF OnThreads
<1>3. ASSUME OwnerRegisters PROVE Right
  <2>1. AllGood'
    BY <1>1, <1>3, RegisterKeeps DEF OwnerRegisters
  <2>2. /\ begun' \in 0 .. Budget /\ th' = th /\ blockers' = blockers /\ key_enabled' = key_enabled
        /\ generic_enabled' = generic_enabled /\ internal_modifiers' = internal_modifiers
        /\ hist' = Disturbed(hist) /\ Dispatching = {}
    BY <1>1, <1>3 DEF OwnerRegisters, Register
  <2>3. OnThreads(hist') /\ \A u \in Threads : Aside(u)
    BY <1>2, <2>2
  <2>4. QED
    BY <1>1, <2>1, <2>2, <2>3, Zenon
<1>4. ASSUME Clear PROVE Right
  <2>1. AllGood'
    BY <1>1, <1>4, ClearKeeps
  <2>2. /\ begun' \in 0 .. Budget /\ th' = th /\ blockers' = blockers /\ key_enabled' = key_enabled
        /\ generic_enabled' = generic_enabled /\ internal_modifiers' = internal_modifiers
        /\ hist' = Disturbed(hist) /\ Dispatching = {}
    BY <1>1, <1>4 DEF Clear
  <2>3. OnThreads(hist') /\ \A u \in Threads : Aside(u)
    BY <1>2, <2>2
  <2>4. QED
    BY <1>1, <2>1, <2>2, <2>3, Zenon
<1>5. ASSUME SetEnabled PROVE Right
  <2>1. hist' = [u \in Threads |-> [hist[u] EXCEPT !.disturbed = TRUE, !.alone = FALSE]]
    BY <1>5, Zenon DEF SetEnabled
  <2>8. arrays' = arrays /\ blockers' = blockers /\ internal_modifiers' = internal_modifiers /\ th' = th
    <3>1. UNCHANGED <<arrays, blockers, internal_modifiers, th>>
      BY <1>5, Zenon DEF SetEnabled
    <3>2. QED
      BY <3>1
  <2>5. begun' \in 0 .. Budget
    <3>1. begun < Budget /\ begun' = begun + 1
      BY <1>5, Zenon DEF SetEnabled
    <3>2. QED
      BY <1>1, <3>1
  <2>6. key_enabled' \in BOOLEAN /\ generic_enabled' \in BOOLEAN
    <3>1. \/ key_enabled' = ~ key_enabled /\ generic_enabled' = generic_enabled
          \/ generic_enabled' = ~ generic_enabled /\ key_enabled' = key_enabled
      BY <1>5 DEF SetEnabled
    <3>2. QED
      BY <1>1, <3>1
  <2>2. ASSUME NEW u \in Threads PROVE Aside(u)
    <3> DEFINE h == hist[u]
    <3>1. hist'[u] = [h EXCEPT !.disturbed = TRUE, !.alone = FALSE] /\ h \in Record
      BY <1>1, <2>1
    <3> HIDE DEF h
    <3>2. /\ hist'[u] \in Record /\ hist'[u].called = h.called /\ hist'[u].was = h.was
          /\ hist'[u].before = h.before /\ hist'[u].disturbed /\ ~ hist'[u].alone
      BY <3>1 DEF Record
    <3>3. QED
      BY <2>8, <3>2 DEF Aside, h
  <2>3. AllGood'
    BY <1>1, <2>8 DEF AllGood
  <2>4. OnThreads(hist')
    BY <2>1 DEF OnThreads
  <2>7. QED
    BY <2>2, <2>3, <2>4, <2>5, <2>6, <2>8, Zenon
<1>6. ASSUME UNCHANGED dispatchVars PROVE Right
  <2>1. /\ arrays' = arrays /\ begun' = begun /\ th' = th /\ blockers' = blockers /\ key_enabled' = key_enabled
        /\ generic_enabled' = generic_enabled /\ internal_modifiers' = internal_modifiers /\ hist' = hist
    BY <1>6 DEF dispatchVars, shared
  <2>2. AllGood'
    BY <1>1, <2>1 DEF AllGood
  <2>3. \A u \in Threads : Aside(u)
    BY <1>1, <2>1 DEF Aside
  <2>4. OnThreads(hist')
    BY <2>1 DEF OnThreads, DispatchInv
  <2>5. QED
    BY <1>1, <2>1, <2>2, <2>3, <2>4, Zenon
<1>7. Right
  BY <1>3, <1>4, <1>5, <1>6
<1>8. \A u \in Threads : ThreadInv(u)'
  BY <1>7, Frame DEF DispatchInv
<1>9. \A u \in Threads : hist'[u] \in Record
  BY <1>8 DEF ThreadInv, Typed
<1>10. hist' \in [Threads -> Record]
  BY <1>7, <1>9 DEF OnThreads
<1>11. QED
  BY <1>7, <1>8, <1>10 DEF DispatchInv

-----------------------------------------------------------------------------
(* The theorems *)

\* The arrays that the owner has filled are sorted.
LEMMA FilledGood ==
  ASSUME NEW s \in Seq(Receivers), NEW unique \in BOOLEAN, Len(s) <= Cells, Ascending(s, unique)
  PROVE  Good(Filled(s), unique)
<1> DEFINE arr == Filled(s)
<1>1. arr = [cells |-> [j \in 1 .. Cells |-> IF j <= Len(s) THEN s[j] ELSE Nobody], used |-> Len(s)]
  BY DEF Filled
<1> HIDE DEF arr
<1>2. Len(s) \in 0 .. Cells /\ Cells \in Nat /\ Receivers \subseteq Nat /\ DOMAIN s = 1 .. Len(s)
      /\ \A i \in 1 .. Len(s) : s[i] \in Receivers
  BY Numbers
<1>3. arr.used = Len(s) /\ \A j \in 1 .. Len(s) : arr.cells[j] = s[j]
  BY <1>1, <1>2
<1>4. arr \in Array
  <2>1. \A j \in 1 .. Cells : (IF j <= Len(s) THEN s[j] ELSE Nobody) \in Receivers \cup {Nobody}
    BY <1>2
  <2>2. [j \in 1 .. Cells |-> IF j <= Len(s) THEN s[j] ELSE Nobody] \in [1 .. Cells -> Receivers \cup {Nobody}]
    BY <2>1
  <2>3. QED
    BY <1>1, <1>2, <2>2 DEF Array
<1>5. InOrder(arr, unique)
  <2> SUFFICES ASSUME NEW i \in 1 .. Len(s), NEW j \in 1 .. Len(s), i < j
               PROVE  IF unique THEN s[i] < s[j] ELSE s[i] <= s[j]
    BY <1>3 DEF InOrder
  <2>1. s[i] \in Nat /\ s[j] \in Nat
    BY <1>2
  <2>2. s[i] < s[j] \/ (~ unique /\ s[i] = s[j])
    BY <1>2 DEF Ascending
  <2>3. QED
    BY <2>1, <2>2
<1>6. \A i \in 1 .. arr.used : arr.cells[i] \in Receivers
  BY <1>2, <1>3
<1>7. QED
  BY <1>4, <1>5, <1>6 DEF Good, arr

LEMMA PreparedIs ==
  ASSUME NEW reg, NEW heeded \in SUBSET Receivers, Prepared(reg, heeded),
         \A p \in Places : reg[p] \in Seq(Receivers) /\ Len(reg[p]) <= Cells /\ Ascending(reg[p], Unique(p))
  PROVE  DispatchInv
<1>1. \A p \in Places : Good(Filled(reg[p]), Unique(p))
  <2> TAKE p \in Places
  <2>1. Unique(p) \in BOOLEAN
    BY DEF Unique
  <2>2. QED
    BY <2>1, FilledGood
<1>2. AllGood
  <2>1. arrays = [p \in Places |-> Filled(reg[p])]
    BY DEF Prepared
  <2>2. \A p \in Places : arrays[p] = Filled(reg[p]) /\ Filled(reg[p]) \in Array
    BY <1>1, <2>1, Zenon DEF Good
  <2>3. arrays \in [Places -> Array]
    BY <2>1, <2>2
  <2>4. QED
    BY <1>1, <2>2, <2>3 DEF AllGood
<1>3. /\ th = [t \in Threads |-> Idle] /\ hist = [t \in Threads |-> NoHistory] /\ begun = 0
      /\ internal_modifiers = {} /\ key_enabled = TRUE /\ generic_enabled = TRUE /\ blockers \subseteq Receivers
  BY DEF Prepared
<1>4. NoHistory \in Record /\ NoHistory.called = {} /\ NoHistory.was = {} /\ NoHistory.disturbed
  BY DEF NoHistory, Record
<1>5. ASSUME NEW t \in Threads PROVE ThreadInv(t)
  <2>1. th[t] = Idle /\ th[t].at = "idle" /\ hist[t] = NoHistory
    BY <1>3 DEF Idle
  <2>2. Typed(t) /\ Safe(t) /\ Thorough(t) /\ Heeds(t) /\ Changes(t)
    BY <1>4, <2>1 DEF Typed, Safe, Thorough, Heeds, Changes, At, Heard
  <2>3. QED
    BY <2>2 DEF ThreadInv
<1>6. 0 \in 0 .. Budget
  <2>1. Budget \in Nat
    BY DispatchAssumption, Zenon
  <2>2. QED
    BY <2>1
<1>7. th \in [Threads -> {Idle} \cup Busy] /\ hist \in [Threads -> Record]
  BY <1>3, <1>4
<1>8. QED
  BY <1>2, <1>3, <1>5, <1>6, <1>7 DEF DispatchInv

LEMMA InitIs ==
  ASSUME Init
  PROVE  DispatchInv
<1>1. CASE DispatchInit
  <2>1. PICK reg \in Registered, heeded \in SUBSET Receivers : Prepared(reg, heeded)
    BY <1>1, Zenon DEF DispatchInit
  <2>2. reg \in [Places -> Seq(Receivers)]
        /\ \A p \in Places : Len(reg[p]) <= Cells /\ Ascending(reg[p], Unique(p))
    BY RegistrationAssumption, Zenon
  <2>3. \A p \in Places : reg[p] \in Seq(Receivers)
    BY <2>2
  <2>4. QED
    BY <2>1, <2>2, <2>3, PreparedIs, Zenon
<1>2. CASE NoReceivers
  <2> DEFINE reg == [p \in Places |-> <<>>]
  <2>1. \A p \in Places : reg[p] \in Seq(Receivers) /\ Len(reg[p]) <= Cells /\ Ascending(reg[p], Unique(p))
    BY Numbers DEF Ascending
  <2>2. Prepared(reg, {})
    BY <1>2 DEF NoReceivers
  <2> HIDE DEF reg
  <2>3. QED
    BY <2>1, <2>2, PreparedIs
<1>3. QED
  BY <1>1, <1>2 DEF Init

LEMMA NextKeeps ==
  ASSUME DispatchInv, [Next]_vars
  PROVE  DispatchInv'
<1>1. CASE DispatchNext
  BY <1>1, SendKeepsInv, OwnerKeepsInv DEF DispatchNext, DispatchDone
<1>2. CASE UNCHANGED dispatchVars
  BY <1>2, OwnerKeepsInv
<1>3. QED
  BY <1>1, <1>2 DEF Next, vars

\* However many threads send, receivers come and go and dispatchers are enabled: what
\* the module's invariants need.
THEOREM DispatchInvariant == Spec => []DispatchInv
<1>1. Init => DispatchInv
  BY InitIs
<1>2. DispatchInv /\ [Next]_vars => DispatchInv'
  BY NextKeeps
<1>3. QED
  BY <1>1, <1>2, PTL DEF Spec

\* The arrays of receivers stay sorted, those of the generic dispatcher without
\* duplicates, and every walk is inside the memory of its array.
THEOREM DispatchTyped == Spec => []DispatchTypeOK
<1>1. DispatchInv => DispatchTypeOK
  <2> SUFFICES ASSUME DispatchInv PROVE DispatchTypeOK
    OBVIOUS
  <2>1. ASSUME NEW p \in Places
        PROVE  /\ arrays[p] \in Array
               /\ ToSet(Used(arrays[p])) \subseteq Receivers
               /\ \A i, j \in 1 .. arrays[p].used :
                    i < j => IF Unique(p) THEN arrays[p].cells[i] < arrays[p].cells[j]
                             ELSE arrays[p].cells[i] <= arrays[p].cells[j]
    <3>1. Good(arrays[p], Unique(p))
      BY DEF DispatchInv, AllGood
    <3>2. arrays[p] \in Array /\ (\A i \in 1 .. arrays[p].used : arrays[p].cells[i] \in Receivers)
          /\ InOrder(arrays[p], Unique(p))
      BY <3>1, Zenon DEF Good
    <3>3. ToSet(Used(arrays[p])) = {arrays[p].cells[i] : i \in 1 .. arrays[p].used}
      BY <3>2, Members, Zenon
    <3>4. QED
      BY <3>2, <3>3 DEF InOrder
  <2>2. ASSUME NEW t \in Threads, th[t] # Idle
        PROVE  /\ th[t].at \in {"walk", "store", "passed", "send", "sent"}
               /\ th[t].s \in Signals /\ th[t].op \in {"send", "dispatch"} /\ th[t].pass \in {1, 2}
               /\ ToSet(th[t].plan) \subseteq Places /\ th[t].place \in Places
               /\ th[t].end \in 0 .. Cells /\ th[t].it \in 1 .. th[t].end + 1
               /\ th[t].mods \subseteq Flags /\ th[t].next \in {"passed", "sent"}
    <3>1. th[t] \in Busy /\ th[t].it \in 1 .. th[t].end + 1
      BY <2>2 DEF DispatchInv, ThreadInv, Typed
    <3>2. th[t].plan \in Seq(Places)
      BY <3>1 DEF Busy
    <3>3. ToSet(th[t].plan) \subseteq Places
      BY <3>2 DEF ToSet
    <3>4. QED
      BY <3>1, <3>3 DEF Busy
  <2>3. QED
    BY <2>1, <2>2 DEF DispatchInv, DispatchTypeOK
<1>2. QED
  BY <1>1, DispatchInvariant, PTL

\* A walk calls nobody who was not registered there since its pass began, although
\* receivers add and remove others, and themselves, while they are called.
THEOREM NobodyElseIsCalled == Spec => []CalledWasRegistered
<1>1. DispatchInv => CalledWasRegistered
  BY DEF DispatchInv, ThreadInv, Safe, CalledWasRegistered
<1>2. QED
  BY <1>1, DispatchInvariant, PTL

\* A pass that nobody blocks has called everyone that the signal is for.
THEOREM NobodyIsLeftOut == Spec => []AllCalled
<1>1. DispatchInv => AllCalled
  <2> SUFFICES ASSUME DispatchInv, NEW t \in Threads, At(t, "passed"), ~ hist[t].disturbed
               PROVE  Reached(t) \subseteq Heard(t)
    BY DEF AllCalled, Heard
  <2>1. \A x \in Listed(arrays) : Meant(t, x) => x[2] \in Heard(t)
    BY DEF DispatchInv, ThreadInv, Thorough, Walked
  <2>2. QED
    BY <2>1 DEF Reached, Meant
<1>2. QED
  BY <1>1, DispatchInvariant, PTL

\* The interface is not called when somebody who was to be asked blocks.
THEOREM BlocksAreHeeded == Spec => []BlockersHeeded
<1>1. DispatchInv => BlockersHeeded
  <2> SUFFICES ASSUME DispatchInv, NEW t \in Threads, At(t, "send"), ~ hist[t].disturbed
               PROVE  Reached(t) \cap blockers = {}
    BY DEF BlockersHeeded
  <2>1. (\A x \in Listed(arrays) : Meant(t, x) => x[2] \in Heard(t)) /\ Heard(t) \cap blockers = {}
    BY DEF DispatchInv, ThreadInv, Thorough, Walked, Heeds
  <2>2. Reached(t) \subseteq Heard(t)
    BY <2>1 DEF Reached, Meant
  <2>3. QED
    BY <2>1, <2>2
<1>2. QED
  BY <1>1, DispatchInvariant, PTL

\* A signal changes the modifiers once, in however many passes it is dispatched.
THEOREM ModifiersChangeOnce == Spec => []AppliedOnce
<1>1. DispatchInv => AppliedOnce
  <2> SUFFICES ASSUME DispatchInv, NEW t \in Threads, Returning(t), hist[t].alone, ~ Undone(t)
               PROVE  internal_modifiers = Expected(t)
    BY DEF AppliedOnce
  <2>1. th[t] # Idle /\ Changes(t)
    BY DEF Returning, At, Idle, DispatchInv, ThreadInv
  <2>2. CASE At(t, "sent")
    BY <2>1, <2>2 DEF Changes
  <2>3. CASE At(t, "passed") /\ th[t].op = "dispatch"
    <3>1. internal_modifiers = Left(t) /\ ~ At(t, "sent")
      BY <2>1, <2>3 DEF Changes, At
    <3>2. QED
      BY <3>1 DEF Left, Expected
  <2>4. QED
    BY <2>2, <2>3 DEF Returning
<1>2. QED
  BY <1>1, DispatchInvariant, PTL

-----------------------------------------------------------------------------
(* The trigger: what a call knows of the stages while it walks.            *)

\* Whether the call leaves stage j activated, if it does not complete the trigger.
After(j, x) == IF j \in before THEN Resembles(stages[j], x)
               ELSE j - 1 \in before /\ Equals(stages[j], x)

\* The stages a walk has passed are as the signal leaves them, the others as they were.
StagesPassed(call) ==
  /\ Count > 1 /\ call.i \in 1 .. Count
  /\ ~ (Count - 1 \in before /\ Equals(stages[Count], call.x))
  /\ \A j \in 1 .. call.i : activated[j] <=> j \in before
  /\ \A j \in call.i + 1 .. Count : activated[j] <=> After(j, call.x)
  /\ call.block <=> \E j \in call.i + 1 .. Count : activated[j] /\ stages[j].blocking

\* No stage is activated, or about to be, beyond the stages that were matched in order.
Chained ==
  /\ chain[2] >= 1
  /\ \A j \in 1 .. Count : activated[j] => chain[2] >= j
  /\ ~ InFunction => \A j \in 2 .. Count : j - 1 \in before /\ Equals(stages[j], Top.x) => chain[2] >= j

\* The last stage is never left activated, and what a call began with is not forgotten.
StagedInv ==
  /\ StagedTypeOK
  /\ \A j \in 1 .. Count : j = Count => ~ activated[j]
  /\ ~ InFunction => before \subseteq 1 .. Count /\ Count \notin before
  /\ CallAt("last") => before = Active /\ ~ Top.block
  /\ CallAt("walk") => StagesPassed(Top)
  /\ Chained

\* The stages are an array of stages.
LEMMA StagesAre ==
  ASSUME StagedTypeOK
  PROVE  /\ stages \in Seq(Stage) /\ Count \in Nat /\ DOMAIN stages = 1 .. Count
         /\ \A j \in 1 .. Count : /\ stages[j] \in Stage /\ stages[j].blocking \in BOOLEAN
                                  /\ activated[j] \in BOOLEAN
<1>1. stages \in Seq(Stage)
  BY StagedAssumption DEF StagedTypeOK
<1>2. \A j \in 1 .. Count : stages[j] \in Stage
  BY <1>1 DEF Count
<1>3. DOMAIN stages = 1 .. Count /\ Count \in Nat
  BY <1>1 DEF Count
<1> QED BY <1>1, <1>2, <1>3 DEF StagedTypeOK, Stage

\* The calls when there is one more.
LEMMA Inner ==
  ASSUME NEW c \in Call, NEW rest \in Seq(Call)
  PROVE  /\ <<c>> \o rest \in Seq(Call) /\ <<c>> \o rest # <<>>
         /\ Head(<<c>> \o rest) = c /\ Tail(<<c>> \o rest) = rest
         /\ Len(<<c>> \o rest) = Len(rest) + 1
         /\ \A k \in 2 .. Len(rest) + 1 : (<<c>> \o rest)[k] = rest[k - 1]
<1>1. <<c>> \in Seq(Call) /\ Len(<<c>>) = 1
  OBVIOUS
<1>2. /\ <<c>> \o rest \in Seq(Call) /\ Len(<<c>> \o rest) = Len(rest) + 1
      /\ (<<c>> \o rest)[1] = c
      /\ \A k \in 2 .. Len(rest) + 1 : (<<c>> \o rest)[k] = rest[k - 1]
  BY <1>1
<1>3. <<c>> \o rest # <<>> /\ Head(<<c>> \o rest) = c
  BY <1>2
<1>4. Tail(<<c>> \o rest) = rest
  BY <1>1, <1>2, <1>3
<1> QED BY <1>2, <1>3, <1>4

\* The calls around the innermost one are in the function of the trigger.
LEMMA Outer ==
  ASSUME StagedTypeOK, calls # <<>>
  PROVE  /\ Top \in Call /\ Tail(calls) \in Seq(Call) /\ Len(Tail(calls)) = Len(calls) - 1
         /\ Len(calls) \in Nat /\ Len(calls) >= 1
         /\ \A k \in 1 .. Len(calls) - 1 : Tail(calls)[k].at = "function"
         /\ Tail(calls) # <<>> => Head(Tail(calls)).at = "function"
<1>1. calls \in Seq(Call) /\ Len(calls) \in Nat /\ Len(calls) >= 1
  BY DEF StagedTypeOK
<1>2. Top \in Call /\ Tail(calls) \in Seq(Call) /\ Len(Tail(calls)) = Len(calls) - 1
  BY <1>1 DEF Top
<1>3. \A k \in 1 .. Len(calls) - 1 : Tail(calls)[k] = calls[k + 1]
  BY <1>1
<1>4. \A k \in 1 .. Len(calls) - 1 : Tail(calls)[k].at = "function"
  BY <1>1, <1>3 DEF StagedTypeOK
<1>5. Tail(calls) # <<>> => Head(Tail(calls)) = Tail(calls)[1] /\ Len(calls) - 1 >= 1
  BY <1>2
<1> QED BY <1>1, <1>2, <1>4, <1>5

\* What the comparisons of a stage come to is true or false.
LEMMA Comparisons ==
  ASSUME NEW stage, NEW x
  PROVE  Equals(stage, x) \in BOOLEAN /\ Resembles(stage, x) \in BOOLEAN
<1>1. Equals(stage, x) \in BOOLEAN
  BY DEF Equals
<1>2. CASE x.signal = NoSignal
  BY <1>1, <1>2 DEF Resembles
<1>3. CASE x.signal # NoSignal
  BY <1>1, <1>3 DEF Resembles
<1> QED BY <1>2, <1>3

-----------------------------------------------------------------------------
(* The steps of a call.                                                    *)

\* The calls as they are after a step: the innermost call at a point of the walk, or gone.
LEMMA Continued ==
  ASSUME StagedTypeOK, calls # <<>>, NEW c \in Call, Continue(c)
  PROVE  /\ calls' \in Seq(Call) /\ calls' # <<>> /\ Len(calls') <= Depth /\ Top' = c
         /\ \A k \in 2 .. Len(calls') : calls'[k].at = "function"
<1>1. calls' = <<c>> \o Tail(calls)
  BY DEF Continue
<1>2. calls' \in Seq(Call) /\ calls' # <<>> /\ Len(calls') = Len(calls) /\ Head(calls') = c
  BY <1>1, Outer, Inner
<1>3. \A k \in 2 .. Len(calls') : calls'[k] = Tail(calls)[k - 1]
  BY <1>1, <1>2, Outer, Inner
<1>4. ASSUME NEW k \in 2 .. Len(calls') PROVE calls'[k].at = "function"
  <2>1. k - 1 \in 1 .. Len(calls) - 1
    BY <1>2, Outer
  <2> QED BY <1>3, <2>1, Outer
<1> QED BY <1>2, <1>4 DEF StagedTypeOK, Top

LEMMA Returned ==
  ASSUME StagedTypeOK, calls # <<>>, calls' = Tail(calls)
  PROVE  /\ calls' \in Seq(Call) /\ Len(calls') <= Depth /\ InFunction'
         /\ \A k \in 2 .. Len(calls') : calls'[k].at = "function"
<1>1. calls' \in Seq(Call) /\ Len(calls') = Len(calls) - 1 /\ InFunction'
  BY Outer DEF InFunction, Top
<1>2. \A k \in 2 .. Len(calls') : calls'[k].at = "function"
  BY <1>1, Outer
<1> QED BY <1>1, <1>2, StagedAssumption, Outer DEF StagedTypeOK

\* What holds when all stages are off, in the function or between two calls.
LEMMA AllAreOff ==
  ASSUME StagedTypeOK', InFunction', chain' = NoChain, \A j \in 1 .. Count' : ~ activated'[j]
  PROVE  StagedInv'
<1>1. ~ CallAt("last")' /\ ~ CallAt("walk")'
  BY DEF InFunction, CallAt
<1>2. chain'[2] = 1
  BY DEF NoChain
<1>3. Chained'
  BY <1>2 DEF Chained
<1> QED BY <1>1, <1>3 DEF StagedInv

LEMMA CompleteKeeps ==
  ASSUME StagedInv, calls # <<>>, NEW b \in BOOLEAN, Complete(b), UNCHANGED <<stages, made, before>>
  PROVE  StagedInv'
<1> DEFINE c == [Top EXCEPT !.at = "function", !.block = b]
<1>1. StagedTypeOK /\ calls # <<>>
  BY DEF StagedInv
<1>2. c \in Call /\ c.at = "function" /\ Continue(c)
  BY <1>1, Outer DEF Call, Complete
<1> HIDE DEF c
<1>3. /\ calls' \in Seq(Call) /\ calls' # <<>> /\ Len(calls') <= Depth /\ Top' = c
      /\ \A k \in 2 .. Len(calls') : calls'[k].at = "function"
  BY <1>1, <1>2, Continued
<1>4. InFunction'
  BY <1>2, <1>3 DEF InFunction
<1>5. activated' = [i \in DOMAIN stages |-> FALSE] /\ chain' = NoChain
      /\ result' = [completed |-> TRUE, blocked |-> b]
  BY DEF Complete, AllOff
<1>6. ~ CallAt("walk")'
  BY <1>4 DEF InFunction, CallAt
<1>7. StagedTypeOK'
  <2>1. activated' \in [DOMAIN stages' -> BOOLEAN] /\ result' \in Result /\ chain' \in [1 .. 2 -> Nat]
    BY <1>5 DEF Result, NoChain
  <2> QED BY <1>1, <1>3, <1>4, <1>6, <2>1 DEF StagedTypeOK
<1>8. \A j \in 1 .. Count' : ~ activated'[j]
  BY <1>1, <1>5, StagesAre DEF Count
<1> QED BY <1>4, <1>5, <1>7, <1>8, AllAreOff

\* A call begins at the last stage; the chains have counted its signal.
LEMMA ReceiptKeeps ==
  ASSUME StagedInv, ReceiveBegins
  PROVE  StagedInv'
<1>1. PICK x \in Interceptions :
        /\ calls' = <<[at |-> "last", x |-> x, i |-> Count, block |-> FALSE]>> \o calls
        /\ chain' = Extended(x)
  BY DEF ReceiveBegins
<1>2. /\ StagedTypeOK /\ InFunction /\ Len(calls) < Depth /\ made < MaxCalls /\ made' = made + 1
      /\ before' = Active /\ UNCHANGED <<stages, activated, result>>
  BY DEF ReceiveBegins, StagedInv
<1>3. /\ stages \in Seq(Stage) /\ Count \in Nat /\ DOMAIN stages = 1 .. Count /\ Count' = Count
      /\ \A j \in 1 .. Count : activated[j] \in BOOLEAN
  BY <1>2, StagesAre DEF Count
<1> DEFINE c == [at |-> "last", x |-> x, i |-> Count, block |-> FALSE]
<1>4. c \in Call /\ c.at = "last" /\ c.i = Count /\ c.x = x /\ ~ c.block
  BY <1>3 DEF Call
<1> HIDE DEF c
<1>5. calls \in Seq(Call) /\ calls' = <<c>> \o calls
  BY <1>1, <1>2 DEF StagedTypeOK, c
<1>6. calls' \in Seq(Call) /\ calls' # <<>> /\ Head(calls') = c /\ Len(calls') = Len(calls) + 1
      /\ \A k \in 2 .. Len(calls) + 1 : calls'[k] = calls[k - 1]
  BY <1>4, <1>5, Inner
<1>7. Top' = c /\ ~ InFunction' /\ ~ CallAt("walk")' /\ CallAt("last")'
  BY <1>4, <1>6 DEF Top, InFunction, CallAt
<1>8. \A k \in 2 .. Len(calls') : calls'[k].at = "function"
  <2> SUFFICES ASSUME NEW k \in 2 .. Len(calls') PROVE calls[k - 1].at = "function"
    BY <1>6
  <2>1. k - 1 \in 1 .. Len(calls)
    BY <1>5, <1>6
  <2>2. CASE k = 2
    BY <1>2, <1>5, <2>1, <2>2 DEF InFunction, Top
  <2>3. CASE k # 2
    <3>1. k - 1 \in 2 .. Len(calls)
      BY <1>5, <2>1, <2>3
    <3> QED BY <1>2, <3>1 DEF StagedTypeOK
  <2> QED BY <2>2, <2>3
<1>9. chain \in [1 .. 2 -> Nat] /\ chain'[2] = IF chain[2] < Count /\ Equals(stages[chain[2] + 1], x)
                                                THEN chain[2] + 1 ELSE chain[2]
  BY <1>1, <1>2 DEF StagedTypeOK, Extended
<1>10. before' \subseteq 1 .. Count /\ Active' = before' /\ \A j \in 1 .. Count : j \in before' <=> activated[j]
  BY <1>2, <1>3 DEF Active
<1>11. StagedTypeOK'
  <2>1. chain' \in [1 .. 2 -> Nat]
    BY <1>1, <1>9 DEF Extended
  <2>2. before' \subseteq Nat
    BY <1>10, <1>3
  <2>3. made' \in 0 .. MaxCalls /\ Len(calls') <= Depth
    BY <1>2, <1>5, <1>6, StagedAssumption DEF StagedTypeOK
  <2>4. Top'.i \in 0 .. Count'
    BY <1>3, <1>4, <1>7
  <2> QED BY <1>2, <1>6, <1>7, <1>8, <2>1, <2>2, <2>3, <2>4 DEF StagedTypeOK
<1>12. Chained'
  <2>1. chain[2] >= 1 /\ \A j \in 1 .. Count : activated[j] => chain[2] >= j
    BY DEF StagedInv, Chained
  <2>2. chain'[2] >= chain[2] /\ chain[2] \in Nat /\ chain'[2] \in Nat
    BY <1>9
  <2>3. ASSUME NEW j \in 2 .. Count, j - 1 \in before', Equals(stages[j], x)
        PROVE  chain'[2] >= j
    <3>1. activated[j - 1] /\ chain[2] >= j - 1
      BY <1>3, <1>10, <2>1, <2>3
    <3>2. CASE chain[2] >= j
      BY <2>2, <3>2
    <3>3. CASE chain[2] = j - 1
      BY <1>3, <1>9, <2>3, <3>3
    <3> QED BY <2>2, <3>1, <3>2, <3>3
  <2>4. chain'[2] >= 1 /\ \A j \in 1 .. Count : activated[j] => chain'[2] >= j
    BY <1>3, <2>1, <2>2
  <2> QED BY <1>2, <1>3, <1>4, <1>7, <2>3, <2>4 DEF Chained
<1> QED BY <1>2, <1>3, <1>4, <1>7, <1>10, <1>11, <1>12 DEF StagedInv

\* A call that returns leaves the flags in order.
LEMMA AnswerKeeps ==
  ASSUME StagedInv, calls # <<>>, NEW b \in BOOLEAN, Return(b), UNCHANGED <<stages, made, before, chain>>,
         activated' \in [DOMAIN stages -> BOOLEAN],
         \A j \in 1 .. Count : activated'[j] => chain[2] >= j /\ j # Count
  PROVE  StagedInv'
<1>1. StagedTypeOK /\ Count' = Count
  BY DEF StagedInv, Count
<1>2. /\ calls' \in Seq(Call) /\ Len(calls') <= Depth /\ InFunction'
      /\ \A k \in 2 .. Len(calls') : calls'[k].at = "function"
  BY <1>1, Returned DEF Return
<1>3. ~ CallAt("last")' /\ ~ CallAt("walk")'
  BY <1>2 DEF InFunction, CallAt
<1>4. StagedTypeOK'
  <2>1. result' \in Result
    BY DEF Return, Result
  <2> QED BY <1>1, <1>2, <1>3, <2>1 DEF StagedTypeOK
<1>5. Chained'
  BY <1>1, <1>2 DEF StagedInv, Chained
<1> QED BY <1>1, <1>2, <1>3, <1>4, <1>5 DEF StagedInv

\* A call that goes on at a stage before leaves the flags in order, and knows it.
LEMMA WalkOn ==
  ASSUME StagedInv, calls # <<>>, ~ InFunction, NEW c \in Call, Continue(c),
         c.at = "walk", c.x = Top.x,
         UNCHANGED <<stages, made, before, result, chain>>,
         activated' \in [DOMAIN stages -> BOOLEAN],
         \A j \in 1 .. Count : activated'[j] => chain[2] >= j /\ j # Count,
         Count > 1, c.i \in 1 .. Count,
         ~ (Count - 1 \in before /\ Equals(stages[Count], c.x)),
         \A j \in 1 .. c.i : activated'[j] <=> j \in before,
         \A j \in c.i + 1 .. Count : activated'[j] <=> After(j, c.x),
         c.block <=> \E j \in c.i + 1 .. Count : activated'[j] /\ stages[j].blocking
  PROVE  StagedInv'
<1>1. StagedTypeOK /\ Count' = Count
  BY DEF StagedInv, Count
<1>2. /\ calls' \in Seq(Call) /\ calls' # <<>> /\ Len(calls') <= Depth /\ Top' = c
      /\ \A k \in 2 .. Len(calls') : calls'[k].at = "function"
  BY <1>1, Continued
<1>3. ~ InFunction' /\ ~ CallAt("last")'
  BY <1>2 DEF InFunction, CallAt
<1>4. StagedTypeOK'
  BY <1>1, <1>2, <1>3 DEF StagedTypeOK, CallAt
<1>5. StagesPassed(Top)'
  <2>1. \A j : After(j, c.x)' <=> After(j, c.x)
    BY DEF After
  <2> QED BY <1>1, <1>2, <2>1 DEF StagesPassed, After
<1>6. Chained'
  BY <1>1, <1>2 DEF StagedInv, Chained
<1> QED BY <1>1, <1>2, <1>3, <1>4, <1>5, <1>6 DEF StagedInv

LEMMA LastKeeps ==
  ASSUME StagedInv, CheckLast
  PROVE  StagedInv'
<1>1. /\ StagedTypeOK /\ CallAt("last") /\ calls # <<>> /\ ~ InFunction
      /\ UNCHANGED <<stages, made, before>> /\ before = Active /\ ~ Top.block
  BY DEF CheckLast, StagedInv, CallAt, InFunction
<1>2. /\ Count \in Nat /\ DOMAIN stages = 1 .. Count /\ Top \in Call
      /\ \A j \in 1 .. Count : activated[j] \in BOOLEAN /\ stages[j].blocking \in BOOLEAN
  BY <1>1, StagesAre, Outer
<1>3. CASE Count = 0 /\ Complete(FALSE)
  BY <1>1, <1>3, CompleteKeeps
<1>4. CASE Count # 0 /\ Complete(stages[Count].blocking)
  <2>1. stages[Count].blocking \in BOOLEAN
    BY <1>2, <1>4
  <2> QED BY <1>1, <1>4, <2>1, CompleteKeeps
<1>5. CASE Count = 1 /\ Return(FALSE) /\ UNCHANGED <<activated, chain>>
  <2>1. \A j \in 1 .. Count : activated'[j] => chain[2] >= j /\ j # Count
    BY <1>5 DEF StagedInv, Chained
  <2> QED BY <1>1, <1>5, <2>1, AnswerKeeps DEF StagedTypeOK
<1>6. CASE /\ Count > 1 /\ ~ (MayComplete /\ Equals(stages[Count], Top.x))
           /\ Continue([Top EXCEPT !.at = "walk", !.i = IF MayComplete THEN Count - 1 ELSE Count])
           /\ UNCHANGED <<activated, chain, result>>
  <2> DEFINE n == IF MayComplete THEN Count - 1 ELSE Count
             c == [Top EXCEPT !.at = "walk", !.i = n]
  <2>1. n \in 1 .. Count /\ n \in Nat
    BY <1>2, <1>6
  <2>2. Continue(c)
    BY <1>6
  <2> HIDE DEF n
  <2>3. c \in Call /\ c.at = "walk" /\ c.i = n /\ c.x = Top.x /\ c.block = Top.block
    BY <1>2, <2>1 DEF Call
  <2> HIDE DEF c
  <2>4. \A j \in 1 .. Count : activated[j] <=> j \in before
    BY <1>1, <1>2 DEF Active
  <2>5. MayComplete <=> Count - 1 \in before
    BY <1>2, <1>6, <2>4 DEF MayComplete
  <2>6. ~ (Count - 1 \in before /\ Equals(stages[Count], c.x)) /\ Count \notin before
    BY <1>1, <1>6, <2>3, <2>5 DEF StagedInv
  <2>7. \A j \in n + 1 .. Count : j = Count
    BY <1>2 DEF n
  <2>8. ~ activated[Count] /\ ~ After(Count, c.x)
    BY <1>2, <1>6, <2>4, <2>6 DEF After
  <2>9. \A j \in 1 .. Count : activated'[j] => chain[2] >= j /\ j # Count
    BY <1>6 DEF StagedInv, Chained
  <2>10. \A j \in 1 .. n : activated'[j] <=> j \in before
    BY <1>2, <1>6, <2>1, <2>4
  <2>11. \A j \in n + 1 .. Count : ~ activated'[j] /\ (activated'[j] <=> After(j, c.x))
    BY <1>6, <2>7, <2>8
  <2> QED BY <1>1, <1>6, <2>1, <2>2, <2>3, <2>6, <2>9, <2>10, <2>11, WalkOn DEF StagedTypeOK
<1> QED BY <1>3, <1>4, <1>5, <1>6 DEF CheckLast

LEMMA WalkKeeps ==
  ASSUME StagedInv, Walk
  PROVE  StagedInv'
<1> DEFINE i == Top.i
           x == Top.x
           c == [Top EXCEPT !.i = Top.i - 1, !.block = Top.block \/ (On(Top.i) /\ stages[Top.i].blocking)]
<1>1. /\ StagedTypeOK /\ CallAt("walk") /\ calls # <<>> /\ ~ InFunction /\ StagesPassed(Top) /\ i > 1
      /\ UNCHANGED <<stages, made, before, result, chain>>
      /\ activated' = [activated EXCEPT ![i] = On(i)] /\ Continue(c)
  BY DEF Walk, StagedInv, CallAt, InFunction
<1>2. /\ Count \in Nat /\ DOMAIN stages = 1 .. Count /\ Top \in Call /\ activated \in [1 .. Count -> BOOLEAN]
      /\ \A j \in 1 .. Count : activated[j] \in BOOLEAN /\ stages[j].blocking \in BOOLEAN
  BY <1>1, StagesAre, Outer DEF StagedTypeOK
<1>3. i \in 2 .. Count /\ i \in Nat /\ i - 1 \in 1 .. i
  BY <1>1, <1>2 DEF StagesPassed
<1>4. On(i) \in BOOLEAN /\ (On(i) <=> After(i, x))
  <2>1. (activated[i] <=> i \in before) /\ (activated[i - 1] <=> i - 1 \in before)
    BY <1>1, <1>2, <1>3 DEF StagesPassed
  <2>2. Equals(stages[i], x) \in BOOLEAN /\ Resembles(stages[i], x) \in BOOLEAN
    BY Comparisons
  <2>3. CASE activated[i]
    BY <2>1, <2>2, <2>3 DEF On, After
  <2>4. CASE ~ activated[i]
    <3>1. On(i) = (activated[i - 1] /\ Equals(stages[i], x))
      BY <2>4 DEF On
    <3> QED BY <2>1, <2>2, <2>4, <3>1 DEF After
  <2> QED BY <1>2, <1>3, <2>3, <2>4
<1>5. c \in Call /\ c.at = "walk" /\ c.i = i - 1 /\ c.x = x
      /\ c.block = (Top.block \/ (On(i) /\ stages[i].blocking))
  <2> DEFINE b == Top.block \/ (On(Top.i) /\ stages[Top.i].blocking)
             n == Top.i - 1
  <2>1. b \in BOOLEAN /\ n \in Nat
    BY <1>3
  <2>2. c = [Top EXCEPT !.i = n, !.block = b]
    OBVIOUS
  <2> HIDE DEF b, n, c
  <2>3. c \in Call /\ c.at = Top.at /\ c.i = n /\ c.x = x /\ c.block = b
    BY <1>2, <2>1, <2>2 DEF Call
  <2> QED BY <1>1, <2>3 DEF b, n, CallAt
<1> HIDE DEF c
<1>6. /\ activated' \in [1 .. Count -> BOOLEAN] /\ activated'[i] = On(i)
      /\ \A j \in 1 .. Count : j # i => activated'[j] = activated[j]
  BY <1>1, <1>2, <1>3, <1>4
<1>7. \A j \in 1 .. Count : activated'[j] => chain[2] >= j /\ j # Count
  <2>1. \A j \in 1 .. Count : activated[j] => chain[2] >= j /\ j # Count
    BY DEF StagedInv, Chained
  <2>2. i \in before => chain[2] >= i /\ i # Count
    BY <1>1, <1>3, <2>1 DEF StagesPassed
  <2>3. i \notin before /\ After(i, x) => chain[2] >= i /\ i # Count
    <3>1. i - 1 \in before /\ Equals(stages[i], x) => chain[2] >= i
      BY <1>1, <1>3 DEF StagedInv, Chained
    <3> QED BY <1>1, <3>1 DEF After, StagesPassed
  <2> QED BY <1>4, <1>6, <2>1, <2>2, <2>3
<1>8. \A j \in 1 .. i - 1 : activated'[j] <=> j \in before
  BY <1>1, <1>2, <1>3, <1>6 DEF StagesPassed
<1>9. \A j \in i .. Count : activated'[j] <=> After(j, x)
  <2>1. \A j \in i + 1 .. Count : activated'[j] <=> After(j, x)
    BY <1>1, <1>2, <1>3, <1>6 DEF StagesPassed
  <2> QED BY <1>2, <1>3, <1>4, <1>6, <2>1
<1>10. c.block <=> \E j \in i .. Count : activated'[j] /\ stages[j].blocking
  <2>1. Top.block <=> \E j \in i + 1 .. Count : activated[j] /\ stages[j].blocking
    BY <1>1 DEF StagesPassed
  <2>2. \A j \in i + 1 .. Count : activated'[j] = activated[j] /\ j \in i .. Count
    BY <1>2, <1>3, <1>6
  <2>3. \A j \in i .. Count : j = i \/ j \in i + 1 .. Count
    BY <1>2, <1>3
  <2>4. i \in i .. Count
    BY <1>3
  <2> QED BY <1>5, <1>6, <2>1, <2>2, <2>3, <2>4
<1>11. i - 1 + 1 = i /\ i - 1 \in 1 .. Count
  BY <1>2, <1>3
<1>12. Count > 1 /\ ~ (Count - 1 \in before /\ Equals(stages[Count], x))
  BY <1>1 DEF StagesPassed
<1> HIDE DEF x
<1> HIDE DEF i
<1>13. c.x = Top.x
  BY <1>5 DEF x
<1> QED BY <1>1, <1>2, <1>5, <1>6, <1>7, <1>8, <1>9, <1>10, <1>11, <1>12, <1>13, WalkOn

LEMMA FirstKeeps ==
  ASSUME StagedInv, First
  PROVE  StagedInv'
<1> DEFINE b == Top.block \/ (Equals(stages[1], Top.x) /\ stages[1].blocking)
<1>1. /\ StagedTypeOK /\ calls # <<>> /\ ~ InFunction /\ StagesPassed(Top)
      /\ UNCHANGED <<stages, made, before, chain>>
      /\ activated' = [activated EXCEPT ![1] = TRUE] /\ Return(b)
  BY DEF First, StagedInv, CallAt, InFunction
<1>2. /\ Count \in Nat /\ Count > 1 /\ DOMAIN stages = 1 .. Count /\ activated \in [1 .. Count -> BOOLEAN]
  BY <1>1, StagesAre DEF StagedTypeOK, StagesPassed
<1>3. /\ activated' \in [1 .. Count -> BOOLEAN]
      /\ \A j \in 1 .. Count : j # 1 => activated'[j] = activated[j]
  BY <1>1, <1>2
<1>4. \A j \in 1 .. Count : activated'[j] => chain[2] >= j /\ j # Count
  BY <1>2, <1>3 DEF StagedInv, Chained
<1>5. b \in BOOLEAN
  OBVIOUS
<1> HIDE DEF b
<1> QED BY <1>1, <1>2, <1>3, <1>4, <1>5, AnswerKeeps

\* The function of the trigger returns, or its owner switches it off or gives it other stages.
LEMMA OwnerKeeps ==
  ASSUME StagedInv, FunctionReturns \/ mcr_Staged_deactivate \/ Replace
  PROVE  StagedInv'
<1>1. StagedTypeOK
  BY DEF StagedInv
<1>2. CASE FunctionReturns
  <2>1. /\ calls # <<>> /\ InFunction /\ calls' = Tail(calls)
        /\ UNCHANGED <<stages, activated, made, before, result, chain>>
    BY <1>2 DEF FunctionReturns, CallAt, InFunction
  <2>2. /\ calls' \in Seq(Call) /\ Len(calls') <= Depth /\ InFunction'
        /\ \A k \in 2 .. Len(calls') : calls'[k].at = "function"
    BY <1>1, <2>1, Returned
  <2>3. ~ CallAt("last")' /\ ~ CallAt("walk")' /\ Count' = Count
    BY <2>1, <2>2 DEF InFunction, CallAt, Count
  <2>4. StagedTypeOK'
    BY <1>1, <2>1, <2>2, <2>3 DEF StagedTypeOK
  <2>5. Chained'
    BY <2>1, <2>2, <2>3 DEF StagedInv, Chained
  <2> QED BY <2>1, <2>2, <2>3, <2>4, <2>5 DEF StagedInv
<1>3. ASSUME Owned, UNCHANGED <<calls, before, result>>, stages' \in Sources \cup Copies \cup {<<>>},
             activated' = [j \in DOMAIN stages' |-> FALSE]
      PROVE  StagedInv'
  <2>1. InFunction' /\ Top' = Top /\ ~ CallAt("walk")'
    BY <1>3 DEF Owned, InFunction, Top, CallAt
  <2>2. made' \in 0 .. MaxCalls
    BY <1>1, <1>3, StagedAssumption DEF Owned, StagedTypeOK
  <2>3. chain' = NoChain /\ chain' \in [1 .. 2 -> Nat]
    BY <1>3 DEF Owned, NoChain
  <2>4. activated' \in [DOMAIN stages' -> BOOLEAN]
    BY <1>3
  <2>5. StagedTypeOK'
    BY <1>1, <1>3, <2>1, <2>2, <2>3, <2>4 DEF StagedTypeOK
  <2>6. DOMAIN stages' = 1 .. Count'
    <3>1. (stages \in Seq(Stage))'
      BY <1>3, StagedAssumption
    <3> QED BY <3>1 DEF Count
  <2> QED BY <1>3, <2>1, <2>3, <2>5, <2>6, AllAreOff
<1>4. CASE mcr_Staged_deactivate
  BY <1>1, <1>3, <1>4 DEF mcr_Staged_deactivate, AllOff, StagedTypeOK
<1>5. CASE Replace
  BY <1>3, <1>5 DEF Replace, FreshFlags
<1> QED BY <1>2, <1>4, <1>5

LEMMA StagedBegins ==
  ASSUME NEW s \in Sources \cup {<<>>}, Begins(s)
  PROVE  StagedInv
<1>1. InFunction /\ ~ CallAt("last") /\ ~ CallAt("walk")
  BY DEF Begins, InFunction, CallAt
<1>2. StagedTypeOK
  BY <1>1, StagedAssumption DEF Begins, StagedTypeOK, Result
<1>3. \A j \in 1 .. Count : ~ activated[j]
  BY <1>2, StagesAre DEF Begins
<1>4. Chained
  <2>1. chain[2] = 1
    BY DEF Begins
  <2> QED BY <1>1, <1>3, <2>1 DEF Chained
<1> QED BY <1>1, <1>2, <1>3, <1>4 DEF StagedInv

LEMMA StagedStep == StagedInv /\ [StagedNext]_stagedVars => StagedInv'
<1> SUFFICES ASSUME StagedInv, [StagedNext]_stagedVars PROVE StagedInv'
  OBVIOUS
<1>1. CASE UNCHANGED stagedVars
  BY <1>1 DEF stagedVars, StagedInv, StagedTypeOK, Chained, StagesPassed, After, InFunction, CallAt, Top, Count, Active
<1>2. CASE mcr_Staged_receive
  BY <1>2, ReceiptKeeps, LastKeeps, WalkKeeps, FirstKeeps, OwnerKeeps DEF mcr_Staged_receive
<1> QED BY <1>1, <1>2, OwnerKeeps DEF StagedNext, StagedDone

-----------------------------------------------------------------------------
(* The trigger matches in one step.                                        *)

\* The signal that completes the trigger, with the flags of before it.
LEMMA CompleteMatches ==
  ASSUME StagedInv, CallAt("last"), NEW b \in BOOLEAN, Complete(b), UNCHANGED stages,
         b <=> Count # 0 /\ stages[Count].blocking,
         Count # 0 => MayComplete /\ Equals(stages[Count], Top.x)
  PROVE  Matching!Next
<1>1. StagedTypeOK /\ calls # <<>> /\ ~ InFunction /\ before = Active
  BY DEF StagedInv, CallAt, InFunction
<1>2. /\ Count \in Nat /\ DOMAIN stages = 1 .. Count /\ Top \in Call /\ Top.x \in Interceptions
      /\ \A j \in 1 .. Count : activated[j] \in BOOLEAN /\ stages[j].blocking \in BOOLEAN
  BY <1>1, StagesAre, Outer DEF Call
<1>3. InFunction'
  <2> DEFINE c == [Top EXCEPT !.at = "function", !.block = b]
  <2>1. c \in Call /\ c.at = "function" /\ Continue(c)
    BY <1>2 DEF Call, Complete
  <2> HIDE DEF c
  <2>2. Top' = c
    BY <1>1, <2>1, Continued
  <2> QED BY <2>1, <2>2 DEF InFunction
<1>4. Active' = {} /\ stages' = stages
  BY DEF Complete, AllOff, Active
<1>5. result' = [completed |-> TRUE, blocked |-> Count # 0 /\ stages[Count].blocking]
  <2>1. b = (Count # 0 /\ stages[Count].blocking)
    BY <1>2
  <2> QED BY <2>1 DEF Complete
<1>6. Count # 0 => (Count = 1 \/ Count - 1 \in before) /\ Equals(stages[Count], Top.x)
  BY <1>1, <1>2 DEF MayComplete, Active
<1>7. Matching!Complete(Top.x)
  BY <1>1, <1>3, <1>4, <1>5, <1>6
     DEF Matching!Complete, Matching!Completes, Matching!Last, Matching!Blocking, Count
<1> QED BY <1>2, <1>7 DEF Matching!Next

\* The signal that does not, when the walk has come to its end.
LEMMA AdvanceMatches ==
  ASSUME StagedInv, ~ InFunction, NEW b \in BOOLEAN, Return(b), UNCHANGED stages,
         Count # 0, ~ ((Count = 1 \/ Count - 1 \in before) /\ Equals(stages[Count], Top.x)),
         Count = 1 => Active' = before,
         Count # 1 => Active' = {1} \cup {j \in 2 .. Count - 1 : After(j, Top.x)},
         b <=> Count # 1 /\ \E j \in Active' : stages[j].blocking /\ (j = 1 => Equals(stages[1], Top.x))
  PROVE  Matching!Next
<1>1. StagedTypeOK /\ calls # <<>>
  BY DEF StagedInv, InFunction
<1>2. Top \in Call /\ Top.x \in Interceptions /\ InFunction'
  BY <1>1, Outer, Returned DEF Call, Return
<1>3. Active' = IF Count = 1 THEN before
                ELSE {1} \cup {i \in 2 .. Count - 1 :
                         IF i \in before THEN Resembles(stages[i], Top.x)
                         ELSE i - 1 \in before /\ Equals(stages[i], Top.x)}
  BY DEF After
<1>4. result' = [completed |-> FALSE,
                 blocked |-> Count # 1 /\
                   \E i \in Active' : stages[i].blocking /\ (i = 1 => Equals(stages[1], Top.x))]
  <2>1. b = (Count # 1 /\ \E i \in Active' : stages[i].blocking /\ (i = 1 => Equals(stages[1], Top.x)))
    OBVIOUS
  <2> QED BY <2>1 DEF Return
<1>5. ~ Matching!Completes(Top.x)
  BY DEF Matching!Completes, Matching!Last, Count
<1>6. Matching!Advance(Top.x)
  BY <1>2, <1>3, <1>4, <1>5
     DEF Matching!Advance, Matching!ActiveAfter, Matching!Last, Matching!Blocking, Count
<1> QED BY <1>2, <1>6 DEF Matching!Next

\* The first stage is reached: the others are as the signal leaves them.
LEMMA FirstMatches ==
  ASSUME StagedInv, First
  PROVE  Matching!Next
<1> DEFINE b == Top.block \/ (Equals(stages[1], Top.x) /\ stages[1].blocking)
<1>1. /\ StagedTypeOK /\ calls # <<>> /\ ~ InFunction /\ StagesPassed(Top) /\ Top.i = 1
      /\ UNCHANGED <<stages, made, before, chain>>
      /\ activated' = [activated EXCEPT ![1] = TRUE] /\ Return(b)
  BY DEF First, StagedInv, CallAt, InFunction
<1>2. /\ Count \in Nat /\ Count > 1 /\ DOMAIN stages = 1 .. Count /\ activated \in [1 .. Count -> BOOLEAN]
      /\ \A j \in 1 .. Count : stages[j].blocking \in BOOLEAN
  BY <1>1, StagesAre DEF StagedTypeOK, StagesPassed
<1>3. /\ activated'[1] /\ \A j \in 1 .. Count : j # 1 => activated'[j] = activated[j]
      /\ stages' = stages
  BY <1>1, <1>2
<1>4. /\ \A j \in 2 .. Count : activated[j] <=> After(j, Top.x)
      /\ ~ activated[Count]
      /\ Top.block <=> \E j \in 2 .. Count : activated[j] /\ stages[j].blocking
  BY <1>1, <1>2 DEF StagesPassed, StagedInv
<1>5. Active' = {1} \cup {j \in 2 .. Count - 1 : After(j, Top.x)}
  <2>1. Active' = {j \in 1 .. Count : activated'[j]}
    BY <1>2, <1>3 DEF Active
  <2>2. \A j \in 1 .. Count : activated'[j] <=> j = 1 \/ (j \in 2 .. Count - 1 /\ After(j, Top.x))
    BY <1>2, <1>3, <1>4
  <2> QED BY <1>2, <2>1, <2>2
<1>6. b <=> Count # 1 /\ \E j \in Active' : stages[j].blocking /\ (j = 1 => Equals(stages[1], Top.x))
  <2>1. Top.block <=> \E j \in 2 .. Count - 1 : After(j, Top.x) /\ stages[j].blocking
    BY <1>2, <1>4
  <2> QED BY <1>2, <1>5, <2>1
<1>7. b \in BOOLEAN
  OBVIOUS
<1> HIDE DEF b
<1> QED BY <1>1, <1>2, <1>5, <1>6, <1>7, AdvanceMatches DEF StagesPassed

LEMMA LastMatches ==
  ASSUME StagedInv, CheckLast
  PROVE  [Matching!Next]_Matching!vars
<1>1. /\ StagedTypeOK /\ CallAt("last") /\ calls # <<>> /\ ~ InFunction
      /\ UNCHANGED <<stages, made, before>> /\ before = Active
  BY DEF CheckLast, StagedInv, CallAt, InFunction
<1>2. /\ Count \in Nat /\ DOMAIN stages = 1 .. Count /\ Top \in Call
      /\ \A j \in 1 .. Count : activated[j] \in BOOLEAN /\ stages[j].blocking \in BOOLEAN
  BY <1>1, StagesAre, Outer
<1>3. CASE Count = 0 /\ Complete(FALSE)
  BY <1>1, <1>3, CompleteMatches
<1>4. CASE Count # 0 /\ MayComplete /\ Equals(stages[Count], Top.x) /\ Complete(stages[Count].blocking)
  <2>1. stages[Count].blocking \in BOOLEAN
    BY <1>2, <1>4
  <2> QED BY <1>1, <1>4, <2>1, CompleteMatches
<1>5. CASE Count = 1 /\ ~ Equals(stages[1], Top.x) /\ Return(FALSE) /\ UNCHANGED <<activated, chain>>
  <2>1. Active' = before
    BY <1>1, <1>5 DEF Active
  <2>2. ~ Equals(stages[Count], Top.x)
    BY <1>5
  <2>3. FALSE <=> Count # 1 /\ \E j \in Active' : stages[j].blocking /\ (j = 1 => Equals(stages[1], Top.x))
    BY <1>5
  <2>4. Count # 0 /\ ~ ((Count = 1 \/ Count - 1 \in before) /\ Equals(stages[Count], Top.x))
    BY <1>5, <2>2
  <2>5. Matching!Next
    BY <1>1, <1>5, <2>1, <2>3, <2>4, AdvanceMatches
  <2> QED BY <2>5
<1>6. CASE /\ Continue([Top EXCEPT !.at = "walk", !.i = IF MayComplete THEN Count - 1 ELSE Count])
           /\ UNCHANGED <<activated, chain, result>>
  <2>1. Top'.at = "walk" /\ calls' # <<>>
    <3> DEFINE n == IF MayComplete THEN Count - 1 ELSE Count
               c == [Top EXCEPT !.at = "walk", !.i = n]
    <3>1. calls' = <<c>> \o Tail(calls) /\ c.at = "walk" /\ Tail(calls) \in Seq(Call)
      BY <1>1, <1>2, <1>6, Outer DEF Continue, Call
    <3> HIDE DEF c
    <3> QED BY <3>1 DEF Top
  <2>2. ~ InFunction'
    BY <2>1 DEF InFunction
  <2> QED BY <1>1, <1>6, <2>2 DEF Matching!vars
<1> QED BY <1>3, <1>4, <1>5, <1>6 DEF CheckLast

LEMMA OwnerMatches ==
  ASSUME StagedInv, FunctionReturns \/ mcr_Staged_deactivate \/ Replace
  PROVE  [Matching!Next]_Matching!vars
<1>1. StagedTypeOK
  BY DEF StagedInv
<1>2. CASE FunctionReturns
  <2>1. /\ calls # <<>> /\ InFunction /\ calls' = Tail(calls)
        /\ UNCHANGED <<stages, activated, made, before, result, chain>>
    BY <1>2 DEF FunctionReturns, CallAt, InFunction
  <2>2. InFunction' /\ Active' = Active
    BY <1>1, <2>1, Returned DEF Active
  <2> QED BY <2>1, <2>2 DEF Matching!vars
<1>3. ASSUME Owned, UNCHANGED <<calls, before, result>> PROVE InFunction /\ InFunction'
  BY <1>3 DEF Owned, InFunction, Top
<1>4. CASE mcr_Staged_deactivate
  <2>1. InFunction' /\ Active' = {}
    BY <1>3, <1>4 DEF mcr_Staged_deactivate, AllOff, Active
  <2>2. Matching!Deactivate
    BY <1>4, <2>1 DEF mcr_Staged_deactivate, Matching!Deactivate
  <2> QED BY <2>2 DEF Matching!Next
<1>5. CASE Replace
  <2>1. InFunction' /\ Active' = {}
    BY <1>3, <1>5 DEF Replace, FreshFlags, Active
  <2>2. Matching!Replace
    BY <1>5, <2>1 DEF Replace, Matching!Replace
  <2> QED BY <2>2 DEF Matching!Next
<1> QED BY <1>2, <1>4, <1>5

\* Every step of the trigger is one of matching, or goes unnoticed.
LEMMA StepMatches == StagedInv /\ [StagedNext]_stagedVars => [Matching!Next]_Matching!vars
<1> SUFFICES ASSUME StagedInv, [StagedNext]_stagedVars PROVE [Matching!Next]_Matching!vars
  OBVIOUS
<1>1. CASE UNCHANGED stagedVars
  BY <1>1 DEF stagedVars, Matching!vars, InFunction, Top, Active
<1>2. CASE ReceiveBegins
  <2>0. PICK x \in Interceptions :
          calls' = <<[at |-> "last", x |-> x, i |-> Count, block |-> FALSE]>> \o calls
    BY <1>2 DEF ReceiveBegins
  <2> DEFINE c == [at |-> "last", x |-> x, i |-> Count, block |-> FALSE]
  <2>1. calls' = <<c>> \o calls /\ c.at = "last" /\ c \in Call
    BY <2>0, StagesAre DEF Call, StagedInv
  <2> HIDE DEF c
  <2>2. ~ InFunction'
    <3>1. Top' = c /\ calls' # <<>>
      BY <2>1, Inner DEF Top, StagedInv, StagedTypeOK
    <3> QED BY <2>1, <3>1 DEF InFunction
  <2> QED BY <1>2, <2>2 DEF ReceiveBegins, Matching!vars
<1>3. CASE Walk
  <2>1. /\ StagedTypeOK /\ calls # <<>> /\ ~ InFunction /\ Top.at = "walk"
        /\ UNCHANGED <<stages, before, result>>
    BY <1>3 DEF Walk, StagedInv, CallAt, InFunction
  <2> DEFINE b == Top.block \/ (On(Top.i) /\ stages[Top.i].blocking)
             c == [Top EXCEPT !.i = Top.i - 1, !.block = b]
  <2>2. calls' = <<c>> \o Tail(calls) /\ c.at = "walk"
    <3>1. calls' = <<c>> \o Tail(calls)
      BY <1>3 DEF Walk, Continue
    <3>2. Top \in Call
      BY <2>1, Outer
    <3> HIDE DEF b
    <3>3. c.at = "walk"
      BY <2>1, <3>2 DEF Call
    <3> QED BY <3>1, <3>3
  <2> HIDE DEF c
  <2>3. ~ InFunction'
    <3>1. Tail(calls) \in Seq(Call)
      BY <2>1, Outer
    <3>2. Head(calls') = c /\ calls' # <<>>
      BY <2>2, <3>1
    <3> QED BY <2>2, <3>2 DEF InFunction, Top
  <2> QED BY <2>1, <2>3 DEF Matching!vars
<1> QED BY <1>1, <1>2, <1>3, LastMatches, FirstMatches, OwnerMatches
        DEF StagedNext, StagedDone, mcr_Staged_receive

-----------------------------------------------------------------------------
(* The trigger next to the other ways.                                     *)

\* When the trigger is not looked at, it has no stages and nothing to do.
LEMMA TriggerBegins == Init => \E s \in Sources : Begins(s)
BY StagedAssumption DEF Init, StagedInit

LEMMA TriggerGoesOn == [Next]_vars => [StagedNext]_stagedVars
BY DEF Next, vars

\* In every behaviour, what a call has passed of the stages is as its signal leaves them.
LEMMA StagedInvariant == Spec => []StagedInv
<1>1. Init => StagedInv
  BY TriggerBegins, StagedBegins
<1>2. StagedInv /\ [Next]_vars => StagedInv'
  BY TriggerGoesOn, StagedStep
<1> QED BY <1>1, <1>2, PTL DEF Spec

\* The walk of mcr_Staged_receive from the end of the stages, which changes the flags that
\* it reads, comes to what one comparison of every stage with the flags before the signal
\* comes to, though the function of the trigger may send signals to the trigger, switch it
\* off or give it other stages.
THEOREM WalkIsMatching == Spec => MatchingSpec
<1>1. Init => Matching!Init
  <2> SUFFICES ASSUME NEW s \in Sources, Begins(s) PROVE Matching!Init
    BY TriggerBegins
  <2>1. InFunction /\ Active = {}
    BY DEF Begins, InFunction, Active
  <2> QED BY <2>1 DEF Begins, Matching!Init
<1>2. StagedInv /\ [Next]_vars => [Matching!Next]_Matching!vars
  BY TriggerGoesOn, StepMatches
<1> QED BY <1>1, <1>2, StagedInvariant, PTL DEF Spec, MatchingSpec, Matching!Spec

\* A staged trigger completes only after its stages from the second on were matched in
\* order, each by a signal of its own, since it was last switched off or completed
\* (mcr_Staged_receive); the first one need not be.
THEOREM StagesInOrder == Spec => CompletesInOrder
<1>1. ASSUME StagedInv, Completing, [StagedNext]_stagedVars PROVE Count = 0 \/ chain[2] >= Count
  <2>1. CallAt("last") /\ calls # <<>> /\ ~ InFunction /\ Top.at = "last" /\ StagedTypeOK
    BY <1>1 DEF Completing, StagedInv, CallAt, InFunction
  <2>2. result'.completed /\ calls' # <<>> /\ Top'.at = "function"
    BY <1>1 DEF Completing, Top
  <2>3. CheckLast
    <3>1. ~ UNCHANGED stagedVars
      BY <2>1, <2>2 DEF stagedVars, Top
    <3> QED BY <1>1, <2>1, <3>1
            DEF StagedNext, StagedDone, mcr_Staged_receive, ReceiveBegins, Walk, First, FunctionReturns,
                mcr_Staged_deactivate, Replace, Owned, CallAt
  <2>4. CASE Count # 0 /\ MayComplete /\ Equals(stages[Count], Top.x)
    <3>1. Count \in Nat /\ DOMAIN stages = 1 .. Count /\ before = Active /\ chain[2] >= 1
      BY <1>1, <2>1, StagesAre DEF StagedInv, Chained
    <3>2. CASE Count = 1
      BY <3>1, <3>2
    <3>3. CASE Count > 1
      <4>1. Count - 1 \in before /\ Count \in 2 .. Count
        BY <2>4, <3>1, <3>3 DEF MayComplete, Active
      <4> QED BY <1>1, <2>1, <2>4, <4>1 DEF StagedInv, Chained
    <3> QED BY <2>4, <3>1, <3>2, <3>3
  <2>5. CASE Return(FALSE)
    BY <2>2, <2>5 DEF Return
  <2>6. CASE UNCHANGED <<activated, chain, result>>
           /\ Continue([Top EXCEPT !.at = "walk", !.i = IF MayComplete THEN Count - 1 ELSE Count])
    <3> DEFINE n == IF MayComplete THEN Count - 1 ELSE Count
               c == [Top EXCEPT !.at = "walk", !.i = n]
    <3>1. Top \in Call /\ Tail(calls) \in Seq(Call)
      BY <2>1, Outer
    <3>2. calls' = <<c>> \o Tail(calls) /\ c.at = "walk"
      BY <2>6, <3>1 DEF Continue, Call
    <3> HIDE DEF c
    <3>3. Top' = c
      BY <3>1, <3>2 DEF Top
    <3> QED BY <2>2, <3>2, <3>3
  <2> QED BY <2>3, <2>4, <2>5, <2>6 DEF CheckLast
<1>2. StagedInv /\ [Next]_vars => [Completing => Count = 0 \/ chain[2] >= Count]_stagedVars
  BY <1>1, TriggerGoesOn
<1> QED BY <1>2, StagedInvariant, PTL DEF Spec, CompletesInOrder

-----------------------------------------------------------------------------
(* The reading thread: where every event of a batch is.                    *)

Sorts == {"key", "abs", "rel", "wheel"}

SignalRecord == [kind : Sorts \cup {"echo"}, of : SUBSET Nat, blocked : BOOLEAN]

\* An event that is collected and not dispatched yet.
Waits(i) == pending[batch[i].kind][Axis(batch[i])] = i

\* The events read so far either wait or are in one signal, after earlier ones of their axis.
Placed ==
  \A i \in 1 .. next - 1 : batch[i].kind # "other" =>
    \/ Waits(i) /\ SignalsWith(i) = {}
    \/ /\ ~ Waits(i)
       /\ \E n \in DOMAIN sent :
            /\ SignalsWith(i) = {n} /\ sent[n].kind = batch[i].kind
            /\ \A j \in 1 .. i - 1 : SameAxis(i, j) => \E m \in 1 .. n - 1 : m \in SignalsWith(j)

\* What waits was read, and waits in its place; signals are made of what was read.
InPlace ==
  /\ \A k \in Sorts, a \in Axes : LET i == pending[k][a] IN
       i # 0 => i \in 1 .. next - 1 /\ batch[i].kind = k /\ Axis(batch[i]) = a
  /\ \A n \in DOMAIN sent : \A i \in sent[n].of :
       i \in 1 .. next - 1 /\ batch[i].kind = IF sent[n].kind = "echo" THEN "key" ELSE sent[n].kind

\* What is to be written, as the signals so far were blocked or not.
Writable ==
  /\ writegen <=> ~ blocking \/ \A n \in BlockedSignals : sent[n].kind = "abs"
  /\ \A n \in DOMAIN sent :
       sent[n].kind = "abs" /\ (\A m \in DOMAIN sent : m > n => sent[m].kind # "abs")
         => (writeabs <=> blocking /\ ~ sent[n].blocked)
  /\ (\E n \in DOMAIN sent : sent[n].kind = "abs") /\ (\A n \in BlockedSignals : sent[n].kind # "abs")
       => (writeabs <=> blocking)

\* How far the thread is with its batch.
Phases ==
  /\ reading \in {"poll", "read", "write"} => pending = NothingPending
  /\ reading \in {"poll", "read"} => writegen
  /\ reading \in {"poll", "rest", "write"} => next = Len(batch) + 1
  /\ reading = "read" => batch = << >> /\ next = 1 /\ sent = << >> /\ batches < Batches
  /\ reading \in {"read", "collect", "rest", "write"} => emitted = NothingEmitted
  /\ reading \in {"collect", "rest", "write"} => Writable

EventsTyped ==
  /\ blocking \in BOOLEAN /\ reading \in {"poll", "read", "collect", "rest", "write", "ended"}
  /\ batch \in Seq(HardEvents) /\ next \in 1 .. Len(batch) + 1 /\ batches \in 0 .. Batches
  /\ pending \in [Sorts -> [Axes -> Nat]]
  /\ writegen \in BOOLEAN /\ writeabs \in BOOLEAN
  /\ sent \in Seq(SignalRecord)
  /\ emitted \in [gen : SUBSET DOMAIN batch, abs : SUBSET DOMAIN batch]

EventsInv == EventsTyped /\ InPlace /\ Placed /\ Phases /\ BlockedStays /\ UnblockedPasses

\* Events as they are read have a kind and an axis.
LEMMA EventsAre ==
  ASSUME EventsTyped
  PROVE  /\ Len(batch) \in Nat /\ DOMAIN batch = 1 .. Len(batch) /\ next \in Nat /\ next >= 1
         /\ \A i \in 1 .. Len(batch) : batch[i].kind \in Sorts \cup {"other"} /\ Axis(batch[i]) \in Axes
         /\ \A i \in 1 .. next - 1 : i \in 1 .. Len(batch)
<1>1. batch \in Seq(HardEvents) /\ next \in 1 .. Len(batch) + 1
  BY DEF EventsTyped
<1>2. \A i \in 1 .. Len(batch) : batch[i] \in HardEvents
  BY <1>1
<1>3. \A i \in 1 .. Len(batch) : batch[i].kind \in Sorts \cup {"other"} /\ Axis(batch[i]) \in Axes
  BY <1>2, EventsAssumption DEF Kinds, Sorts, Axes, Axis
<1> QED BY <1>1, <1>3

\* The signals so far, and the one in which an event that waits is dispatched: the last.
SignalMade(kind, n, b) ==
  /\ sent' \in Seq(SignalRecord) /\ n \in Nat /\ n > Len(sent) /\ Len(sent') = n
  /\ \A m \in 1 .. Len(sent) : sent'[m] = sent[m]
  /\ sent'[n].kind = kind /\ sent'[n].of = Waiting(kind)
  /\ \A m \in Len(sent) + 1 .. n - 1 : sent'[m].kind = "echo" /\ sent'[m].of = Waiting(kind) /\ kind = "key"
  /\ b \in BOOLEAN /\ (b <=> \E m \in Len(sent) + 1 .. n : sent'[m].blocked)
  /\ IF kind = "abs" THEN writeabs' = Absolute(b) /\ UNCHANGED writegen
     ELSE writegen' = Generic(b) /\ UNCHANGED writeabs

LEMMA DispatchAppends ==
  ASSUME EventsTyped, NEW kind \in Sorts, Dispatch(kind)
  PROVE  \E n \in Nat, b \in BOOLEAN : SignalMade(kind, n, b)
<1>1. PICK signals \in SignalsFor(kind) :
        /\ sent' = sent \o signals
        /\ IF kind = "abs"
           THEN writeabs' = Absolute(\E i \in DOMAIN signals : signals[i].blocked) /\ UNCHANGED writegen
           ELSE writegen' = Generic(\E i \in DOMAIN signals : signals[i].blocked) /\ UNCHANGED writeabs
  BY DEF Dispatch
<1> DEFINE b == \E i \in DOMAIN signals : signals[i].blocked
           n == Len(sent')
<1>2. Waiting(kind) \in SUBSET Nat
  BY DEF Waiting, EventsTyped, Sorts
<1>3. ASSUME NEW type \in Sorts \cup {"echo"}, NEW c \in BOOLEAN
      PROVE  /\ SignalOf(type, kind, c) \in SignalRecord /\ SignalOf(type, kind, c).kind = type
             /\ SignalOf(type, kind, c).of = Waiting(kind)
  BY <1>2 DEF SignalOf, SignalRecord
<1>4. sent \in Seq(SignalRecord) /\ Len(sent) \in Nat
  BY DEF EventsTyped
<1>5. /\ signals \in Seq(SignalRecord) /\ Len(signals) \in {1, 2}
      /\ signals[Len(signals)].kind = kind /\ signals[Len(signals)].of = Waiting(kind)
      /\ Len(signals) = 2 => signals[1].kind = "echo" /\ signals[1].of = Waiting(kind) /\ kind = "key"
  <2>1. CASE kind = "key" /\ \E i \in Waiting(kind) : batch[i].code \in Echoing
    <3>1. PICK e \in BOOLEAN, c \in BOOLEAN : signals = << SignalOf("echo", kind, e), SignalOf(kind, kind, c) >>
      BY <1>1, <2>1 DEF SignalsFor
    <3>2. /\ SignalOf("echo", kind, e) \in SignalRecord /\ SignalOf(kind, kind, c) \in SignalRecord
          /\ SignalOf("echo", kind, e).kind = "echo" /\ SignalOf("echo", kind, e).of = Waiting(kind)
          /\ SignalOf(kind, kind, c).kind = kind /\ SignalOf(kind, kind, c).of = Waiting(kind)
      BY <1>3
    <3>3. /\ signals \in Seq(SignalRecord) /\ Len(signals) = 2
          /\ signals[1] = SignalOf("echo", kind, e) /\ signals[2] = SignalOf(kind, kind, c)
      BY <3>1, <3>2
    <3> QED BY <2>1, <3>2, <3>3
  <2>2. CASE ~ (kind = "key" /\ \E i \in Waiting(kind) : batch[i].code \in Echoing)
    <3>1. PICK c \in BOOLEAN : signals = << SignalOf(kind, kind, c) >>
      BY <1>1, <2>2 DEF SignalsFor
    <3>2. SignalOf(kind, kind, c) \in SignalRecord
      BY <1>3
    <3>3. signals \in Seq(SignalRecord) /\ Len(signals) = 1 /\ signals[1] = SignalOf(kind, kind, c)
      BY <3>1, <3>2
    <3> QED BY <1>3, <3>3
  <2> QED BY <2>1, <2>2
<1>6. /\ sent' \in Seq(SignalRecord) /\ n = Len(sent) + Len(signals) /\ n \in Nat /\ n > Len(sent)
      /\ \A m \in 1 .. Len(sent) : sent'[m] = sent[m]
      /\ \A m \in Len(sent) + 1 .. n : sent'[m] = signals[m - Len(sent)]
  BY <1>1, <1>4, <1>5
<1>7. sent'[n] = signals[Len(signals)]
  BY <1>4, <1>5, <1>6
<1>8. ASSUME NEW m \in Len(sent) + 1 .. n - 1
      PROVE  sent'[m].kind = "echo" /\ sent'[m].of = Waiting(kind) /\ kind = "key"
  <2>1. Len(signals) = 2 /\ m - Len(sent) = 1 /\ m \in Len(sent) + 1 .. n
    BY <1>4, <1>5, <1>6
  <2> QED BY <1>5, <1>6, <2>1
<1>9. b <=> \E m \in Len(sent) + 1 .. n : sent'[m].blocked
  <2>1. \A i \in 1 .. Len(signals) : Len(sent) + i \in Len(sent) + 1 .. n /\ sent'[Len(sent) + i] = signals[i]
    BY <1>4, <1>5, <1>6
  <2>2. \A m \in Len(sent) + 1 .. n : m - Len(sent) \in 1 .. Len(signals)
    BY <1>4, <1>5, <1>6
  <2>3. DOMAIN signals = 1 .. Len(signals)
    BY <1>5
  <2> QED BY <1>6, <2>1, <2>2, <2>3
<1>10. b \in BOOLEAN
  OBVIOUS
<1>11. IF kind = "abs" THEN writeabs' = Absolute(b) /\ UNCHANGED writegen
       ELSE writegen' = Generic(b) /\ UNCHANGED writeabs
  BY <1>1
<1> HIDE DEF b, n
<1>12. SignalMade(kind, n, b)
  BY <1>5, <1>6, <1>7, <1>8, <1>9, <1>10, <1>11 DEF SignalMade, n
<1> QED BY <1>6, <1>10, <1>12

\* Where the events of before the step are, when a signal of the kind is made: those that
\* waited for it are in it, and all others where they were.
LEMMA NowIn ==
  ASSUME EventsTyped, InPlace, NEW kind \in Sorts, NEW n, NEW b, SignalMade(kind, n, b), batch' = batch
  PROVE  /\ \A i \in 1 .. Len(batch) : SignalsWith(i)' = IF i \in Waiting(kind) THEN SignalsWith(i) \cup {n}
                                                          ELSE SignalsWith(i)
         /\ \A i \in Waiting(kind) : i \in 1 .. next - 1 /\ batch[i].kind = kind /\ Waits(i)
         /\ \A i \in 1 .. Len(batch) : batch[i].kind = kind /\ Waits(i) => i \in Waiting(kind)
<1>1. /\ sent \in Seq(SignalRecord) /\ Len(sent) \in Nat /\ DOMAIN sent = 1 .. Len(sent)
      /\ n \in Nat /\ n > Len(sent) /\ DOMAIN sent' = 1 .. n
  BY DEF EventsTyped, SignalMade
<1>2. \A m \in 1 .. n : m \in 1 .. Len(sent) \/ m \in Len(sent) + 1 .. n - 1 \/ m = n
  BY <1>1
<1>3. ASSUME NEW i \in 1 .. Len(batch)
      PROVE  SignalsWith(i)' = IF i \in Waiting(kind) THEN SignalsWith(i) \cup {n} ELSE SignalsWith(i)
  <2>1. SignalsWith(i)' = {m \in 1 .. n : sent'[m].kind # "echo" /\ i \in sent'[m].of}
    BY <1>1 DEF SignalsWith
  <2>2. SignalsWith(i) = {m \in 1 .. Len(sent) : sent[m].kind # "echo" /\ i \in sent[m].of}
    BY <1>1 DEF SignalsWith
  <2>3. \A m \in 1 .. n : m \in SignalsWith(i)' <=> m \in SignalsWith(i) \/ (m = n /\ i \in Waiting(kind))
    <3> SUFFICES ASSUME NEW m \in 1 .. n
                 PROVE  m \in SignalsWith(i)' <=> m \in SignalsWith(i) \/ (m = n /\ i \in Waiting(kind))
      OBVIOUS
    <3>1. CASE m \in 1 .. Len(sent)
      BY <1>1, <2>1, <2>2, <3>1 DEF SignalMade
    <3>2. CASE m \in Len(sent) + 1 .. n - 1
      BY <1>1, <2>1, <2>2, <3>2 DEF SignalMade
    <3>3. CASE m = n
      BY <1>1, <2>1, <2>2, <3>3 DEF SignalMade, Sorts
    <3> QED BY <1>2, <3>1, <3>2, <3>3
  <2> QED BY <1>1, <2>1, <2>2, <2>3
<1>4. \A i \in Waiting(kind) : i \in 1 .. next - 1 /\ batch[i].kind = kind /\ Waits(i)
  BY DEF Waiting, InPlace, Waits
<1>5. ASSUME NEW i \in 1 .. Len(batch), batch[i].kind = kind, Waits(i) PROVE i \in Waiting(kind)
  BY <1>5, EventsAre DEF Waiting, Waits
<1> QED BY <1>3, <1>4, <1>5

\* A signal is made of all that wait for it, and perhaps another event is read: what was
\* said of each event is still so.
LEMMA DispatchPlaces ==
  ASSUME EventsTyped, InPlace, Placed, NEW kind \in Sorts, NEW n, NEW b, SignalMade(kind, n, b),
         batch' = batch, next' \in {next, next + 1}, next' \in 1 .. Len(batch) + 1,
         \A k \in Sorts, a \in Axes : k # kind => pending'[k][a] = pending[k][a],
         \A a \in Axes : pending'[kind][a] \in {0, next},
         \A a \in Axes : pending'[kind][a] = next => next' = next + 1 /\ batch[next].kind = kind /\ Axis(batch[next]) = a,
         next' = next + 1 => batch[next].kind = kind /\ pending'[kind][Axis(batch[next])] = next
  PROVE  InPlace' /\ Placed'
<1> DEFINE W == Waiting(kind)
<1>1. /\ Len(batch) \in Nat /\ next \in Nat /\ next >= 1
      /\ \A i \in 1 .. Len(batch) : batch[i].kind \in Sorts \cup {"other"} /\ Axis(batch[i]) \in Axes
      /\ \A i \in 1 .. next - 1 : i \in 1 .. Len(batch)
  BY EventsAre
<1>2. /\ \A i \in 1 .. Len(batch) : SignalsWith(i)' = IF i \in W THEN SignalsWith(i) \cup {n} ELSE SignalsWith(i)
      /\ \A i \in W : i \in 1 .. next - 1 /\ batch[i].kind = kind /\ Waits(i)
      /\ \A i \in 1 .. Len(batch) : batch[i].kind = kind /\ Waits(i) => i \in W
  BY NowIn
<1>3. /\ n \in Nat /\ n > Len(sent) /\ Len(sent) \in Nat /\ DOMAIN sent = 1 .. Len(sent) /\ DOMAIN sent' = 1 .. n
      /\ \A m \in 1 .. Len(sent) : sent'[m] = sent[m]
      /\ sent'[n].kind = kind /\ sent'[n].of = W
      /\ \A m \in Len(sent) + 1 .. n - 1 : sent'[m].kind = "echo" /\ sent'[m].of = W /\ kind = "key"
  BY DEF EventsTyped, SignalMade
<1> HIDE DEF W
<1>4. InPlace'
  <2>1. ASSUME NEW k \in Sorts, NEW a \in Axes, pending'[k][a] # 0
        PROVE  /\ pending'[k][a] \in 1 .. next' - 1 /\ batch[pending'[k][a]].kind = k
               /\ Axis(batch[pending'[k][a]]) = a
    <3>1. CASE k = kind
      BY <1>1, <2>1, <3>1
    <3>2. CASE k # kind
      <4>1. pending'[k][a] = pending[k][a]
        BY <3>2
      <4> QED BY <1>1, <2>1, <4>1 DEF InPlace
    <3> QED BY <3>1, <3>2
  <2>2. ASSUME NEW m \in 1 .. n, NEW i \in sent'[m].of
        PROVE  i \in 1 .. next' - 1 /\ batch[i].kind = IF sent'[m].kind = "echo" THEN "key" ELSE sent'[m].kind
    <3>1. CASE m \in 1 .. Len(sent)
      <4>1. i \in 1 .. next - 1 /\ batch[i].kind = IF sent[m].kind = "echo" THEN "key" ELSE sent[m].kind
        BY <1>3, <2>2, <3>1 DEF InPlace
      <4> QED BY <1>1, <1>3, <3>1, <4>1
    <3>2. CASE m \in Len(sent) + 1 .. n - 1
      BY <1>1, <1>2, <1>3, <2>2, <3>2
    <3>3. CASE m = n
      BY <1>1, <1>2, <1>3, <2>2, <3>3 DEF Sorts
    <3> QED BY <1>3, <3>1, <3>2, <3>3
  <2>3. \A i : Axis(batch[i])' = Axis(batch[i])
    BY DEF Axis
  <2> QED BY <1>3, <2>1, <2>2, <2>3 DEF InPlace
<1>5. \A i, j \in 1 .. Len(batch) : SameAxis(i, j)' = SameAxis(i, j)
  BY DEF SameAxis, Axis
<1>6. \A i \in 1 .. Len(batch) : Waits(i)' <=> pending'[batch[i].kind][Axis(batch[i])] = i
  BY DEF Waits, Axis
<1>7. ASSUME NEW i \in 1 .. next - 1, batch[i].kind # "other"
      PROVE  \/ Waits(i)' /\ SignalsWith(i)' = {}
             \/ /\ ~ Waits(i)'
                /\ \E m \in 1 .. n :
                     /\ SignalsWith(i)' = {m} /\ sent'[m].kind = batch[i].kind
                     /\ \A j \in 1 .. i - 1 : SameAxis(i, j)' => \E l \in 1 .. m - 1 : l \in SignalsWith(j)'
  <2>1. i \in 1 .. Len(batch) /\ batch[i].kind \in Sorts /\ Axis(batch[i]) \in Axes /\ i # next /\ i # 0
    BY <1>1, <1>7
  <2>2. \A j \in 1 .. i - 1 : j \in 1 .. next - 1 /\ j \in 1 .. Len(batch) /\ j # i
    BY <1>1, <2>1
  <2>3. CASE Waits(i) /\ batch[i].kind = kind
    <3>1. SignalsWith(i)' = {n} /\ i \in W
      BY <1>2, <1>7, <2>1, <2>3 DEF Placed
    <3>2. ~ Waits(i)'
      BY <1>6, <2>1, <2>3
    <3>3. ASSUME NEW j \in 1 .. i - 1, SameAxis(i, j) PROVE \E l \in 1 .. n - 1 : l \in SignalsWith(j)'
      <4>1. j \in 1 .. next - 1 /\ ~ Waits(j) /\ batch[j].kind # "other"
        <5>1. j # i /\ j \in 1 .. next - 1
          BY <2>2
        <5>2. batch[j].kind = batch[i].kind /\ Axis(batch[j]) = Axis(batch[i])
          BY <3>3 DEF SameAxis
        <5> QED BY <2>1, <2>3, <5>1, <5>2 DEF Waits, Sorts
      <4>2. PICK m \in DOMAIN sent : SignalsWith(j) = {m}
        BY <4>1 DEF Placed
      <4>3. m \in 1 .. n - 1 /\ m \in SignalsWith(j)'
        BY <1>2, <1>3, <2>2, <4>2
      <4> QED BY <4>3
    <3>4. n \in 1 .. n /\ sent'[n].kind = batch[i].kind
      BY <1>3, <2>3
    <3> QED BY <1>5, <2>1, <2>2, <3>1, <3>2, <3>3, <3>4
  <2>4. CASE Waits(i) /\ batch[i].kind # kind
    <3>1. i \notin W
      BY <1>2, <2>4
    <3>2. SignalsWith(i)' = {}
      BY <1>2, <1>7, <2>1, <2>4, <3>1 DEF Placed
    <3>3. Waits(i)'
      BY <1>6, <2>1, <2>4 DEF Waits
    <3> QED BY <3>2, <3>3
  <2>5. CASE ~ Waits(i)
    <3>1. PICK m \in DOMAIN sent :
            /\ SignalsWith(i) = {m} /\ sent[m].kind = batch[i].kind
            /\ \A j \in 1 .. i - 1 : SameAxis(i, j) => \E l \in 1 .. m - 1 : l \in SignalsWith(j)
      BY <1>7, <2>5 DEF Placed
    <3>2. SignalsWith(i)' = {m} /\ m \in 1 .. n /\ sent'[m].kind = batch[i].kind
      BY <1>2, <1>3, <2>1, <2>5, <3>1
    <3>3. ~ Waits(i)'
      BY <1>6, <2>1, <2>5 DEF Waits
    <3>4. \A j \in 1 .. i - 1 : SameAxis(i, j)' => \E l \in 1 .. m - 1 : l \in SignalsWith(j)'
      BY <1>2, <1>5, <2>1, <2>2, <3>1
    <3> QED BY <3>2, <3>3, <3>4
  <2> QED BY <2>3, <2>4, <2>5
<1>8. ASSUME NEW i, i = next, next' = next + 1
      PROVE  Waits(i)' /\ SignalsWith(i)' = {}
  <2>1. i \in 1 .. Len(batch) /\ i \notin W
    BY <1>1, <1>2, <1>8
  <2>2. SignalsWith(i) = {}
    BY <1>1, <1>8 DEF SignalsWith, InPlace
  <2> QED BY <1>2, <1>6, <1>8, <2>1, <2>2
<1>9. \A i \in 1 .. next' - 1 : i \in 1 .. next - 1 \/ (i = next /\ next' = next + 1)
  BY <1>1
<1> QED BY <1>3, <1>4, <1>7, <1>8, <1>9 DEF Placed

\* An event is read whose place is free, or that makes no signal.
LEMMA ReadPlaces ==
  ASSUME EventsTyped, InPlace, Placed, batch' = batch, sent' = sent, next <= Len(batch), next' = next + 1,
         \A k \in Sorts, a \in Axes :
           /\ k = batch[next].kind /\ a = Axis(batch[next]) => pending[k][a] = 0 /\ pending'[k][a] = next
           /\ ~ (k = batch[next].kind /\ a = Axis(batch[next])) => pending'[k][a] = pending[k][a]
  PROVE  InPlace' /\ Placed'
<1>1. /\ Len(batch) \in Nat /\ next \in Nat /\ next >= 1 /\ next \in 1 .. Len(batch)
      /\ \A i \in 1 .. Len(batch) : batch[i].kind \in Sorts \cup {"other"} /\ Axis(batch[i]) \in Axes
      /\ \A i \in 1 .. next - 1 : i \in 1 .. Len(batch)
      /\ \A i \in 1 .. next - 1 : i \in 1 .. next' - 1
  BY EventsAre
<1>2. \A i : Axis(batch[i])' = Axis(batch[i])
  BY DEF Axis
<1>3. /\ \A i, j : SameAxis(i, j)' = SameAxis(i, j)
      /\ \A i : SignalsWith(i)' = SignalsWith(i)
      /\ \A i : Waits(i)' <=> pending'[batch[i].kind][Axis(batch[i])] = i
  BY <1>2 DEF SameAxis, SignalsWith, Waits
<1>4. InPlace'
  <2>1. ASSUME NEW k \in Sorts, NEW a \in Axes, pending'[k][a] # 0
        PROVE  /\ pending'[k][a] \in 1 .. next' - 1 /\ batch[pending'[k][a]].kind = k
               /\ Axis(batch[pending'[k][a]]) = a
    <3>1. CASE k = batch[next].kind /\ a = Axis(batch[next])
      BY <1>1, <3>1
    <3>2. CASE ~ (k = batch[next].kind /\ a = Axis(batch[next]))
      <4>1. pending'[k][a] = pending[k][a]
        BY <3>2
      <4> QED BY <1>1, <2>1, <4>1 DEF InPlace
    <3> QED BY <3>1, <3>2
  <2> QED BY <1>1, <1>2, <2>1 DEF InPlace
<1>5. ASSUME NEW i \in 1 .. next - 1, batch[i].kind # "other"
      PROVE  Waits(i)' <=> Waits(i)
  <2>1. batch[i].kind \in Sorts /\ Axis(batch[i]) \in Axes /\ i # next /\ i # 0
    BY <1>1, <1>5
  <2>2. CASE batch[i].kind = batch[next].kind /\ Axis(batch[i]) = Axis(batch[next])
    <3>1. pending[batch[i].kind][Axis(batch[i])] = 0 /\ pending'[batch[i].kind][Axis(batch[i])] = next
      BY <2>1, <2>2
    <3> QED BY <1>3, <2>1, <3>1 DEF Waits
  <2>3. CASE ~ (batch[i].kind = batch[next].kind /\ Axis(batch[i]) = Axis(batch[next]))
    <3>1. pending'[batch[i].kind][Axis(batch[i])] = pending[batch[i].kind][Axis(batch[i])]
      BY <2>1, <2>3
    <3> QED BY <1>3, <3>1 DEF Waits
  <2> QED BY <2>2, <2>3
<1>6. ASSUME NEW i, i = next, batch[i].kind # "other"
      PROVE  Waits(i)' /\ SignalsWith(i)' = {}
  <2>1. SignalsWith(i) = {}
    BY <1>1, <1>6 DEF SignalsWith, InPlace
  <2>2. batch[i].kind \in Sorts /\ Axis(batch[i]) \in Axes
    BY <1>1, <1>6
  <2> QED BY <1>3, <1>6, <2>1, <2>2
<1>7. \A i \in 1 .. next' - 1 : i \in 1 .. next - 1 \/ i = next
  BY <1>1
<1>8. ASSUME NEW i \in 1 .. next' - 1, batch[i].kind # "other"
      PROVE  \/ Waits(i)' /\ SignalsWith(i)' = {}
             \/ /\ ~ Waits(i)'
                /\ \E n \in DOMAIN sent :
                     /\ SignalsWith(i)' = {n} /\ sent[n].kind = batch[i].kind
                     /\ \A j \in 1 .. i - 1 : SameAxis(i, j)' => \E m \in 1 .. n - 1 : m \in SignalsWith(j)'
  <2>1. CASE i = next
    BY <1>6, <1>8, <2>1
  <2>2. CASE i \in 1 .. next - 1
    BY <1>3, <1>5, <1>8, <2>2 DEF Placed
  <2> QED BY <1>7, <2>1, <2>2
<1> QED BY <1>4, <1>8 DEF Placed

\* What is to be written follows the blocks.
LEMMA DispatchWritable ==
  ASSUME EventsTyped, Writable, NEW kind \in Sorts, NEW n, NEW b, SignalMade(kind, n, b), blocking' = blocking
  PROVE  Writable'
<1>1. /\ n \in Nat /\ n > Len(sent) /\ Len(sent) \in Nat /\ DOMAIN sent = 1 .. Len(sent) /\ DOMAIN sent' = 1 .. n
      /\ \A m \in 1 .. Len(sent) : sent'[m] = sent[m]
      /\ sent'[n].kind = kind
      /\ \A m \in Len(sent) + 1 .. n - 1 : sent'[m].kind = "echo" /\ kind = "key"
      /\ b <=> \E m \in Len(sent) + 1 .. n : sent'[m].blocked
  <2>1. sent \in Seq(SignalRecord)
    BY DEF EventsTyped
  <2>2. sent' \in Seq(SignalRecord) /\ n \in Nat /\ n > Len(sent) /\ Len(sent') = n
    BY DEF SignalMade
  <2>3. /\ \A m \in 1 .. Len(sent) : sent'[m] = sent[m]
        /\ sent'[n].kind = kind
        /\ \A m \in Len(sent) + 1 .. n - 1 : sent'[m].kind = "echo" /\ kind = "key"
        /\ b <=> \E m \in Len(sent) + 1 .. n : sent'[m].blocked
    BY DEF SignalMade
  <2> QED BY <2>1, <2>2, <2>3
<1>2. \A m \in 1 .. n : m \in 1 .. Len(sent) \/ m \in Len(sent) + 1 .. n
  BY <1>1
<1>3. \A m \in Len(sent) + 1 .. n : m \in 1 .. n /\ m > Len(sent) /\ (sent'[m].kind = "abs" <=> kind = "abs")
  BY <1>1 DEF Sorts
<1>4. \A m \in 1 .. Len(sent) : m \in 1 .. n /\ n > m
  BY <1>1
<1>5. CASE kind = "abs"
  <2>1. writeabs' = Absolute(b) /\ writegen' = writegen
    BY <1>5 DEF SignalMade
  <2>2. \A m \in Len(sent) + 1 .. n : m = n
    BY <1>1, <1>5
  <2>3. n \in Len(sent) + 1 .. n /\ (b <=> sent'[n].blocked)
    BY <1>1, <2>2
  <2>4. \A m \in BlockedSignals' : m \in BlockedSignals \/ m = n
    BY <1>1, <1>2, <2>2 DEF BlockedSignals
  <2>5. \A m \in BlockedSignals : m \in BlockedSignals' /\ sent'[m] = sent[m]
    BY <1>1, <1>4 DEF BlockedSignals
  <2>6. writegen' <=> ~ blocking \/ \A m \in BlockedSignals' : sent'[m].kind = "abs"
    BY <1>1, <1>5, <2>1, <2>4, <2>5 DEF Writable
  <2>7. ASSUME NEW m \in 1 .. n, \A l \in 1 .. n : l > m => sent'[l].kind # "abs"
        PROVE  m = n
    BY <1>1, <1>2, <1>4, <1>5, <2>2, <2>7
  <2>8. b => n \in BlockedSignals'
    BY <1>1, <2>3 DEF BlockedSignals
  <2> QED BY <1>1, <1>5, <2>1, <2>3, <2>6, <2>7, <2>8 DEF Writable, Absolute
<1>6. CASE kind # "abs"
  <2>1. writegen' = Generic(b) /\ writeabs' = writeabs
    BY <1>6 DEF SignalMade
  <2>2. \A m \in BlockedSignals' : m \in BlockedSignals \/ (b /\ sent'[m].kind # "abs")
    BY <1>1, <1>2, <1>3, <1>6 DEF BlockedSignals
  <2>3. \A m \in BlockedSignals : m \in BlockedSignals' /\ sent'[m] = sent[m]
    BY <1>1, <1>4 DEF BlockedSignals
  <2>4. b => \E m \in BlockedSignals' : sent'[m].kind # "abs"
    BY <1>1, <1>3, <1>6 DEF BlockedSignals
  <2>5. writegen' <=> ~ blocking \/ \A m \in BlockedSignals' : sent'[m].kind = "abs"
    BY <2>1, <2>2, <2>3, <2>4 DEF Writable, Generic
  <2>6. ASSUME NEW m \in 1 .. n, sent'[m].kind = "abs"
        PROVE  m \in 1 .. Len(sent) /\ sent'[m] = sent[m]
    BY <1>1, <1>2, <1>3, <1>6, <2>6
  <2>7. ASSUME NEW m \in 1 .. n, sent'[m].kind = "abs", \A l \in 1 .. n : l > m => sent'[l].kind # "abs"
        PROVE  writeabs <=> blocking /\ ~ sent'[m].blocked
    <3>1. \A l \in 1 .. Len(sent) : l > m => sent[l].kind # "abs"
      BY <1>1, <1>4, <2>7
    <3> QED BY <1>1, <2>6, <2>7, <3>1 DEF Writable
  <2>8. (\E m \in 1 .. n : sent'[m].kind = "abs") /\ (\A m \in BlockedSignals' : sent'[m].kind # "abs")
          => (writeabs <=> blocking)
    BY <1>1, <2>3, <2>6 DEF Writable
  <2> QED BY <1>1, <2>1, <2>5, <2>7, <2>8 DEF Writable
<1> QED BY <1>5, <1>6

\* Steps that leave the batch and its signals alone.
LEMMA EventsKept ==
  ASSUME EventsInv, UNCHANGED << blocking, batch, next, pending, writegen, writeabs, sent, emitted, batches >>,
         reading' \in {"poll", "read", "collect", "rest", "write", "ended"}, reading' = "poll" => reading = "poll",
         reading' \in {"read", "write"} => pending = NothingPending,
         reading' \in {"rest", "write"} => next = Len(batch) + 1,
         reading' = reading \/ (reading \in {"collect", "rest"} /\ reading' \in {"rest", "write"})
  PROVE  EventsInv'
<1>1. EventsTyped'
  BY DEF EventsInv, EventsTyped
<1>2. \A i : Axis(batch[i])' = Axis(batch[i])
  BY DEF Axis
<1>3. InPlace' /\ Placed'
  BY <1>2 DEF EventsInv, InPlace, Placed, Waits, SignalsWith, SameAxis
<1>4. (Writable' <=> Writable) /\ BlockedSignals' = BlockedSignals
  BY DEF Writable, BlockedSignals
<1>5. Phases'
  BY <1>4 DEF EventsInv, Phases
<1>6. BlockedStays'
  BY <1>4 DEF EventsInv, BlockedStays
<1>7. UnblockedPasses'
  BY <1>4 DEF EventsInv, UnblockedPasses
<1> QED BY <1>1, <1>3, <1>5, <1>6, <1>7 DEF EventsInv

\* Nothing was written yet: what is claimed of the writing holds.
LEMMA NothingWritten == emitted = NothingEmitted /\ (reading # "poll" \/ batch = << >>) => BlockedStays /\ UnblockedPasses
<1> SUFFICES ASSUME emitted = NothingEmitted, reading # "poll" \/ batch = << >> PROVE BlockedStays /\ UnblockedPasses
  OBVIOUS
<1>1. emitted.gen = {} /\ emitted.abs = {}
  BY DEF NothingEmitted
<1> QED BY <1>1 DEF BlockedStays, UnblockedPasses

\* A batch of which nothing was read has no events to place, and no signals to heed.
LEMMA EmptyPlaced ==
  pending = NothingPending /\ sent = << >> /\ next = 1 /\ writegen => InPlace /\ Placed /\ Writable
<1> SUFFICES ASSUME pending = NothingPending, sent = << >>, next = 1, writegen PROVE InPlace /\ Placed /\ Writable
  OBVIOUS
<1>1. \A k \in Sorts, a \in Axes : pending[k][a] = 0
  BY DEF NothingPending, Nothing, Sorts
<1>2. DOMAIN sent = {} /\ 1 .. next - 1 = {} /\ BlockedSignals = {}
  BY DEF BlockedSignals
<1> QED BY <1>1, <1>2 DEF InPlace, Placed, Writable

\* The same after a step.
LEMMA ThenNothingWritten ==
  (emitted = NothingEmitted /\ (reading # "poll" \/ batch = << >>))' => BlockedStays' /\ UnblockedPasses'
BY NothingWritten, PTL

LEMMA ThenEmptyPlaced ==
  (pending = NothingPending /\ sent = << >> /\ next = 1 /\ writegen)' => InPlace' /\ Placed' /\ Writable'
BY EmptyPlaced, PTL

LEMMA PollKeeps ==
  ASSUME EventsInv, Poll
  PROVE  EventsInv'
<1>1. /\ reading' \in {"read", "ended"} /\ batch' = << >> /\ next' = 1 /\ sent' = << >>
      /\ emitted' = NothingEmitted /\ UNCHANGED << blocking, pending, writegen, writeabs, batches >>
      /\ pending = NothingPending /\ writegen /\ batches < Batches
  BY DEF Poll, EventsInv, Phases
<1>2. EventsTyped'
  <2>1. batch' \in Seq(HardEvents) /\ next' \in 1 .. Len(batch') + 1 /\ sent' \in Seq(SignalRecord)
    BY <1>1
  <2>2. emitted' \in [gen : SUBSET DOMAIN batch', abs : SUBSET DOMAIN batch']
    BY <1>1 DEF NothingEmitted
  <2> QED BY <1>1, <2>1, <2>2 DEF EventsInv, EventsTyped
<1>3. InPlace' /\ Placed'
  BY <1>1, ThenEmptyPlaced
<1>4. BlockedStays' /\ UnblockedPasses'
  BY <1>1, ThenNothingWritten
<1>5. Phases'
  BY <1>1 DEF Phases
<1> QED BY <1>2, <1>3, <1>4, <1>5 DEF EventsInv

LEMMA ReadKeeps ==
  ASSUME EventsInv, ReadBatch
  PROVE  EventsInv'
<1>1. /\ reading = "read" /\ batch = << >> /\ next = 1 /\ sent = << >> /\ emitted = NothingEmitted
      /\ pending = NothingPending /\ writegen /\ batches < Batches
      /\ UNCHANGED << blocking, next, pending, writegen, writeabs, sent, emitted >>
  BY DEF ReadBatch, EventsInv, Phases
<1>2. reading' \in {"collect", "ended"} /\ batch' \in Seq(HardEvents) /\ batches' \in 0 .. Batches
  <2>1. batches \in 0 .. Batches /\ batch \in Seq(HardEvents)
    BY DEF EventsInv, EventsTyped
  <2>2. CASE reading' = "ended" /\ UNCHANGED << batch, batches >>
    BY <2>1, <2>2
  <2>3. CASE reading' = "collect" /\ batches' = batches + 1 /\ \E n \in 1 .. BatchLength : batch' \in [1 .. n -> HardEvents]
    <3>1. PICK n \in 1 .. BatchLength : batch' \in [1 .. n -> HardEvents]
      BY <2>3
    <3>2. n \in Nat
      BY EventsAssumption
    <3>3. batch' \in Seq(HardEvents)
      BY <3>1, <3>2
    <3>4. batches' \in 0 .. Batches
      BY <1>1, <2>1, <2>3, EventsAssumption
    <3> QED BY <2>3, <3>3, <3>4
  <2> QED BY <2>2, <2>3 DEF ReadBatch
<1>3. EventsTyped'
  <2>1. next' \in 1 .. Len(batch') + 1
    BY <1>1, <1>2
  <2>2. emitted' \in [gen : SUBSET DOMAIN batch', abs : SUBSET DOMAIN batch']
    BY <1>1 DEF NothingEmitted
  <2> QED BY <1>1, <1>2, <2>1, <2>2 DEF EventsInv, EventsTyped
<1>4. InPlace' /\ Placed' /\ Writable'
  BY <1>1, ThenEmptyPlaced
<1>5. BlockedStays' /\ UnblockedPasses'
  BY <1>1, <1>2, ThenNothingWritten
<1>7. Phases'
  BY <1>1, <1>2, <1>4 DEF Phases
<1> QED BY <1>3, <1>4, <1>5, <1>7 DEF EventsInv

\* The steps that only go on: nothing of the batch waits, when it is written.
LEMMA CollectedKeeps ==
  ASSUME EventsInv, Collected
  PROVE  EventsInv'
<1>1. /\ reading = "collect" /\ reading' = "rest" /\ next > Len(batch)
      /\ UNCHANGED << blocking, batch, next, pending, writegen, writeabs, sent, emitted, batches >>
  BY DEF Collected
<1>2. next = Len(batch) + 1
  BY <1>1 DEF EventsInv, EventsTyped
<1> QED BY <1>1, <1>2, EventsKept

LEMMA RestedKeeps ==
  ASSUME EventsInv, Rested
  PROVE  EventsInv'
<1>1. /\ reading = "rest" /\ reading' = "write" /\ \A k \in DOMAIN pending : Waiting(k) = {}
      /\ UNCHANGED << blocking, batch, next, pending, writegen, writeabs, sent, emitted, batches >>
  BY DEF Rested
<1>2. pending \in [Sorts -> [Axes -> Nat]] /\ next = Len(batch) + 1
  BY <1>1 DEF EventsInv, EventsTyped, Phases
<1>3. ASSUME NEW k \in Sorts PROVE pending[k] = Nothing
  <2>1. \A a \in Axes : pending[k][a] = 0
    <3>1. Waiting(k) = {}
      BY <1>1, <1>2
    <3>2. \A a \in Axes : pending[k][a] # 0 => pending[k][a] \in Waiting(k)
      BY DEF Waiting
    <3> QED BY <3>1, <3>2
  <2>2. pending[k] \in [Axes -> Nat]
    BY <1>2
  <2> QED BY <2>1, <2>2 DEF Nothing
<1>4. pending = NothingPending
  BY <1>2, <1>3 DEF NothingPending, Sorts
<1> QED BY <1>1, <1>2, <1>4, EventsKept

LEMMA EventsRest ==
  ASSUME EventsInv, UNCHANGED eventVars
  PROVE  EventsInv'
<1>1. UNCHANGED << blocking, batch, next, pending, writegen, writeabs, sent, emitted, batches >> /\ reading' = reading
  BY DEF eventVars
<1>2. /\ reading \in {"poll", "read", "collect", "rest", "write", "ended"}
      /\ reading \in {"read", "write"} => pending = NothingPending
      /\ reading \in {"rest", "write"} => next = Len(batch) + 1
  BY DEF EventsInv, EventsTyped, Phases
<1> QED BY <1>1, <1>2, EventsKept

\* An event put in its place, and a kind whose events are all dispatched.
LEMMA PutInPlace ==
  ASSUME NEW p \in [Sorts -> [Axes -> Nat]], NEW k \in Sorts, NEW a \in Axes, NEW i \in Nat,
         NEW q, q = [p EXCEPT ![k][a] = i]
  PROVE  /\ q \in [Sorts -> [Axes -> Nat]]
         /\ \A l \in Sorts, c \in Axes : q[l][c] = IF l = k /\ c = a THEN i ELSE p[l][c]
<1> DEFINE row == [p[k] EXCEPT ![a] = i]
<1>1. p[k] \in [Axes -> Nat]
  OBVIOUS
<1>2. row \in [Axes -> Nat] /\ \A c \in Axes : row[c] = IF c = a THEN i ELSE p[k][c]
  BY <1>1
<1>3. q = [p EXCEPT ![k] = row]
  OBVIOUS
<1> HIDE DEF row
<1>4. q \in [Sorts -> [Axes -> Nat]] /\ \A l \in Sorts : q[l] = IF l = k THEN row ELSE p[l]
  BY <1>2, <1>3
<1> QED BY <1>2, <1>4

LEMMA DispatchTypes ==
  ASSUME EventsTyped, NEW kind \in Sorts, NEW n, NEW b, SignalMade(kind, n, b)
  PROVE  sent' \in Seq(SignalRecord) /\ writegen' \in BOOLEAN /\ writeabs' \in BOOLEAN
BY DEF SignalMade, Generic, Absolute, EventsTyped

LEMMA CollectKeeps ==
  ASSUME EventsInv, Collect
  PROVE  EventsInv'
<1> DEFINE k == batch[next].kind
           a == Axis(batch[next])
<1>1. /\ reading = "collect" /\ next <= Len(batch) /\ next' = next + 1
      /\ UNCHANGED << blocking, reading, batch, emitted, batches >>
  BY DEF Collect
<1>2. EventsTyped /\ InPlace /\ Placed /\ Writable /\ emitted = NothingEmitted
  BY <1>1 DEF EventsInv, Phases
<1>3. /\ next \in Nat /\ next >= 1 /\ Len(batch) \in Nat /\ next \in 1 .. Len(batch)
      /\ k \in Sorts \cup {"other"} /\ a \in Axes /\ next' \in 1 .. Len(batch) + 1
  BY <1>1, <1>2, EventsAre
<1>4. pending \in [Sorts -> [Axes -> Nat]]
  BY <1>2 DEF EventsTyped
<1>5. BlockedStays' /\ UnblockedPasses'
  BY <1>1, <1>2, ThenNothingWritten
<1>6. ASSUME UNCHANGED << sent, writegen, writeabs >>
      PROVE  Writable' /\ sent' \in Seq(SignalRecord) /\ writegen' \in BOOLEAN /\ writeabs' \in BOOLEAN
  BY <1>1, <1>2, <1>6 DEF EventsTyped, Writable, BlockedSignals
<1>7. /\ InPlace' /\ Placed' /\ Writable' /\ pending' \in [Sorts -> [Axes -> Nat]]
      /\ sent' \in Seq(SignalRecord) /\ writegen' \in BOOLEAN /\ writeabs' \in BOOLEAN
  <2>1. CASE k = "other" /\ UNCHANGED << pending, sent, writegen, writeabs >>
    <3>1. ASSUME NEW l \in Sorts, NEW c \in Axes PROVE l # k /\ pending'[l][c] = pending[l][c]
      BY <2>1 DEF Sorts
    <3>2. InPlace' /\ Placed'
      BY <1>1, <1>2, <2>1, <3>1, ReadPlaces
    <3> QED BY <1>4, <1>6, <2>1, <3>2
  <2>2. CASE k # "other" /\ pending[k][a] = 0 /\ pending' = [pending EXCEPT ![k][a] = next]
             /\ UNCHANGED << sent, writegen, writeabs >>
    <3>1. k \in Sorts
      BY <1>3, <2>2
    <3>2. /\ pending' \in [Sorts -> [Axes -> Nat]]
          /\ \A l \in Sorts, c \in Axes : pending'[l][c] = IF l = k /\ c = a THEN next ELSE pending[l][c]
      BY <1>3, <1>4, <2>2, <3>1, PutInPlace
    <3>3. InPlace' /\ Placed'
      BY <1>1, <1>2, <1>3, <2>2, <3>1, <3>2, ReadPlaces
    <3> QED BY <1>6, <2>2, <3>2, <3>3
  <2>3. CASE k # "other" /\ Dispatch(k) /\ pending' = [pending EXCEPT ![k] = [Nothing EXCEPT ![a] = next]]
    <3>1. k \in Sorts
      BY <1>3, <2>3
    <3>2. PICK n \in Nat, b \in BOOLEAN : SignalMade(k, n, b)
      BY <1>2, <2>3, <3>1, DispatchAppends
    <3> DEFINE row == [Nothing EXCEPT ![a] = next]
    <3>3. row \in [Axes -> Nat] /\ \A c \in Axes : row[c] = IF c = a THEN next ELSE 0
      BY <1>3 DEF Nothing
    <3> HIDE DEF row, k, a
    <3>4. pending' = [pending EXCEPT ![k] = row]
      BY <2>3 DEF row
    <3>5. pending' \in [Sorts -> [Axes -> Nat]] /\ \A l \in Sorts : pending'[l] = IF l = k THEN row ELSE pending[l]
      BY <1>4, <3>1, <3>3, <3>4
    <3>6. /\ \A l \in Sorts, c \in Axes : l # k => pending'[l][c] = pending[l][c]
          /\ \A c \in Axes : pending'[k][c] = IF c = a THEN next ELSE 0
      BY <3>1, <3>3, <3>5
    <3>7. /\ \A c \in Axes : pending'[k][c] \in {0, next}
          /\ \A c \in Axes : pending'[k][c] = next => next' = next + 1 /\ batch[next].kind = k /\ Axis(batch[next]) = c
          /\ next' = next + 1 => batch[next].kind = k /\ pending'[k][Axis(batch[next])] = next
      BY <1>1, <1>3, <3>6 DEF k, a
    <3>8. InPlace' /\ Placed'
      BY <1>1, <1>2, <1>3, <3>1, <3>2, <3>6, <3>7, DispatchPlaces
    <3>9. Writable'
      BY <1>1, <1>2, <3>1, <3>2, DispatchWritable
    <3>10. sent' \in Seq(SignalRecord) /\ writegen' \in BOOLEAN /\ writeabs' \in BOOLEAN
      BY <1>2, <3>1, <3>2, DispatchTypes
    <3> QED BY <3>5, <3>8, <3>9, <3>10
  <2> QED BY <2>1, <2>2, <2>3 DEF Collect
<1>8. EventsTyped'
  BY <1>1, <1>2, <1>3, <1>7 DEF EventsTyped
<1>9. Phases'
  BY <1>1, <1>2, <1>7 DEF Phases
<1> QED BY <1>5, <1>7, <1>8, <1>9 DEF EventsInv

LEMMA RestKeeps ==
  ASSUME EventsInv, Rest
  PROVE  EventsInv'
<1>1. /\ reading = "rest" /\ UNCHANGED << blocking, reading, batch, next, emitted, batches >>
  BY DEF Rest
<1>2. EventsTyped /\ InPlace /\ Placed /\ Writable /\ emitted = NothingEmitted /\ next = Len(batch) + 1
  BY <1>1 DEF EventsInv, Phases
<1>3. PICK k \in Sorts : Dispatch(k) /\ pending' = [pending EXCEPT ![k] = Nothing]
  <2>1. PICK j \in DOMAIN Order : Dispatch(Order[j]) /\ pending' = [pending EXCEPT ![Order[j]] = Nothing]
    BY DEF Rest
  <2>2. Order[j] \in Sorts
    BY DEF Order, Sorts
  <2> QED BY <2>1, <2>2
<1>4. PICK n \in Nat, b \in BOOLEAN : SignalMade(k, n, b)
  BY <1>2, <1>3, DispatchAppends
<1>5. pending \in [Sorts -> [Axes -> Nat]] /\ next \in Nat /\ next >= 1 /\ next \in 1 .. Len(batch) + 1 /\ Len(batch) \in Nat
  BY <1>2 DEF EventsTyped
<1>6. Nothing \in [Axes -> Nat] /\ \A a \in Axes : Nothing[a] = 0
  BY DEF Nothing
<1>7. /\ pending' \in [Sorts -> [Axes -> Nat]]
      /\ \A l \in Sorts : pending'[l] = IF l = k THEN Nothing ELSE pending[l]
  BY <1>3, <1>5, <1>6
<1>8. /\ \A l \in Sorts, a \in Axes : l # k => pending'[l][a] = pending[l][a]
      /\ \A a \in Axes : pending'[k][a] = 0
  BY <1>6, <1>7
<1>9. InPlace' /\ Placed'
  BY <1>1, <1>2, <1>4, <1>5, <1>8, DispatchPlaces
<1>10. Writable' /\ sent' \in Seq(SignalRecord) /\ writegen' \in BOOLEAN /\ writeabs' \in BOOLEAN
  BY <1>1, <1>2, <1>4, DispatchWritable, DispatchTypes
<1>11. BlockedStays' /\ UnblockedPasses'
  BY <1>1, <1>2, ThenNothingWritten
<1>12. EventsTyped'
  BY <1>1, <1>2, <1>7, <1>10 DEF EventsTyped
<1>13. Phases'
  BY <1>1, <1>2, <1>10 DEF Phases
<1> QED BY <1>9, <1>11, <1>12, <1>13 DEF EventsInv

\* A device gets the batch when nothing was blocked that it emits.
LEMMA WriteKeeps ==
  ASSUME EventsInv, WriteBatch
  PROVE  EventsInv'
<1>1. /\ reading = "write" /\ reading' \in {"poll", "ended"}
      /\ UNCHANGED << blocking, batch, next, pending, writeabs, sent, batches >>
  BY DEF WriteBatch
<1>2. /\ EventsTyped /\ InPlace /\ Placed /\ Writable /\ pending = NothingPending /\ next = Len(batch) + 1
      /\ emitted = NothingEmitted
  BY <1>1 DEF EventsInv, Phases
<1>3. /\ Len(batch) \in Nat /\ DOMAIN batch = 1 .. Len(batch) /\ next \in Nat
      /\ \A i \in 1 .. Len(batch) : batch[i].kind \in Sorts \cup {"other"} /\ Axis(batch[i]) \in Axes
  BY <1>2, EventsAre
<1>4. /\ emitted' \in [gen : SUBSET DOMAIN batch, abs : SUBSET DOMAIN batch]
      /\ emitted'.gen # {} => blocking /\ writegen
      /\ emitted'.abs # {} => blocking /\ writeabs
      /\ \A i \in emitted'.abs : batch[i].kind = "abs" \/ (batch[i].kind = "key" /\ batch[i].code = Click)
      /\ writegen' \in BOOLEAN
      /\ reading' = "poll" =>
           /\ emitted'.gen = IF blocking /\ writegen THEN GenericEvents ELSE {}
           /\ emitted'.abs = IF blocking /\ writeabs THEN AbsoluteEvents ELSE {}
           /\ writegen'
  <2>1. GenericEvents \in SUBSET DOMAIN batch /\ AbsoluteEvents \in SUBSET DOMAIN batch
    BY DEF GenericEvents, AbsoluteEvents
  <2>2. CASE /\ emitted' = [gen |-> IF blocking /\ writegen THEN GenericEvents ELSE {},
                            abs |-> IF blocking /\ writeabs THEN AbsoluteEvents ELSE {}]
             /\ writegen' = TRUE /\ reading' = "poll"
    <3>1. /\ emitted'.gen = IF blocking /\ writegen THEN GenericEvents ELSE {}
          /\ emitted'.abs = IF blocking /\ writeabs THEN AbsoluteEvents ELSE {}
      BY <2>2
    <3>2. emitted' \in [gen : SUBSET DOMAIN batch, abs : SUBSET DOMAIN batch]
      BY <2>1, <2>2
    <3>3. \A i \in emitted'.abs : batch[i].kind = "abs" \/ (batch[i].kind = "key" /\ batch[i].code = Click)
      BY <3>1 DEF AbsoluteEvents
    <3> QED BY <2>2, <3>1, <3>2, <3>3
  <2>3. CASE /\ blocking /\ (writegen \/ writeabs)
             /\ emitted' \in {NothingEmitted} \union (IF writegen /\ writeabs THEN {[gen |-> GenericEvents, abs |-> {}]} ELSE {})
             /\ reading' = "ended" /\ UNCHANGED writegen
    <3>1. emitted' \in [gen : SUBSET DOMAIN batch, abs : SUBSET DOMAIN batch] /\ emitted'.abs = {}
      BY <2>1, <2>3 DEF NothingEmitted
    <3>2. emitted'.gen # {} => blocking /\ writegen
      BY <2>3 DEF NothingEmitted
    <3> QED BY <1>2, <2>3, <3>1, <3>2 DEF EventsTyped
  <2> QED BY <2>2, <2>3 DEF WriteBatch
<1>5. EventsTyped'
  BY <1>1, <1>2, <1>4 DEF EventsTyped
<1>6. \A i : Axis(batch[i])' = Axis(batch[i])
  BY <1>1 DEF Axis
<1>7. InPlace' /\ Placed'
  BY <1>1, <1>2, <1>6 DEF InPlace, Placed, Waits, SignalsWith, SameAxis
<1>8. Phases'
  BY <1>1, <1>2, <1>4 DEF Phases
<1>9. BlockedSignals' = BlockedSignals
  BY <1>1 DEF BlockedSignals
<1>10. BlockedStays'
  <2> SUFFICES ASSUME NEW n \in BlockedSignals
               PROVE  /\ sent[n].kind # "abs" => emitted'.gen = {}
                      /\ sent[n].kind = "abs" /\ (\A m \in DOMAIN sent : m > n => sent[m].kind # "abs")
                           => \A i \in emitted'.abs : batch[i].kind # "abs"
                      /\ sent[n].kind \in {"key", "echo"} =>
                           \A i \in sent[n].of \intersect emitted'.abs : batch[i].code = Click
    BY <1>1, <1>9 DEF BlockedStays
  <2>1. n \in DOMAIN sent /\ sent[n].blocked
    BY DEF BlockedSignals
  <2>2. sent[n].kind # "abs" => emitted'.gen = {}
    BY <1>2, <1>4 DEF Writable
  <2>3. ASSUME sent[n].kind = "abs", \A m \in DOMAIN sent : m > n => sent[m].kind # "abs"
        PROVE  emitted'.abs = {}
    BY <1>2, <1>4, <2>1, <2>3 DEF Writable
  <2>4. ASSUME sent[n].kind \in {"key", "echo"}, NEW i \in sent[n].of \intersect emitted'.abs
        PROVE  batch[i].code = Click
    <3>1. batch[i].kind = "key"
      BY <1>2, <2>1, <2>4 DEF InPlace
    <3> QED BY <1>4, <2>4, <3>1
  <2> QED BY <2>2, <2>3, <2>4
<1>11. UnblockedPasses'
  <2> SUFFICES ASSUME reading' = "poll", blocking, BlockedSignals = {}, NEW i \in DOMAIN batch, batch[i].kind # "other"
               PROVE  i \in emitted'.gen \union emitted'.abs
    BY <1>1, <1>9 DEF UnblockedPasses
  <2>1. writegen /\ batch[i].kind \in Sorts
    BY <1>2, <1>3 DEF Writable
  <2>2. CASE batch[i].kind # "abs"
    BY <1>4, <2>1, <2>2 DEF GenericEvents, Sorts
  <2>3. CASE batch[i].kind = "abs"
    <3>1. i \in 1 .. next - 1 /\ i # 0
      BY <1>2, <1>3
    <3>2. ~ Waits(i)
      <4>1. batch[i].kind \in Sorts /\ Axis(batch[i]) \in Axes
        BY <1>3, <2>1
      <4>2. pending[batch[i].kind][Axis(batch[i])] = 0
        BY <1>2, <4>1 DEF NothingPending, Nothing, Sorts
      <4> QED BY <3>1, <4>2 DEF Waits
    <3>3. \E n \in DOMAIN sent : sent[n].kind = "abs"
      BY <1>2, <2>3, <3>1, <3>2 DEF Placed
    <3>4. writeabs
      BY <1>2, <3>3 DEF Writable
    <3> QED BY <1>4, <2>3, <3>4 DEF AbsoluteEvents
  <2> QED BY <2>2, <2>3
<1> QED BY <1>5, <1>7, <1>8, <1>10, <1>11 DEF EventsInv

LEMMA EventsBegin ==
  ASSUME EventsInit \/ NoEvents
  PROVE  EventsInv
<1>1. /\ blocking \in BOOLEAN /\ reading \in {"poll", "ended"} /\ batch = << >> /\ next = 1 /\ pending = NothingPending
      /\ writegen = TRUE /\ writeabs = FALSE /\ sent = << >> /\ emitted = NothingEmitted /\ batches = 0
  BY DEF EventsInit, NoEvents
<1>2. pending \in [Sorts -> [Axes -> Nat]]
  BY <1>1 DEF NothingPending, Nothing, Sorts
<1>3. emitted \in [gen : SUBSET DOMAIN batch, abs : SUBSET DOMAIN batch]
  BY <1>1 DEF NothingEmitted
<1>4. batch \in Seq(HardEvents) /\ next \in 1 .. Len(batch) + 1 /\ sent \in Seq(SignalRecord) /\ Len(batch) = 0
  BY <1>1
<1>5. EventsTyped
  <2>1. writegen \in BOOLEAN /\ writeabs \in BOOLEAN /\ blocking \in BOOLEAN
    BY <1>1
  <2>2. batches \in 0 .. Batches /\ reading \in {"poll", "read", "collect", "rest", "write", "ended"}
    BY <1>1, EventsAssumption
  <2> QED BY <1>2, <1>3, <1>4, <2>1, <2>2 DEF EventsTyped
<1>6. Phases
  BY <1>1, <1>4 DEF Phases
<1> QED BY <1>1, <1>5, <1>6, EmptyPlaced, NothingWritten DEF EventsInv

LEMMA EventsStep == EventsInv /\ [EventsNext]_eventVars => EventsInv'
<1> SUFFICES ASSUME EventsInv, [EventsNext]_eventVars PROVE EventsInv'
  OBVIOUS
<1>1. CASE EventsDone \/ UNCHANGED eventVars
  BY <1>1, EventsRest DEF EventsDone
<1> QED
  BY <1>1, PollKeeps, ReadKeeps, CollectKeeps, CollectedKeeps, RestKeeps, RestedKeeps, WriteKeeps DEF EventsNext

\* In every behaviour, the events of a batch are where the thread put them.
LEMMA EventsInvariant == Spec => []EventsInv
<1>1. Init => EventsInv
  BY EventsBegin DEF Init
<1>2. EventsInv /\ [Next]_vars => EventsInv'
  <2>1. [Next]_vars => [EventsNext]_eventVars
    BY DEF Next, vars
  <2> QED BY <2>1, EventsStep
<1> QED BY <1>1, <1>2, PTL DEF Spec

\* Every event that is read is dispatched in one signal of its kind, after all earlier
\* ones of its axis, and a batch is written to the devices exactly as the receivers let it:
\* what they block reaches no device, but for the exceptions of BlockedStays, and a batch
\* that nobody blocks is emitted whole when no write fails (read_grabber_loop and the
\* DISP_ macros).
THEOREM EventsReach == Spec => []EventsArrive
<1>1. EventsInv => DispatchedOnce
  <2> SUFFICES ASSUME EventsInv, reading \in {"write", "poll"}, NEW i \in DOMAIN batch, batch[i].kind # "other"
               PROVE  \E n \in DOMAIN sent :
                        /\ SignalsWith(i) = {n} /\ sent[n].kind = batch[i].kind
                        /\ \A j \in 1 .. i - 1 : SameAxis(i, j) => \E m \in 1 .. n - 1 : m \in SignalsWith(j)
    BY DEF DispatchedOnce
  <2>1. EventsTyped /\ Placed /\ pending = NothingPending /\ next = Len(batch) + 1
    BY DEF EventsInv, Phases
  <2>2. i \in 1 .. next - 1 /\ i # 0 /\ batch[i].kind \in Sorts /\ Axis(batch[i]) \in Axes
    BY <2>1, EventsAre
  <2>3. pending[batch[i].kind][Axis(batch[i])] = 0
    BY <2>1, <2>2 DEF NothingPending, Nothing, Sorts
  <2>4. ~ Waits(i)
    BY <2>2, <2>3 DEF Waits
  <2> QED BY <2>1, <2>2, <2>4 DEF Placed
<1>2. EventsInv => EventsArrive
  BY <1>1 DEF EventsInv, EventsArrive
<1> QED BY <1>2, EventsInvariant, PTL

-----------------------------------------------------------------------------
(* All ways together.                                                      *)

\* Every part of the state has its type: the calls of a trigger stay inside its stages, the
\* walks of a dispatcher inside its arrays, and a reading thread inside its batch.
THEOREM ReceptionTyped == Spec => []TypeOK
<1>1. EventsInv => EventsTypeOK
  <2> SUFFICES ASSUME EventsInv PROVE EventsTypeOK
    OBVIOUS
  <2>1. EventsTyped /\ InPlace
    BY DEF EventsInv
  <2>2. ASSUME NEW k \in DOMAIN pending, NEW i \in Waiting(k) PROVE i \in DOMAIN batch
    <3>1. k \in Sorts
      BY <2>1 DEF EventsTyped
    <3>2. i \in 1 .. next - 1
      BY <2>1, <3>1 DEF Waiting, InPlace
    <3> QED BY <2>1, <3>2, EventsAre
  <2>3. emitted.gen \union emitted.abs \subseteq DOMAIN batch
    BY <2>1 DEF EventsTyped
  <2> QED BY <2>1, <2>2, <2>3 DEF EventsTyped, EventsTypeOK
<1>2. StagedInv => StagedTypeOK
  BY DEF StagedInv
<1>3. Init => side \in {"trigger", "dispatch", "events"}
  BY DEF Init
<1>4. side \in {"trigger", "dispatch", "events"} /\ [Next]_vars => (side \in {"trigger", "dispatch", "events"})'
  BY DEF Next, vars
<1> QED
  BY <1>1, <1>2, <1>3, <1>4, StagedInvariant, DispatchTyped, EventsInvariant, PTL DEF Spec, TypeOK
=============================================================================
