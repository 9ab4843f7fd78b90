---------------------------- MODULE ArraysProofs ----------------------------
(***************************************************************************)
(* Lemmas about the functions of src/util/array.c: what each of them       *)
(* leaves in the array, when it succeeds and when it fails, for elements   *)
(* of any kind and any order between them.                                 *)
(***************************************************************************)
EXTENDS Arrays, FiniteSetTheorems, TLAPS

Sizes == Limit \in Nat /\ FirstSize \in Nat

\* An array whose cells are of E, used and allocated within their bounds.
IsArray(a, E) ==
  /\ a \in [cells : Seq(E), used : Nat]
  /\ a.used <= Len(a.cells) /\ Len(a.cells) <= Limit

Holds(a, s) == a.used = Len(s) /\ \A i \in 1..Len(s) : a.cells[i] = s[i]

\* What a call leaves of an array that held s: t if it succeeds, s if not.
Leaves(r, E, s, t) ==
  /\ r.failed \in BOOLEAN /\ IsArray(r.arr, E)
  /\ Holds(r.arr, IF r.failed THEN s ELSE t)

LEMMA DoneIs ==
  ASSUME NEW a
  PROVE  Done(a).arr = a /\ ~ Done(a).failed /\ Done(a).failed \in BOOLEAN
BY DEF Done

LEMMA FailsIs ==
  ASSUME NEW a
  PROVE  Fails(a).arr = a /\ Fails(a).failed /\ Fails(a).failed \in BOOLEAN
BY DEF Fails

LEMMA HoldsIts ==
  ASSUME NEW E, NEW a, IsArray(a, E), NEW s \in Seq(E), Holds(a, s)
  PROVE  Contents(a) = s
<1>1. a.used \in Nat /\ a.cells \in Seq(E) /\ a.used <= Len(a.cells)
  BY DEF IsArray
<1>2. /\ Contents(a) \in Seq(E) /\ Len(Contents(a)) = a.used
      /\ \A i \in 1..a.used : Contents(a)[i] = a.cells[i]
  BY <1>1 DEF Contents
<1> QED BY <1>2 DEF Holds

LEMMA ItsContents ==
  ASSUME NEW E, NEW a, IsArray(a, E)
  PROVE  Contents(a) \in Seq(E) /\ Len(Contents(a)) = a.used /\ Holds(a, Contents(a))
<1>1. a.used \in Nat /\ a.cells \in Seq(E) /\ a.used <= Len(a.cells)
  BY DEF IsArray
<1>2. /\ Contents(a) \in Seq(E) /\ Len(Contents(a)) = a.used
      /\ \A i \in 1..a.used : Contents(a)[i] = a.cells[i]
  BY <1>1 DEF Contents
<1> QED BY <1>2 DEF Holds

AsJoined(w, E, s, t) ==
  /\ w \in Seq(E) /\ Len(w) = Len(s) + Len(t)
  /\ \A i \in 1..Len(s) : w[i] = s[i]
  /\ \A i \in 1..Len(s) + Len(t) : i > Len(s) => w[i] = t[i - Len(s)]

LEMMA Joined ==
  ASSUME NEW E, NEW s \in Seq(E), NEW t \in Seq(E)
  PROVE  AsJoined(s \o t, E, s, t)
BY DEF AsJoined

AsWritten(w, E, cells, pos, src) ==
  /\ w \in Seq(E) /\ Len(w) = Len(cells)
  /\ \A i \in 1..Len(cells) : i <= pos => w[i] = cells[i]
  /\ \A i \in 1..Len(cells) : pos < i /\ i <= pos + Len(src) => w[i] = src[i - pos]
  /\ \A i \in 1..Len(cells) : pos + Len(src) < i => w[i] = cells[i]

LEMMA WrittenOver ==
  ASSUME NEW E, NEW cells \in Seq(E), NEW src \in Seq(E), NEW pos \in Nat, pos + Len(src) <= Len(cells)
  PROVE  AsWritten(Written(cells, pos, src), E, cells, pos, src)
<1> DEFINE u == SubSeq(cells, 1, pos)
           v == SubSeq(cells, pos + Len(src) + 1, Len(cells))
<1>1. u \in Seq(E) /\ Len(u) = pos /\ \A i \in 1..pos : u[i] = cells[i]
  OBVIOUS
<1>2. /\ v \in Seq(E) /\ Len(v) = Len(cells) - (pos + Len(src))
      /\ \A i \in 1..Len(v) : v[i] = cells[i + pos + Len(src)]
  OBVIOUS
<1>3. Written(cells, pos, src) = u \o src \o v
  BY DEF Written
<1> HIDE DEF u, v
<1>0. Len(cells) \in Nat /\ Len(src) \in Nat
  OBVIOUS
<1> DEFINE w == u \o src
<1>4. /\ w \in Seq(E) /\ Len(w) = pos + Len(src)
      /\ \A i \in 1..pos : w[i] = u[i]
      /\ \A i \in 1..pos + Len(src) : i > pos => w[i] = src[i - pos]
  <2>1. AsJoined(u \o src, E, u, src)
    BY <1>1, Joined
  <2> QED BY <1>1, <2>1 DEF AsJoined
<1>5. /\ w \o v \in Seq(E) /\ Len(w \o v) = Len(cells)
      /\ \A i \in 1..pos + Len(src) : (w \o v)[i] = w[i]
      /\ \A i \in 1..Len(cells) : i > pos + Len(src) => (w \o v)[i] = v[i - (pos + Len(src))]
  <2> HIDE DEF w
  <2>1. Len(w) + Len(v) = Len(cells)
    <3>1. Len(w) = pos + Len(src) /\ Len(v) = Len(cells) - (pos + Len(src)) /\ pos \in Int
      BY <1>2, <1>4
    <3> QED BY <1>0, <3>1
  <2>2. AsJoined(w \o v, E, w, v)
    BY <1>2, <1>4, Joined
  <2> QED BY <1>4, <2>1, <2>2 DEF AsJoined
<1> HIDE DEF w
<1>6. ASSUME NEW i \in 1..Len(cells)
      PROVE  /\ i <= pos => (w \o v)[i] = cells[i]
             /\ pos < i /\ i <= pos + Len(src) => (w \o v)[i] = src[i - pos]
             /\ pos + Len(src) < i => (w \o v)[i] = cells[i]
  <2>1. CASE i <= pos
    BY <1>0, <1>1, <1>4, <1>5, <2>1
  <2>2. CASE pos < i /\ i <= pos + Len(src)
    BY <1>0, <1>4, <1>5, <2>2
  <2>3. CASE i > pos + Len(src)
    <3>1. i - (pos + Len(src)) \in 1..Len(v)
      BY <1>0, <1>2, <2>3
    <3>2. v[i - (pos + Len(src))] = cells[i]
      BY <1>0, <1>2, <3>1
    <3> QED BY <1>0, <1>5, <2>3, <3>2
  <2> QED BY <1>0, <2>1, <2>2, <2>3
<1>7. Written(cells, pos, src) = w \o v
  BY <1>3 DEF w
<1> QED BY <1>5, <1>6, <1>7 DEF AsWritten

LEMMA CopiesAre ==
  ASSUME NEW E, NEW x \in E, NEW n \in Int
  PROVE  /\ Copies(x, n) \in Seq(E) /\ Len(Copies(x, n)) \in Nat
         /\ n >= 0 => Len(Copies(x, n)) = n
         /\ n <= 0 => Len(Copies(x, n)) = 0
         /\ \A i \in 1..Len(Copies(x, n)) : Copies(x, n)[i] = x
BY DEF Copies

-----------------------------------------------------------------------------
(* Sizes                                                                   *)

LEMMA DeinitIs ==
  ASSUME NEW E, Sizes
  PROVE  IsArray(mcr_Array_deinit, E) /\ Holds(mcr_Array_deinit, << >>) /\ Size(mcr_Array_deinit) = 0
BY DEF mcr_Array_deinit, IsArray, Holds, Sizes, Size

AsResized(r, E, a, n) ==
  /\ r.failed \in BOOLEAN /\ IsArray(r.arr, E)
  /\ r.failed => n > Limit /\ Size(r.arr) = Size(a) /\ r.arr.used = a.used
  /\ ~ r.failed => Size(r.arr) = n /\ r.arr.used = Least(n, a.used)
  /\ \A i \in 1..r.arr.used : r.arr.cells[i] = a.cells[i]

LEMMA ResizeKeeps ==
  ASSUME NEW E, Garbage \in E, Sizes, NEW a, IsArray(a, E), NEW n \in Nat
  PROVE  AsResized(mcr_Array_resize(a, n), E, a, n)
<1> DEFINE r == mcr_Array_resize(a, n)
<1> SUFFICES /\ r.failed \in BOOLEAN /\ IsArray(r.arr, E)
             /\ r.failed => n > Limit /\ Size(r.arr) = Size(a) /\ r.arr.used = a.used
             /\ ~ r.failed => Size(r.arr) = n /\ r.arr.used = Least(n, a.used)
             /\ \A i \in 1..r.arr.used : r.arr.cells[i] = a.cells[i]
  BY DEF AsResized
<1>1. a.used \in Nat /\ a.cells \in Seq(E) /\ a.used <= Len(a.cells) /\ Len(a.cells) <= Limit /\ Len(a.cells) \in Nat
      /\ Limit \in Nat
  BY DEF IsArray, Sizes
<1> DEFINE kept == [a EXCEPT !.used = Least(n, @)]
<1>k. kept \in [cells : Seq(E), used : Nat] /\ kept.cells = a.cells /\ kept.used = Least(n, a.used)
  BY DEF IsArray, Least
<1>2. CASE n = Size(a)
  <2>1. r.failed \in BOOLEAN /\ ~ r.failed /\ r.arr = a
    BY <1>2, DoneIs DEF mcr_Array_resize
  <2> QED BY <1>1, <1>2, <2>1 DEF Size, Least
<1>3. CASE n # Size(a) /\ n = 0
  <2>1. r.failed \in BOOLEAN /\ ~ r.failed /\ r.arr = mcr_Array_deinit
    BY <1>3, DoneIs DEF mcr_Array_resize
  <2>2. IsArray(mcr_Array_deinit, E) /\ Size(mcr_Array_deinit) = 0 /\ mcr_Array_deinit.used = 0
    BY DeinitIs DEF mcr_Array_deinit
  <2> QED BY <1>1, <1>3, <2>1, <2>2 DEF Least
<1>4. CASE n # Size(a) /\ n # 0 /\ n > Limit
  <2>1. Least(n, a.used) = a.used
    BY <1>1, <1>4 DEF Least
  <2>2. r.failed \in BOOLEAN /\ r.failed /\ r.arr = kept
    BY <1>4, FailsIs DEF mcr_Array_resize
  <2> HIDE DEF kept
  <2> QED BY <1>1, <1>k, <1>4, <2>1, <2>2 DEF IsArray, Size
<1>5. CASE n # Size(a) /\ n # 0 /\ ~ (n > Limit)
  <2> DEFINE u == SubSeq(a.cells, 1, Least(n, Size(a)))
             v == Copies(Garbage, n - Size(a))
  <2>1. n - Size(a) \in Int /\ Size(a) = Len(a.cells)
    BY <1>1 DEF Size
  <2>2. /\ v \in Seq(E) /\ Len(v) \in Nat
        /\ n - Size(a) >= 0 => Len(v) = n - Size(a)
        /\ n - Size(a) <= 0 => Len(v) = 0
    BY <2>1, CopiesAre
  <2>3. u \in Seq(E) /\ Len(u) = Least(n, Size(a)) /\ \A i \in 1..Least(n, Size(a)) : u[i] = a.cells[i]
    BY <1>1, <2>1 DEF Least
  <2>4. r.failed \in BOOLEAN /\ ~ r.failed /\ r.arr = [kept EXCEPT !.cells = SubSeq(@, 1, Least(n, Size(a))) \o v]
    BY <1>5, DoneIs DEF mcr_Array_resize
  <2>5. r.arr.cells = u \o v /\ r.arr.used = Least(n, a.used)
    BY <1>k, <2>4
  <2> HIDE DEF kept, u, v
  <2>6. /\ u \o v \in Seq(E) /\ Len(u \o v) = Len(u) + Len(v)
        /\ \A i \in 1..Len(u) : (u \o v)[i] = u[i]
    <3>1. AsJoined(u \o v, E, u, v)
      BY <2>2, <2>3, Joined
    <3> QED BY <3>1 DEF AsJoined
  <2>7. Len(u \o v) = n /\ Least(n, a.used) \in 0..n /\ Least(n, a.used) \in 0..Len(u)
    <3>1. CASE n > Size(a)
      <4>1. Least(n, Size(a)) = Size(a) /\ Least(n, a.used) = a.used
        BY <1>1, <2>1, <3>1 DEF Least
      <4> QED BY <1>1, <2>1, <2>2, <2>3, <2>6, <3>1, <4>1
    <3>2. CASE n <= Size(a)
      <4>1. Least(n, Size(a)) = n
        BY <1>1, <2>1, <3>2 DEF Least
      <4>2. Least(n, a.used) \in 0..n
        BY <1>1 DEF Least
      <4> QED BY <1>1, <2>1, <2>2, <2>3, <2>6, <3>2, <4>1, <4>2
    <3> QED BY <1>1, <2>1, <3>1, <3>2
  <2>8. r.arr \in [cells : Seq(E), used : Nat]
    BY <1>k, <2>2, <2>3, <2>4, <2>6, <2>7 DEF u
  <2>9. \A i \in 1..r.arr.used : r.arr.cells[i] = a.cells[i]
    BY <1>1, <2>3, <2>5, <2>6, <2>7
  <2>10. IsArray(r.arr, E)
    BY <1>1, <1>5, <2>5, <2>7, <2>8 DEF IsArray
  <2> QED BY <2>4, <2>5, <2>7, <2>9, <2>10 DEF Size
<1> QED BY <1>2, <1>3, <1>4, <1>5

AsMinused(r, E, a, n) ==
  /\ r.failed \in BOOLEAN /\ IsArray(r.arr, E)
  /\ r.arr.used = IF n > a.used /\ ~ r.failed THEN n ELSE a.used
  /\ \A i \in 1..a.used : r.arr.cells[i] = a.cells[i]

LEMMA MinusedKeeps ==
  ASSUME NEW E, Garbage \in E, Sizes, NEW a, IsArray(a, E), NEW n \in Nat
  PROVE  AsMinused(mcr_Array_minused(a, n), E, a, n)
<1> DEFINE r == mcr_Array_minused(a, n)
<1> SUFFICES /\ r.failed \in BOOLEAN /\ IsArray(r.arr, E)
             /\ r.arr.used = IF n > a.used /\ ~ r.failed THEN n ELSE a.used
             /\ \A i \in 1..a.used : r.arr.cells[i] = a.cells[i]
  BY DEF AsMinused
<1>1. a.used \in Nat /\ a.cells \in Seq(E)
  BY DEF IsArray
<1>2. CASE a.used >= n
  <2>1. r.failed \in BOOLEAN /\ ~ r.failed /\ r.arr = a
    BY <1>1, <1>2, DoneIs DEF mcr_Array_minused
  <2> QED BY <1>1, <1>2, <2>1
<1>3. CASE a.used < n
  <2> DEFINE q == mcr_Array_resize(a, n)
  <2>1. /\ q.failed \in BOOLEAN /\ IsArray(q.arr, E)
        /\ q.failed => q.arr.used = a.used
        /\ ~ q.failed => Size(q.arr) = n /\ q.arr.used = Least(n, a.used)
        /\ \A i \in 1..q.arr.used : q.arr.cells[i] = a.cells[i]
    <3>1. AsResized(q, E, a, n)
      BY ResizeKeeps
    <3> HIDE DEF q
    <3> QED BY <3>1 DEF AsResized
  <2>2. q.arr.used = a.used
    BY <1>1, <1>3, <2>1 DEF Least
  <2>3. r = IF q.failed THEN q ELSE Done([q.arr EXCEPT !.used = n])
    BY <1>1, <1>3 DEF mcr_Array_minused, Then
  <2> HIDE DEF q
  <2>4. CASE q.failed
    BY <1>1, <2>1, <2>2, <2>3, <2>4
  <2>5. CASE ~ q.failed
    <3>1. r.failed \in BOOLEAN /\ ~ r.failed /\ r.arr = [q.arr EXCEPT !.used = n]
      BY <2>3, <2>5, DoneIs
    <3>2. r.arr.cells = q.arr.cells /\ r.arr.used = n /\ r.arr \in [cells : Seq(E), used : Nat]
      BY <2>1, <3>1 DEF IsArray
    <3> QED BY <1>1, <1>3, <2>1, <2>2, <3>1, <3>2, <2>5 DEF IsArray, Size
  <2> QED BY <2>1, <2>4, <2>5
<1> QED BY <1>1, <1>2, <1>3

Keeps(r, E, a) ==
  /\ r.failed \in BOOLEAN /\ IsArray(r.arr, E) /\ r.arr.used = a.used
  /\ \A i \in 1..a.used : r.arr.cells[i] = a.cells[i]

LEMMA KeptHolds ==
  ASSUME NEW E, NEW a, NEW r, Keeps(r, E, a), NEW s \in Seq(E), Holds(a, s)
  PROVE  r.failed \in BOOLEAN /\ IsArray(r.arr, E) /\ Holds(r.arr, s) /\ Leaves(r, E, s, s)
BY DEF Keeps, Holds, Leaves

LEMMA DoneKeeps ==
  ASSUME NEW E, NEW a, IsArray(a, E)
  PROVE  Keeps(Done(a), E, a) /\ Keeps(Fails(a), E, a)
BY DoneIs, FailsIs DEF Keeps, IsArray

LEMMA GrownKeeps ==
  ASSUME NEW E, Garbage \in E, Sizes, NEW a, IsArray(a, E), NEW n \in Nat, n >= a.used
  PROVE  /\ Keeps(mcr_Array_resize(a, n), E, a)
         /\ ~ mcr_Array_resize(a, n).failed => Size(mcr_Array_resize(a, n).arr) = n
<1> DEFINE r == mcr_Array_resize(a, n)
<1>1. a.used \in Nat
  BY DEF IsArray
<1>2. Least(n, a.used) = a.used
  BY <1>1 DEF Least
<1>3. /\ r.failed \in BOOLEAN /\ IsArray(r.arr, E) /\ r.arr.used = a.used
      /\ ~ r.failed => Size(r.arr) = n
      /\ \A i \in 1..r.arr.used : r.arr.cells[i] = a.cells[i]
  BY <1>2, ResizeKeeps DEF AsResized
<1> QED BY <1>3 DEF Keeps

LEMMA SmartsizeKeeps ==
  ASSUME NEW E, Garbage \in E, Sizes, NEW a, IsArray(a, E), NEW count \in Nat, NEW r, r = mcr_Array_smartsize(a, count)
  PROVE  /\ Keeps(r, E, a)
         /\ ~ r.failed /\ a.used > 0 => a.used + count <= Size(r.arr)
<1>1. a.used \in Nat /\ Size(a) \in Nat /\ a.used <= Size(a) /\ FirstSize \in Nat
  BY DEF IsArray, Size, Sizes
<1>2. CASE count = 1 /\ a.used = Size(a) /\ Size(a) = 0
  <2>1. r = mcr_Array_resize(a, FirstSize) /\ FirstSize >= a.used
    BY <1>1, <1>2 DEF mcr_Array_smartsize
  <2> QED BY <1>1, <1>2, <2>1, GrownKeeps
<1>3. CASE count = 1 /\ a.used = Size(a) /\ Size(a) # 0
  <2>1. r = mcr_Array_resize(a, 2 * Size(a)) /\ 2 * Size(a) >= a.used /\ 2 * Size(a) \in Nat
    BY <1>1, <1>3 DEF mcr_Array_smartsize
  <2>2. Keeps(r, E, a) /\ (~ r.failed => Size(r.arr) = 2 * Size(a))
    BY <2>1, GrownKeeps
  <2> QED BY <1>1, <1>3, <2>2
<1>4. CASE ~ (count = 1 /\ a.used = Size(a)) /\ a.used + count > Size(a) /\ count > 0
  <2>1. r = mcr_Array_resize(a, a.used + count) /\ a.used + count >= a.used /\ a.used + count \in Nat
    BY <1>1, <1>4 DEF mcr_Array_smartsize
  <2>2. Keeps(r, E, a) /\ (~ r.failed => Size(r.arr) = a.used + count)
    BY <2>1, GrownKeeps
  <2> QED BY <1>1, <2>2
<1>5. CASE ~ (count = 1 /\ a.used = Size(a)) /\ ~ (a.used + count > Size(a) /\ count > 0)
  <2>1. r = Done(a)
    BY <1>5 DEF mcr_Array_smartsize
  <2>2. a.used + count <= Size(a)
    BY <1>1, <1>5
  <2> QED BY <2>1, <2>2, DoneKeeps, DoneIs
<1> QED BY <1>2, <1>3, <1>4, <1>5

LEMMA MinsizeKeeps ==
  ASSUME NEW E, Garbage \in E, Sizes, NEW a, IsArray(a, E), NEW n \in Nat
  PROVE  Keeps(mcr_Array_minsize(a, n), E, a)
<1>1. a.used \in Nat /\ Size(a) \in Nat /\ a.used <= Size(a)
  BY DEF IsArray, Size
<1>2. CASE Size(a) < n
  BY <1>1, <1>2, GrownKeeps DEF mcr_Array_minsize
<1>3. CASE ~ (Size(a) < n)
  BY <1>3, DoneKeeps DEF mcr_Array_minsize
<1> QED BY <1>2, <1>3

LEMMA TrimKeeps ==
  ASSUME NEW E, Garbage \in E, Sizes, NEW a, IsArray(a, E)
  PROVE  Keeps(Done(mcr_Array_trim(a)), E, a)
<1>1. a.used \in Nat
  BY DEF IsArray
<1>2. Keeps(mcr_Array_resize(a, a.used), E, a)
  BY <1>1, GrownKeeps
<1> QED BY <1>2, DoneIs DEF Keeps, mcr_Array_trim

LEMMA MinusedEnough ==
  ASSUME NEW E, NEW a, IsArray(a, E), NEW n \in Nat, n <= a.used
  PROVE  mcr_Array_minused(a, n) = Done(a)
<1>1. a.used \in Nat
  BY DEF IsArray
<1> QED BY <1>1 DEF mcr_Array_minused

\* With fewer elements.
LEMMA ShorterHolds ==
  ASSUME NEW E, NEW a, IsArray(a, E), NEW s \in Seq(E), Holds(a, s), NEW n \in 0..Len(s)
  PROVE  IsArray([a EXCEPT !.used = n], E) /\ Holds([a EXCEPT !.used = n], SubSeq(s, 1, n))
<1>1. a.used = Len(s) /\ a.used \in Nat /\ Len(a.cells) \in Nat /\ a.used <= Len(a.cells)
  BY DEF IsArray, Holds
<1> DEFINE b == [a EXCEPT !.used = n]
<1>2. b \in [cells : Seq(E), used : Nat] /\ b.cells = a.cells /\ b.used = n
  BY DEF IsArray
<1>3. Len(SubSeq(s, 1, n)) = n /\ \A i \in 1..n : SubSeq(s, 1, n)[i] = s[i]
  OBVIOUS
<1> HIDE DEF b
<1>4. IsArray(b, E)
  BY <1>1, <1>2 DEF IsArray
<1>5. Holds(b, SubSeq(s, 1, n))
  BY <1>1, <1>2, <1>3 DEF Holds
<1> QED BY <1>4, <1>5 DEF b

LEMMA ResizeLeaves ==
  ASSUME NEW E, Garbage \in E, Sizes, NEW a, IsArray(a, E), NEW s \in Seq(E), Holds(a, s), NEW n \in Nat
  PROVE  Leaves(mcr_Array_resize(a, n), E, s, SubSeq(s, 1, Least(n, Len(s))))
<1> DEFINE r == mcr_Array_resize(a, n)
           t == SubSeq(s, 1, Least(n, Len(s)))
<1>1. a.used = Len(s) /\ Len(s) \in Nat
  BY DEF Holds
<1>2. Least(n, Len(s)) \in 0..Len(s)
  BY <1>1 DEF Least
<1>3. Len(t) = Least(n, Len(s)) /\ \A i \in 1..Len(t) : t[i] = s[i]
  BY <1>2
<1>4. /\ r.failed \in BOOLEAN /\ IsArray(r.arr, E)
      /\ r.failed => r.arr.used = a.used
      /\ ~ r.failed => r.arr.used = Least(n, a.used)
      /\ \A i \in 1..r.arr.used : r.arr.cells[i] = a.cells[i]
  BY ResizeKeeps DEF AsResized
<1> HIDE DEF r, t
<1>5. r.failed => Holds(r.arr, s)
  BY <1>4 DEF Holds
<1>6. ~ r.failed => Holds(r.arr, t)
  BY <1>1, <1>2, <1>3, <1>4 DEF Holds
<1>7. Leaves(r, E, s, t)
  BY <1>4, <1>5, <1>6 DEF Leaves
<1> QED BY <1>7 DEF r, t

-----------------------------------------------------------------------------
(* Elements that are written over others, or behind them                   *)

Over(s, pos, src) == SubSeq(s, 1, pos) \o src \o SubSeq(s, pos + Len(src) + 1, Len(s))

AsOver(o, E, s, pos, src) ==
  /\ o \in Seq(E)
  /\ Len(s) <= pos + Len(src) => Len(o) = pos + Len(src)
  /\ pos + Len(src) <= Len(s) => Len(o) = Len(s)
  /\ \A i \in 1..Len(o) : i <= pos => o[i] = s[i]
  /\ \A i \in 1..Len(o) : pos < i /\ i <= pos + Len(src) => o[i] = src[i - pos]
  /\ \A i \in 1..Len(o) : pos + Len(src) < i => o[i] = s[i]

LEMMA OverIs ==
  ASSUME NEW E, NEW s \in Seq(E), NEW src \in Seq(E), NEW pos \in 0..Len(s)
  PROVE  AsOver(Over(s, pos, src), E, s, pos, src)
<1>0. Len(s) \in Nat /\ Len(src) \in Nat /\ pos \in Nat
  OBVIOUS
<1> DEFINE u == SubSeq(s, 1, pos)
           v == SubSeq(s, pos + Len(src) + 1, Len(s))
           w == u \o src
<1>1. u \in Seq(E) /\ Len(u) = pos /\ \A i \in 1..pos : u[i] = s[i]
  OBVIOUS
<1>2. v \in Seq(E)
  OBVIOUS
<1>3. pos + Len(src) <= Len(s) =>
        Len(v) = Len(s) - (pos + Len(src)) /\ \A i \in 1..Len(v) : v[i] = s[i + pos + Len(src)]
  OBVIOUS
<1>4. Len(s) <= pos + Len(src) => Len(v) = 0
  OBVIOUS
<1>5. Over(s, pos, src) = w \o v
  BY DEF Over
<1> HIDE DEF u, v
<1>6. /\ w \in Seq(E) /\ Len(w) = pos + Len(src)
      /\ \A i \in 1..pos : w[i] = u[i]
      /\ \A i \in 1..pos + Len(src) : i > pos => w[i] = src[i - pos]
  <2>1. AsJoined(u \o src, E, u, src)
    BY <1>1, Joined
  <2> QED BY <1>1, <2>1 DEF AsJoined
<1> HIDE DEF w
<1>7. /\ w \o v \in Seq(E) /\ Len(w \o v) = pos + Len(src) + Len(v)
      /\ \A i \in 1..pos + Len(src) : (w \o v)[i] = w[i]
      /\ \A i \in 1..Len(w \o v) : i > pos + Len(src) => (w \o v)[i] = v[i - (pos + Len(src))]
  <2>1. AsJoined(w \o v, E, w, v)
    BY <1>2, <1>6, Joined
  <2> QED BY <1>6, <2>1 DEF AsJoined
<1>8. ASSUME NEW i \in 1..Len(w \o v)
      PROVE  /\ i <= pos => (w \o v)[i] = s[i]
             /\ pos < i /\ i <= pos + Len(src) => (w \o v)[i] = src[i - pos]
             /\ pos + Len(src) < i => (w \o v)[i] = s[i]
  <2>1. CASE i <= pos
    BY <1>0, <1>1, <1>6, <1>7, <2>1
  <2>2. CASE pos < i /\ i <= pos + Len(src)
    BY <1>0, <1>6, <1>7, <2>2
  <2>3. CASE i > pos + Len(src)
    <3>0. Len(v) \in Nat
      BY <1>2
    <3>1. i - (pos + Len(src)) \in 1..Len(v)
      BY <1>0, <1>7, <2>3, <3>0
    <3>2. pos + Len(src) <= Len(s)
      BY <1>0, <1>4, <3>0, <3>1
    <3>3. v[i - (pos + Len(src))] = s[i]
      BY <1>0, <1>3, <3>0, <3>1, <3>2
    <3> QED BY <1>0, <1>7, <2>3, <3>3
  <2> QED BY <1>0, <2>1, <2>2, <2>3
<1>9. /\ Len(s) <= pos + Len(src) => Len(w \o v) = pos + Len(src)
      /\ pos + Len(src) <= Len(s) => Len(w \o v) = Len(s)
  <2>1. pos + Len(src) <= Len(s) => Len(v) = Len(s) - (pos + Len(src))
    BY <1>3
  <2>2. Len(w \o v) = (pos + Len(src)) + Len(v)
    BY <1>7
  <2> QED BY <1>0, <1>4, <2>1, <2>2
<1> QED BY <1>5, <1>7, <1>8, <1>9 DEF AsOver

LEMMA OverNothing ==
  ASSUME NEW E, NEW s \in Seq(E), NEW src \in Seq(E), NEW pos \in 0..Len(s), Len(src) = 0
  PROVE  Over(s, pos, src) = s
<1> DEFINE o == Over(s, pos, src)
<1>1. pos \in Nat /\ Len(s) \in Nat /\ pos + Len(src) = pos
  OBVIOUS
<1>0. AsOver(o, E, s, pos, src)
  BY OverIs
<1> HIDE DEF o
<1>2. o \in Seq(E) /\ (pos + Len(src) <= Len(s) => Len(o) = Len(s))
  BY <1>0 DEF AsOver
<1>3. Len(o) = Len(s)
  BY <1>1, <1>2
<1>4. ASSUME NEW i \in 1..Len(o)
      PROVE  (i <= pos => o[i] = s[i]) /\ (pos + Len(src) < i => o[i] = s[i])
  BY <1>0 DEF AsOver
<1>5. \A i \in 1..Len(o) : o[i] = s[i]
  BY <1>1, <1>4
<1>6. o = s
  BY <1>2, <1>3, <1>5
<1> QED BY <1>6 DEF o

\* Room for src over s at pos.
TakesOver(b, s, pos, src) ==
  /\ Len(s) <= pos + Len(src) => b.used = pos + Len(src)
  /\ pos + Len(src) <= Len(s) => b.used = Len(s)
  /\ \A i \in 1..Len(s) : i <= pos \/ pos + Len(src) < i => b.cells[i] = s[i]

OverIn(b, pos, src) == [b EXCEPT !.cells = Written(@, pos, src)]

LEMMA WriteOver ==
  ASSUME NEW E, NEW b, IsArray(b, E), NEW s \in Seq(E), NEW src \in Seq(E), NEW pos \in 0..Len(s),
         TakesOver(b, s, pos, src)
  PROVE  /\ IsArray(OverIn(b, pos, src), E) /\ Holds(OverIn(b, pos, src), Over(s, pos, src))
         /\ Size(OverIn(b, pos, src)) = Size(b)
<1> DEFINE c == OverIn(b, pos, src)
<1>p. /\ Len(s) <= pos + Len(src) => b.used = pos + Len(src)
      /\ pos + Len(src) <= Len(s) => b.used = Len(s)
      /\ \A i \in 1..Len(s) : i <= pos \/ pos + Len(src) < i => b.cells[i] = s[i]
  BY DEF TakesOver
<1>1. /\ b.used \in Nat /\ b.cells \in Seq(E) /\ b.used <= Len(b.cells) /\ Len(b.cells) <= Limit /\ Len(b.cells) \in Nat
      /\ Len(s) \in Nat /\ Len(src) \in Nat /\ pos \in Nat
  BY DEF IsArray
<1>2. pos + Len(src) <= Len(b.cells)
  BY <1>1, <1>p
<1> DEFINE w == Written(b.cells, pos, src)
           o == Over(s, pos, src)
<1>3. /\ w \in Seq(E) /\ Len(w) = Len(b.cells)
      /\ \A i \in 1..Len(b.cells) : i <= pos => w[i] = b.cells[i]
      /\ \A i \in 1..Len(b.cells) : pos < i /\ i <= pos + Len(src) => w[i] = src[i - pos]
      /\ \A i \in 1..Len(b.cells) : pos + Len(src) < i => w[i] = b.cells[i]
  <2>1. AsWritten(w, E, b.cells, pos, src)
    BY <1>1, <1>2, WrittenOver
  <2> HIDE DEF w
  <2> QED BY <2>1 DEF AsWritten
<1>4. c.cells = w /\ c.used = b.used /\ c \in [cells : Seq(E), used : Nat]
  BY <1>3 DEF IsArray, OverIn
<1>5. /\ Len(s) <= pos + Len(src) => Len(o) = pos + Len(src)
      /\ pos + Len(src) <= Len(s) => Len(o) = Len(s)
      /\ \A i \in 1..Len(o) : i <= pos => o[i] = s[i]
      /\ \A i \in 1..Len(o) : pos < i /\ i <= pos + Len(src) => o[i] = src[i - pos]
      /\ \A i \in 1..Len(o) : pos + Len(src) < i => o[i] = s[i]
  <2>1. AsOver(o, E, s, pos, src)
    BY OverIs
  <2> HIDE DEF o
  <2> QED BY <2>1 DEF AsOver
<1> HIDE DEF w, o, c
<1>6. b.used = Len(o)
  BY <1>1, <1>5, <1>p
<1>7. ASSUME NEW i \in 1..b.used PROVE w[i] = o[i]
  <2>0. i \in 1..Len(b.cells) /\ i \in 1..Len(o)
    BY <1>1, <1>6
  <2>1. CASE i <= pos
    <3>1. i \in 1..Len(s) /\ b.cells[i] = s[i]
      BY <1>1, <1>p, <2>1
    <3> QED BY <1>3, <1>5, <2>0, <2>1, <3>1
  <2>2. CASE pos < i /\ i <= pos + Len(src)
    BY <1>3, <1>5, <2>0, <2>2
  <2>3. CASE pos + Len(src) < i
    <3>1. i \in 1..Len(s) /\ b.cells[i] = s[i]
      BY <1>1, <1>p, <2>3
    <3> QED BY <1>3, <1>5, <2>0, <2>3, <3>1
  <2> QED BY <1>1, <2>1, <2>2, <2>3
<1>8. IsArray(c, E)
  BY <1>1, <1>3, <1>4 DEF IsArray
<1>9. Holds(c, o)
  BY <1>4, <1>6, <1>7 DEF Holds
<1> QED BY <1>3, <1>4, <1>8, <1>9 DEF Size, o, c

LEMMA CopyLeaves ==
  ASSUME NEW E, Garbage \in E, Sizes, NEW a, IsArray(a, E), NEW s \in Seq(E), Holds(a, s),
         NEW src \in Seq(E), NEW pos \in 0..Len(s)
  PROVE  Leaves(mcr_Array_copy(a, pos, src), E, s, Over(s, pos, src))
<1> DEFINE r == mcr_Array_copy(a, pos, src)
           q == mcr_Array_minused(a, pos + Len(src))
<1>1. a.used = Len(s) /\ Len(s) \in Nat /\ pos \in Nat /\ Len(src) \in Nat /\ pos + Len(src) \in Nat
  BY DEF Holds
<1>2. CASE src = << >>
  <2>1. r = Done(a)
    BY <1>2 DEF mcr_Array_copy
  <2>2. Over(s, pos, src) = s
    <3>1. Len(src) = 0
      BY <1>2
    <3> QED BY <3>1, OverNothing
  <2> QED BY <2>1, <2>2, DoneKeeps, KeptHolds
<1>3. CASE src # << >>
  <2>1. r = Then(q, LAMBDA b : Done([b EXCEPT !.cells = Written(@, pos, src)]))
    BY <1>1, <1>3 DEF mcr_Array_copy
  <2>2. /\ q.failed \in BOOLEAN /\ IsArray(q.arr, E)
        /\ q.arr.used = IF pos + Len(src) > a.used /\ ~ q.failed THEN pos + Len(src) ELSE a.used
        /\ \A i \in 1..a.used : q.arr.cells[i] = a.cells[i]
    <3>1. AsMinused(q, E, a, pos + Len(src))
      BY <1>1, MinusedKeeps
    <3> HIDE DEF q
    <3> QED BY <3>1 DEF AsMinused
  <2> HIDE DEF q, r
  <2>3. CASE q.failed
    <3>1. r = q
      BY <2>1, <2>3 DEF Then
    <3>2. Holds(q.arr, s)
      BY <2>2, <2>3, <1>1 DEF Holds
    <3> QED BY <2>2, <2>3, <3>1, <3>2 DEF Leaves, r
  <2>4. CASE ~ q.failed
    <3> DEFINE c == OverIn(q.arr, pos, src)
    <3>1. r = Done(c)
      BY <2>1, <2>4 DEF Then, OverIn
    <3>2. /\ Len(s) <= pos + Len(src) => q.arr.used = pos + Len(src)
          /\ pos + Len(src) <= Len(s) => q.arr.used = Len(s)
      BY <1>1, <2>2, <2>4
    <3>4. \A i \in 1..Len(s) : q.arr.cells[i] = s[i]
      BY <1>1, <2>2 DEF Holds
    <3>3. IsArray(c, E) /\ Holds(c, Over(s, pos, src))
      <4>1. TakesOver(q.arr, s, pos, src)
        BY <3>2, <3>4 DEF TakesOver
      <4> QED BY <2>2, <4>1, WriteOver
    <3> HIDE DEF c
    <3> QED BY <3>1, <3>3, DoneIs DEF Leaves, r
  <2> QED BY <2>2, <2>3, <2>4
<1> QED BY <1>2, <1>3

\* Filling, unless it ends in the middle or fills nothing at the end, and an element is copied.
LEMMA FillLeaves ==
  ASSUME NEW E, Garbage \in E, Sizes, NEW a, IsArray(a, E), NEW s \in Seq(E), Holds(a, s),
         NEW x \in E, NEW pos \in 0..Len(s), NEW count \in Nat, x = Zero \/ pos + count >= Len(s),
         ~ FillsNull(a, pos, x, count)
  PROVE  Leaves(mcr_Array_fill(a, pos, x, count), E, s, Over(s, pos, Copies(x, count)))
<1> DEFINE r == mcr_Array_fill(a, pos, x, count)
           src == Copies(x, count)
           q == mcr_Array_minused(a, pos + count)
<1>1. /\ a.used = Len(s) /\ Len(s) \in Nat /\ pos \in Nat /\ Len(src) = count /\ src \in Seq(E)
      /\ Least(pos, a.used) = pos /\ pos + count \in Nat
  <2>1. a.used = Len(s) /\ Len(s) \in Nat /\ pos \in Nat
    BY DEF Holds
  <2>2. src \in Seq(E) /\ Len(src) = count
    <3>1. count \in Int /\ count >= 0
      OBVIOUS
    <3> QED BY <3>1, CopiesAre
  <2> QED BY <2>1, <2>2 DEF Least
<1> HIDE DEF src
<1>2. CASE pos + count = 0
  <2>1. r = Done(a)
    BY <1>2 DEF mcr_Array_fill
  <2>2. Over(s, pos, src) = s
    <3>1. Len(src) = 0
      BY <1>1, <1>2
    <3> QED BY <1>1, <3>1, OverNothing
  <2> QED BY <2>1, <2>2, DoneKeeps, KeptHolds DEF src
<1>3. CASE pos + count # 0
  <2>1. r = Then(q, LAMBDA b : Done([b EXCEPT !.cells =
                      Written(@, pos, Copies(x, (IF x = Zero THEN pos + count ELSE b.used) - pos))]))
    BY <1>1, <1>3 DEF mcr_Array_fill
  <2>2. /\ q.failed \in BOOLEAN /\ IsArray(q.arr, E)
        /\ q.arr.used = IF pos + count > a.used /\ ~ q.failed THEN pos + count ELSE a.used
        /\ \A i \in 1..a.used : q.arr.cells[i] = a.cells[i]
    <3>1. AsMinused(q, E, a, pos + count)
      BY <1>1, MinusedKeeps
    <3> HIDE DEF q
    <3> QED BY <3>1 DEF AsMinused
  <2> HIDE DEF q, r
  <2>3. CASE q.failed
    <3>1. r = q
      BY <2>1, <2>3 DEF Then
    <3>2. Holds(q.arr, s)
      BY <2>2, <2>3, <1>1 DEF Holds
    <3> QED BY <2>2, <2>3, <3>1, <3>2 DEF Leaves, r
  <2>4. CASE ~ q.failed
    <3> DEFINE c == OverIn(q.arr, pos, src)
               k == (IF x = Zero THEN pos + count ELSE q.arr.used) - pos
    <3>0. k = count
      <4>1. CASE x = Zero
        BY <1>1, <4>1
      <4>2. CASE x # Zero
        <5>1. q.arr.used = pos + count
          BY <1>1, <2>2, <2>4, <4>2
        <5> QED BY <1>1, <4>2, <5>1
      <4> QED BY <4>1, <4>2
    <3>1. r = Done(c)
      <4>1. r = Done([q.arr EXCEPT !.cells = Written(@, pos, Copies(x, k))])
        BY <2>1, <2>4 DEF Then
      <4> HIDE DEF k
      <4> QED BY <3>0, <4>1 DEF src, OverIn
    <3>2. /\ Len(s) <= pos + Len(src) => q.arr.used = pos + Len(src)
          /\ pos + Len(src) <= Len(s) => q.arr.used = Len(s)
      BY <1>1, <2>2, <2>4
    <3>4. \A i \in 1..Len(s) : q.arr.cells[i] = s[i]
      BY <1>1, <2>2 DEF Holds
    <3>3. IsArray(c, E) /\ Holds(c, Over(s, pos, src))
      <4>1. TakesOver(q.arr, s, pos, src)
        BY <3>2, <3>4 DEF TakesOver
      <4> QED BY <1>1, <2>2, <4>1, WriteOver
    <3> HIDE DEF c
    <3> QED BY <3>1, <3>3, DoneIs DEF Leaves, r, src
  <2> QED BY <2>2, <2>3, <2>4
<1> QED BY <1>2, <1>3

\* Nothing to fill: it does not fail.
LEMMA FillNothing ==
  ASSUME NEW E, NEW a, IsArray(a, E), Zero \in E, NEW r, r = mcr_Array_fill(a, a.used, Zero, 0)
  PROVE  ~ r.failed /\ Keeps(r, E, a) /\ Size(r.arr) = Size(a)
<1>1. a.used \in Nat /\ a.cells \in Seq(E) /\ a.used <= Len(a.cells) /\ Least(a.used, a.used) = a.used
  BY DEF IsArray, Least
<1>2. CASE a.used = 0
  <2>1. r = Done(a)
    BY <1>1, <1>2 DEF mcr_Array_fill
  <2> QED BY <2>1, DoneIs, DoneKeeps
<1>3. CASE a.used # 0
  <2> DEFINE s == Contents(a)
             none == Copies(Zero, a.used - a.used)
             c == OverIn(a, a.used, none)
  <2>1. mcr_Array_minused(a, a.used) = Done(a)
    BY <1>1, MinusedEnough
  <2>2. r = Then(Done(a), LAMBDA b : Done([b EXCEPT !.cells = Written(@, a.used, Copies(Zero, (a.used + 0) - a.used))]))
    BY <1>1, <1>3, <2>1 DEF mcr_Array_fill, FillsNull
  <2>3. r = Done(c)
    BY <1>1, <2>2, DoneIs DEF Then, OverIn
  <2>4. none \in Seq(E) /\ Len(none) = 0
    BY <1>1, CopiesAre
  <2>5. s \in Seq(E) /\ Len(s) = a.used /\ Holds(a, s) /\ a.used \in 0..Len(s)
    BY <1>1, ItsContents
  <2> HIDE DEF s, none
  <2>6. \A i \in 1..Len(s) : a.cells[i] = s[i]
    BY <2>5 DEF Holds
  <2>7. IsArray(c, E) /\ Size(c) = Size(a) /\ Holds(c, Over(s, a.used, none))
    <3>1. /\ Len(s) <= a.used + Len(none) => a.used = a.used + Len(none)
          /\ a.used + Len(none) <= Len(s) => a.used = Len(s)
      BY <1>1, <2>4, <2>5
    <3>2. TakesOver(a, s, a.used, none)
      BY <2>6, <3>1 DEF TakesOver
    <3>3. Zero \in E /\ a.used \in 0..Len(s) /\ none \in Seq(E) /\ s \in Seq(E)
      BY <2>4, <2>5
    <3> QED BY <3>2, <3>3, WriteOver, Zenon
  <2>8. Over(s, a.used, none) = s
    BY <2>4, <2>5, OverNothing
  <2> HIDE DEF c
  <2>9. c.used = a.used /\ \A i \in 1..a.used : c.cells[i] = a.cells[i]
    BY <2>5, <2>6, <2>7, <2>8 DEF Holds
  <2> QED BY <2>3, <2>7, <2>9, DoneIs DEF Keeps
<1> QED BY <1>2, <1>3

-----------------------------------------------------------------------------
(* Elements that are moved, inserted and removed                           *)

Part(s, from, count) == SubSeq(s, from + 1, Least(from + count, Len(s)))

LEMMA PartIs ==
  ASSUME NEW E, NEW s \in Seq(E), NEW from \in 0..Len(s), NEW count \in Nat
  PROVE  /\ Part(s, from, count) \in Seq(E)
         /\ Len(Part(s, from, count)) = Least(from + count, Len(s)) - from
         /\ Len(Part(s, from, count)) \in 0..count
         /\ \A i \in 1..Len(Part(s, from, count)) : Part(s, from, count)[i] = s[from + i]
<1> DEFINE m == Least(from + count, Len(s))
<1>1. m \in from..Len(s) /\ m <= from + count /\ from \in Nat /\ Len(s) \in Nat
  BY DEF Least
<1>2. Part(s, from, count) = SubSeq(s, from + 1, m)
  BY DEF Part
<1> HIDE DEF m
<1> DEFINE p == SubSeq(s, from + 1, m)
<1>3. p \in Seq(E) /\ Len(p) = m - from /\ \A i \in 1..Len(p) : p[i] = s[from + i]
  <2>1. Len(p) = m - from
    BY <1>1
  <2>2. p \in Seq(E)
    BY <1>1
  <2>3. \A i \in 1..m - from : p[i] = s[from + i]
    BY <1>1
  <2> QED BY <2>1, <2>2, <2>3
<1> HIDE DEF p
<1>4. Part(s, from, count) = p
  BY <1>2 DEF p
<1> QED BY <1>1, <1>3, <1>4 DEF m

\* What is moved within an array stays where it was, too.
AsMoved(r, E, s, to, from, count) ==
  /\ Leaves(r, E, s, Over(s, to, Part(s, from, count)))
  /\ to + Len(Part(s, from, count)) <= Len(s) => ~ r.failed

LEMMA MoveLeaves ==
  ASSUME NEW E, Garbage \in E, Zero \in E, Sizes, NEW a, IsArray(a, E), NEW s \in Seq(E), Holds(a, s),
         NEW to \in 0..Len(s), NEW from \in Nat, NEW count \in Nat, count > 0, from < Len(s)
  PROVE  AsMoved(mcr_Array_move(a, to, from, count), E, s, to, from, count)
<1> DEFINE r == mcr_Array_move(a, to, from, count)
           m == Part(s, from, count)
           f == mcr_Array_fill(a, a.used, Zero, 0)
<1>1. a.used = Len(s) /\ Len(s) \in Nat /\ to \in Nat /\ from \in 0..Len(s) /\ a.cells \in Seq(E) /\ a.used <= Len(a.cells)
  BY DEF Holds, IsArray
<1>2. /\ m \in Seq(E) /\ Len(m) = Least(from + count, Len(s)) - from
      /\ Len(m) \in Nat /\ \A i \in 1..Len(m) : m[i] = s[from + i]
  BY <1>1, PartIs
<1>3. SubSeq(a.cells, from + 1, Least(from + count, a.used)) = m
  <2> DEFINE k == Least(from + count, Len(s))
             c == SubSeq(a.cells, from + 1, k)
  <2>1. k \in from..Len(s)
    BY <1>1 DEF Least
  <2> HIDE DEF k
  <2>2. c \in Seq(E) /\ Len(c) = k - from
    BY <1>1, <2>1
  <2>3. \A i \in 1..k - from : c[i] = a.cells[from + i]
    BY <1>1, <2>1
  <2>4. \A i \in 1..k - from : from + i \in 1..Len(s)
    BY <1>1, <2>1
  <2>5. \A i \in 1..k - from : c[i] = s[from + i]
    BY <2>3, <2>4 DEF Holds
  <2> HIDE DEF c, m
  <2>6. Len(m) = k - from
    BY <1>2 DEF k
  <2>7. \A i \in 1..k - from : c[i] = m[i]
    BY <1>2, <2>5, <2>6
  <2>8. c = m
    BY <1>2, <2>2, <2>6, <2>7
  <2> QED BY <1>1, <2>8 DEF c, k
<1>5. ~ f.failed /\ Keeps(f, E, a)
  BY FillNothing
<1> DEFINE q == mcr_Array_minused(f.arr, to + Len(m))
<1>6. r = Then(q, LAMBDA b : Done(OverIn(b, to, m)))
  <2> DEFINE x == SubSeq(a.cells, from + 1, Least(from + count, a.used))
             k == IF to > a.used THEN to - a.used ELSE 0
             g == mcr_Array_fill(a, a.used, Zero, k)
             h == IF g.failed THEN g ELSE mcr_Array_minused(g.arr, to + Len(x))
  <2>1. r = IF h.failed THEN h ELSE Done(OverIn(h.arr, to, x))
    <3>1. ~ (count = 0) /\ ~ (from >= a.used)
      BY <1>1
    <3>2. r = Then(Then(g, LAMBDA b : mcr_Array_minused(b, to + Len(x))),
                   LAMBDA b : Done([b EXCEPT !.cells = Written(@, to, x)]))
      BY <3>1, Zenon DEF mcr_Array_move
    <3>3. r = Then(h, LAMBDA b : Done([b EXCEPT !.cells = Written(@, to, x)]))
      BY <3>2, Zenon DEF Then
    <3> HIDE DEF r, h, x
    <3> QED BY <3>3, Zenon DEF Then, OverIn
  <2>2. k = 0
    BY <1>1
  <2>3. g = f
    BY <2>2
  <2> HIDE DEF k, g, f, r, m, x
  <2>4. x = m
    BY <1>3 DEF x
  <2>5. h = q
    BY <1>5, <2>3, <2>4
  <2> HIDE DEF h, q
  <2> QED BY <2>1, <2>4, <2>5 DEF Then
<1> HIDE DEF r, f, m
<1>7. f.arr.used = Len(s) /\ IsArray(f.arr, E) /\ \A i \in 1..Len(s) : f.arr.cells[i] = s[i]
  BY <1>1, <1>5 DEF Keeps, Holds
<1>8. /\ q.failed \in BOOLEAN /\ IsArray(q.arr, E)
      /\ q.arr.used = IF to + Len(m) > Len(s) /\ ~ q.failed THEN to + Len(m) ELSE Len(s)
      /\ \A i \in 1..Len(s) : q.arr.cells[i] = s[i]
  <2>1. to + Len(m) \in Nat
    BY <1>1, <1>2
  <2>2. AsMinused(q, E, f.arr, to + Len(m))
    BY <1>7, <2>1, MinusedKeeps
  <2> HIDE DEF q
  <2> QED BY <1>7, <2>2 DEF AsMinused
<1>9. to + Len(m) <= Len(s) => ~ q.failed
  <2>1. SUFFICES ASSUME to + Len(m) <= Len(s) PROVE ~ q.failed
    OBVIOUS
  <2>2. to + Len(m) \in Nat
    BY <1>1, <1>2
  <2>3. q = Done(f.arr)
    BY <1>7, <2>1, <2>2, MinusedEnough
  <2> QED BY <2>3, DoneIs
<1> HIDE DEF q
<1>10. CASE q.failed
  <2>1. r = q /\ Holds(q.arr, s)
    BY <1>6, <1>8, <1>10 DEF Then, Holds
  <2>2. Leaves(r, E, s, Over(s, to, m))
    BY <1>8, <1>10, <2>1 DEF Leaves
  <2> QED BY <1>9, <1>10, <2>2 DEF AsMoved, m, r
<1>11. CASE ~ q.failed
  <2> DEFINE c == OverIn(q.arr, to, m)
  <2>1. r = Done(c)
    BY <1>6, <1>11 DEF Then
  <2>2. TakesOver(q.arr, s, to, m)
    BY <1>1, <1>2, <1>8, <1>11 DEF TakesOver
  <2>3. IsArray(c, E) /\ Holds(c, Over(s, to, m))
    BY <1>2, <1>8, <2>2, WriteOver, Zenon
  <2> HIDE DEF c
  <2>4. Leaves(r, E, s, Over(s, to, m)) /\ ~ r.failed
    BY <2>1, <2>3, DoneIs DEF Leaves
  <2> QED BY <2>4 DEF AsMoved, m, r
<1> QED BY <1>8, <1>10, <1>11

Without(s, pos, count) == SubSeq(s, 1, pos) \o SubSeq(s, pos + count + 1, Len(s))

LEMMA WithoutIs ==
  ASSUME NEW E, NEW s \in Seq(E), NEW pos \in 0..Len(s), NEW count \in 0..Len(s) - pos
  PROVE  /\ Without(s, pos, count) \in Seq(E) /\ Len(Without(s, pos, count)) = Len(s) - count
         /\ \A i \in 1..Len(s) - count : i <= pos => Without(s, pos, count)[i] = s[i]
         /\ \A i \in 1..Len(s) - count : pos < i => Without(s, pos, count)[i] = s[i + count]
<1>0. Len(s) \in Nat /\ pos \in Nat /\ count \in Nat
  OBVIOUS
<1> DEFINE u == SubSeq(s, 1, pos)
           v == SubSeq(s, pos + count + 1, Len(s))
<1>1. u \in Seq(E) /\ Len(u) = pos /\ \A i \in 1..pos : u[i] = s[i]
  OBVIOUS
<1>2. /\ v \in Seq(E) /\ Len(v) = Len(s) - (pos + count)
      /\ \A i \in 1..Len(v) : v[i] = s[i + pos + count]
  OBVIOUS
<1>3. Without(s, pos, count) = u \o v
  BY DEF Without
<1>4. AsJoined(u \o v, E, u, v)
  BY <1>1, <1>2, Joined
<1> HIDE DEF u, v
<1> DEFINE w == u \o v
<1>5. /\ w \in Seq(E) /\ Len(w) = Len(s) - count
      /\ \A i \in 1..pos : w[i] = u[i]
      /\ \A i \in 1..Len(w) : i > pos => w[i] = v[i - pos]
  BY <1>0, <1>1, <1>2, <1>4 DEF AsJoined
<1> HIDE DEF w
<1>6. ASSUME NEW i \in 1..Len(s) - count, pos < i PROVE w[i] = s[i + count]
  <2>1. i - pos \in 1..Len(v) /\ (i - pos) + pos + count = i + count
    BY <1>0, <1>2, <1>6
  <2> QED BY <1>0, <1>2, <1>5, <1>6, <2>1
<1>7. ASSUME NEW i \in 1..Len(s) - count, i <= pos PROVE w[i] = s[i]
  BY <1>0, <1>1, <1>5, <1>7
<1> QED BY <1>3, <1>5, <1>6, <1>7 DEF w

LEMMA MinusedFits ==
  ASSUME NEW E, Garbage \in E, Sizes, NEW a, IsArray(a, E), NEW n \in Nat, n <= Limit
  PROVE  ~ mcr_Array_minused(a, n).failed
<1> DEFINE q == mcr_Array_resize(a, n)
<1>1. a.used \in Nat /\ Limit \in Nat
  BY DEF IsArray, Sizes
<1>2. CASE n <= a.used
  BY <1>2, MinusedEnough, DoneIs
<1>3. CASE n > a.used
  <2>1. AsResized(q, E, a, n)
    BY ResizeKeeps
  <2>2. mcr_Array_minused(a, n) = Then(q, LAMBDA b : Done([b EXCEPT !.used = n]))
    BY <1>1, <1>3 DEF mcr_Array_minused
  <2> HIDE DEF q
  <2>3. ~ q.failed
    BY <1>1, <2>1 DEF AsResized
  <2> QED BY <2>2, <2>3, DoneIs DEF Then
<1> QED BY <1>1, <1>2, <1>3

LEMMA CopyFits ==
  ASSUME NEW E, Garbage \in E, Sizes, NEW a, IsArray(a, E), NEW src \in Seq(E),
         NEW pos \in 0..a.used, pos + Len(src) <= Limit
  PROVE  ~ mcr_Array_copy(a, pos, src).failed
<1>1. a.used \in Nat /\ pos + Len(src) \in Nat
  BY DEF IsArray
<1>2. CASE src = << >>
  BY <1>2, DoneIs DEF mcr_Array_copy
<1>3. CASE src # << >>
  <2> DEFINE q == mcr_Array_minused(a, pos + Len(src))
  <2>1. mcr_Array_copy(a, pos, src) = Then(q, LAMBDA b : Done([b EXCEPT !.cells = Written(@, pos, src)]))
    BY <1>1, <1>3 DEF mcr_Array_copy
  <2>2. ~ q.failed
    BY <1>1, MinusedFits
  <2> HIDE DEF q
  <2> QED BY <2>1, <2>2, DoneIs DEF Then
<1> QED BY <1>2, <1>3

LEMMA FillFits ==
  ASSUME NEW E, Garbage \in E, Sizes, NEW a, IsArray(a, E), NEW x,
         NEW pos \in Nat, NEW count \in Nat, pos + count <= Limit
  PROVE  ~ mcr_Array_fill(a, pos, x, count).failed
<1>1. pos + count \in Nat
  OBVIOUS
<1>2. CASE pos + count = 0
  BY <1>2, DoneIs DEF mcr_Array_fill
<1>3. CASE pos + count # 0
  <2> DEFINE q == mcr_Array_minused(a, pos + count)
             Fill(b) == Copies(x, (IF x = Zero THEN pos + count ELSE b.used) - Least(pos, a.used))
  <2>0. CASE FillsNull(a, pos, x, count)
    BY <1>1, <1>3, <2>0, DoneIs DEF mcr_Array_fill
  <2>1. ~ FillsNull(a, pos, x, count) =>
          mcr_Array_fill(a, pos, x, count)
          = Then(q, LAMBDA b : Done([b EXCEPT !.cells = Written(@, Least(pos, a.used), Fill(b))]))
    BY <1>1, <1>3 DEF mcr_Array_fill
  <2>2. ~ q.failed
    BY <1>1, MinusedFits
  <2> HIDE DEF q, Fill
  <2> QED BY <2>0, <2>1, <2>2, DoneIs DEF Then
<1> QED BY <1>2, <1>3

\* The elements from pos to pos + count, or to the last one, are gone.
LEMMA RemoveLeaves ==
  ASSUME NEW E, Garbage \in E, Zero \in E, Sizes, NEW a, IsArray(a, E), NEW s \in Seq(E), Holds(a, s),
         NEW pos \in 0..Len(s), NEW count \in Nat, NEW n, n = Least(pos + count, Len(s)) - pos
  PROVE  IsArray(mcr_Array_remove_index(a, pos, count), E) /\ Holds(mcr_Array_remove_index(a, pos, count), Without(s, pos, n))
<1> DEFINE r == mcr_Array_remove_index(a, pos, count)
           t == Without(s, pos, n)
           last == Least(pos + count, a.used)
           move == mcr_Array_move(a, pos, last, a.used - last)
           q == move.arr
<1>1. a.used = Len(s) /\ Len(s) \in Nat /\ pos \in Nat
  BY DEF Holds
<1>2. last \in pos..Len(s) /\ n = last - pos /\ n \in 0..Len(s) - pos
  BY <1>1 DEF Least
<1>3. /\ t \in Seq(E) /\ Len(t) = Len(s) - n
      /\ \A i \in 1..Len(s) - n : i <= pos => t[i] = s[i]
      /\ \A i \in 1..Len(s) - n : pos < i => t[i] = s[i + n]
  <2> HIDE DEF last
  <2> QED BY <1>2, WithoutIs
<1> HIDE DEF t
<1>4. CASE count = 0 \/ pos >= a.used
  <2>1. r = a
    BY <1>4 DEF mcr_Array_remove_index
  <2>2. n = 0
    BY <1>1, <1>4 DEF Least
  <2>3. t = s
    BY <1>1, <1>3, <2>2
  <2> QED BY <2>1, <2>3 DEF t
<1>5. CASE ~ (count = 0 \/ pos >= a.used)
  <2>1. r = [q EXCEPT !.used = a.used - (last - pos)]
    BY <1>5 DEF mcr_Array_remove_index
  <2> HIDE DEF last
  <2>2. /\ IsArray(q, E) /\ q.used = Len(s)
        /\ \A i \in 1..Len(s) : i <= pos => q.cells[i] = s[i]
        /\ \A i \in 1..Len(s) - n : pos < i => q.cells[i] = s[i + n]
    <3>1. CASE last = Len(s)
      <4>1. q = a
        <5>1. a.used - last = 0
          BY <1>1, <3>1
        <5>2. move = Done(a)
          BY <5>1 DEF mcr_Array_move
        <5> QED BY <5>2, DoneIs
      <4>2. \A i \in 1..Len(s) : a.cells[i] = s[i]
        BY DEF Holds
      <4> HIDE DEF q
      <4> QED BY <1>1, <1>2, <3>1, <4>1, <4>2
    <3>2. CASE last # Len(s)
      <4> DEFINE p == Part(s, last, a.used - last)
                 o == Over(s, pos, p)
      <4>1. last \in Nat /\ last \in 0..Len(s) /\ last < Len(s) /\ a.used - last \in Nat /\ a.used - last > 0
        BY <1>1, <1>2, <3>2
      <4>2. AsMoved(move, E, s, pos, last, a.used - last)
        BY <4>1, MoveLeaves
      <4>3. /\ p \in Seq(E) /\ Len(p) = Least(last + (a.used - last), Len(s)) - last
            /\ \A i \in 1..Len(p) : p[i] = s[last + i]
        BY <4>1, PartIs
      <4>4. Len(p) = Len(s) - last /\ pos + Len(p) <= Len(s)
        <5>1. Least(last + (a.used - last), Len(s)) = Len(s)
          BY <1>1, <4>1 DEF Least
        <5> HIDE DEF p
        <5> QED BY <1>1, <1>2, <4>3, <5>1
      <4> HIDE DEF move
      <4>5. ~ move.failed /\ IsArray(q, E) /\ Holds(q, o)
        BY <4>2, <4>4 DEF AsMoved, Leaves
      <4>6. AsOver(o, E, s, pos, p)
        BY <4>3, OverIs
      <4> HIDE DEF p, o, q
      <4>7. /\ Len(o) = Len(s)
            /\ \A i \in 1..Len(s) : i <= pos => o[i] = s[i]
            /\ \A i \in 1..Len(s) : pos < i /\ i <= pos + Len(p) => o[i] = p[i - pos]
        BY <4>4, <4>6 DEF AsOver
      <4>8. q.used = Len(s) /\ \A i \in 1..Len(s) : q.cells[i] = o[i]
        BY <4>5, <4>7 DEF Holds
      <4>9. ASSUME NEW i \in 1..Len(s) - n, pos < i PROVE q.cells[i] = s[i + n]
        <5>1. i - pos \in 1..Len(p) /\ i <= pos + Len(p) /\ last + (i - pos) = i + n /\ i \in 1..Len(s)
          BY <1>1, <1>2, <4>4, <4>9
        <5>2. p[i - pos] = s[i + n]
          BY <4>3, <5>1
        <5> QED BY <4>7, <4>8, <4>9, <5>1, <5>2
      <4> QED BY <4>5, <4>7, <4>8, <4>9
    <3> QED BY <3>1, <3>2
  <2> HIDE DEF q
  <2>3. /\ q \in [cells : Seq(E), used : Nat] /\ q.used <= Len(q.cells) /\ Len(q.cells) <= Limit /\ Len(q.cells) \in Nat
        /\ Limit \in Nat
    BY <2>2 DEF IsArray, Sizes
  <2>4. a.used - (last - pos) = Len(s) - n /\ Len(s) - n \in 0..Len(s)
    BY <1>1, <1>2
  <2>5. r.cells = q.cells /\ r.used = Len(s) - n /\ r \in [cells : Seq(E), used : Nat]
    BY <2>1, <2>3, <2>4
  <2> HIDE DEF r
  <2>6. IsArray(r, E)
    BY <2>2, <2>3, <2>4, <2>5 DEF IsArray
  <2>7. ASSUME NEW i \in 1..Len(t) PROVE r.cells[i] = t[i]
    <3>1. i \in 1..Len(s) - n /\ i \in 1..Len(s)
      BY <1>1, <1>2, <1>3
    <3>2. CASE i <= pos
      <4>1. r.cells[i] = s[i]
        BY <2>2, <2>5, <3>1, <3>2
      <4>2. t[i] = s[i]
        BY <1>3, <3>1, <3>2
      <4> QED BY <4>1, <4>2
    <3>3. CASE pos < i
      <4>1. r.cells[i] = s[i + n]
        BY <2>2, <2>5, <3>1, <3>3
      <4>2. t[i] = s[i + n]
        BY <1>3, <3>1, <3>3
      <4> QED BY <4>1, <4>2
    <3> QED BY <1>1, <3>1, <3>2, <3>3
  <2>8. Holds(r, t)
    BY <1>3, <2>5, <2>7 DEF Holds
  <2> QED BY <2>6, <2>8 DEF r, t
<1> QED BY <1>4, <1>5

\* Insertion
Between(s, pos, src) == SubSeq(s, 1, pos) \o src \o SubSeq(s, pos + 1, Len(s))

AsBetween(o, E, s, pos, src) ==
  /\ o \in Seq(E) /\ Len(o) = Len(s) + Len(src)
  /\ \A i \in 1..Len(s) + Len(src) : i <= pos => o[i] = s[i]
  /\ \A i \in 1..Len(s) + Len(src) : pos < i /\ i <= pos + Len(src) => o[i] = src[i - pos]
  /\ \A i \in 1..Len(s) + Len(src) : pos + Len(src) < i => o[i] = s[i - Len(src)]

LEMMA BetweenIs ==
  ASSUME NEW E, NEW s \in Seq(E), NEW src \in Seq(E), NEW pos \in 0..Len(s)
  PROVE  AsBetween(Between(s, pos, src), E, s, pos, src)
<1>0. Len(s) \in Nat /\ Len(src) \in Nat /\ pos \in Nat
  OBVIOUS
<1> DEFINE u == SubSeq(s, 1, pos)
           v == SubSeq(s, pos + 1, Len(s))
           w == u \o src
<1>1. u \in Seq(E) /\ Len(u) = pos /\ \A i \in 1..pos : u[i] = s[i]
  OBVIOUS
<1>2. v \in Seq(E) /\ Len(v) = Len(s) - pos /\ \A i \in 1..Len(v) : v[i] = s[i + pos]
  OBVIOUS
<1>3. Between(s, pos, src) = w \o v
  BY DEF Between
<1> HIDE DEF u, v
<1>4. AsJoined(w, E, u, src)
  BY <1>1, Joined
<1> HIDE DEF w
<1>5. /\ w \in Seq(E) /\ Len(w) = pos + Len(src)
      /\ \A i \in 1..pos : w[i] = s[i]
      /\ \A i \in 1..pos + Len(src) : i > pos => w[i] = src[i - pos]
  BY <1>1, <1>4 DEF AsJoined
<1>6. AsJoined(w \o v, E, w, v)
  BY <1>2, <1>5, Joined
<1> DEFINE o == w \o v
<1> HIDE DEF o
<1>7. /\ o \in Seq(E) /\ Len(o) = Len(s) + Len(src)
      /\ \A i \in 1..pos + Len(src) : o[i] = w[i]
      /\ \A i \in 1..Len(s) + Len(src) : i > pos + Len(src) => o[i] = v[i - (pos + Len(src))]
  <2>1. Len(w) + Len(v) = Len(s) + Len(src)
    BY <1>0, <1>2, <1>5
  <2> QED BY <1>5, <1>6, <2>1 DEF AsJoined, o
<1>8. ASSUME NEW i \in 1..Len(s) + Len(src)
      PROVE  /\ i <= pos => o[i] = s[i]
             /\ pos < i /\ i <= pos + Len(src) => o[i] = src[i - pos]
             /\ pos + Len(src) < i => o[i] = s[i - Len(src)]
  <2>1. CASE i <= pos
    BY <1>0, <1>5, <1>7, <2>1
  <2>2. CASE pos < i /\ i <= pos + Len(src)
    BY <1>0, <1>5, <1>7, <2>2
  <2>3. CASE pos + Len(src) < i
    <3>1. i - (pos + Len(src)) \in 1..Len(v) /\ (i - (pos + Len(src))) + pos = i - Len(src)
      BY <1>0, <1>2, <2>3
    <3>2. v[i - (pos + Len(src))] = s[i - Len(src)]
      BY <1>2, <3>1
    <3> QED BY <1>0, <1>7, <2>3, <3>2
  <2> QED BY <1>0, <2>1, <2>2, <2>3
<1> QED BY <1>3, <1>7, <1>8 DEF AsBetween, o

LEMMA OverTheEnd ==
  ASSUME NEW E, NEW s \in Seq(E), NEW src \in Seq(E)
  PROVE  Over(s, Len(s), src) = s \o src /\ Between(s, Len(s), src) = s \o src
<1>1. Len(s) \in Nat /\ Len(src) \in Nat
  OBVIOUS
<1>2. SubSeq(s, 1, Len(s)) = s
  OBVIOUS
<1>3. \A n \in Nat : n > Len(s) => SubSeq(s, n, Len(s)) = << >>
  OBVIOUS
<1>4. SubSeq(s, Len(s) + Len(src) + 1, Len(s)) = << >> /\ SubSeq(s, Len(s) + 1, Len(s)) = << >>
  <2>1. Len(s) + Len(src) + 1 \in Nat /\ Len(s) + 1 \in Nat /\ Len(s) + Len(src) + 1 > Len(s) /\ Len(s) + 1 > Len(s)
    BY <1>1
  <2> QED BY <1>3, <2>1
<1>5. s \o src \in Seq(E)
  OBVIOUS
<1>6. (s \o src) \o << >> = s \o src
  BY <1>5
<1> QED BY <1>2, <1>4, <1>6 DEF Over, Between

AsGap(r, E, s, pos, count) ==
  /\ ~ r.failed /\ r.failed \in BOOLEAN /\ IsArray(r.arr, E) /\ r.arr.used = Len(s) + count
  /\ \A i \in 1..Len(s) + count : i <= pos => r.arr.cells[i] = s[i]
  /\ \A i \in 1..Len(s) + count : pos + count < i => r.arr.cells[i] = s[i - count]

LEMMA GapMade ==
  ASSUME NEW E, Garbage \in E, Zero \in E, Sizes, NEW b, IsArray(b, E), NEW s \in Seq(E), Holds(b, s),
         NEW count \in Nat, NEW pos \in 0..Len(s) - 1, Len(s) + count <= Size(b), NEW r,
         r = mcr_Array_move([b EXCEPT !.used = @ + count], pos + count, pos, Len(s) - pos)
  PROVE  AsGap(r, E, s, pos, count)
<1> DEFINE c == [b EXCEPT !.used = @ + count]
           t == Contents(c)
           p == Part(t, pos, Len(s) - pos)
           o == Over(t, pos + count, p)
<1>1. b.used = Len(s) /\ Len(s) \in Nat /\ pos \in Nat /\ Len(b.cells) \in Nat /\ Len(s) + count <= Len(b.cells)
  BY DEF Holds, IsArray, Size
<1>2. IsArray(c, E) /\ c.used = Len(s) + count /\ c.cells = b.cells
  BY <1>1 DEF IsArray
<1> HIDE DEF c
<1>3. t \in Seq(E) /\ Len(t) = Len(s) + count /\ Holds(c, t)
  BY <1>2, ItsContents
<1> HIDE DEF t
<1>4. \A i \in 1..Len(s) : t[i] = s[i]
  <2>1. \A i \in 1..Len(t) : c.cells[i] = t[i]
    BY <1>3 DEF Holds
  <2>2. \A i \in 1..Len(s) : b.cells[i] = s[i]
    BY DEF Holds
  <2>3. ASSUME NEW i \in 1..Len(s) PROVE t[i] = s[i]
    <3>1. i \in 1..Len(t)
      BY <1>1, <1>3
    <3> QED BY <1>2, <2>1, <2>2, <3>1
  <2> QED BY <2>3
<1>5. Least(pos + (Len(s) - pos), Len(t)) = Len(s)
  BY <1>1, <1>3 DEF Least
<1>6. p \in Seq(E) /\ Len(p) = Len(s) - pos /\ \A i \in 1..Len(p) : p[i] = t[pos + i]
  <2>1. pos \in 0..Len(t) /\ Len(s) - pos \in Nat
    BY <1>1, <1>3
  <2> QED BY <1>3, <1>5, <2>1, PartIs
<1>7. AsMoved(r, E, t, pos + count, pos, Len(s) - pos)
  <2>1. pos + count \in 0..Len(t) /\ Len(s) - pos \in Nat /\ Len(s) - pos > 0 /\ pos < Len(t)
    BY <1>1, <1>3
  <2> QED BY <1>2, <1>3, <2>1, MoveLeaves DEF c
<1>8. (pos + count) + Len(p) <= Len(t) /\ Len(t) <= (pos + count) + Len(p)
  BY <1>1, <1>3, <1>6
<1> HIDE DEF p
<1>9. ~ r.failed /\ r.failed \in BOOLEAN /\ IsArray(r.arr, E) /\ Holds(r.arr, o)
  BY <1>7, <1>8 DEF AsMoved, Leaves, p
<1>10. AsOver(o, E, t, pos + count, p)
  <2>1. pos + count \in 0..Len(t)
    BY <1>1, <1>3
  <2> QED BY <1>3, <1>6, <2>1, OverIs
<1> HIDE DEF o
<1>11. /\ Len(o) = Len(s) + count
       /\ \A i \in 1..Len(s) + count : i <= pos + count => o[i] = t[i]
       /\ \A i \in 1..Len(s) + count : pos + count < i /\ i <= (pos + count) + Len(p) => o[i] = p[i - (pos + count)]
  BY <1>3, <1>8, <1>10 DEF AsOver
<1>12. r.arr.used = Len(s) + count /\ \A i \in 1..Len(s) + count : r.arr.cells[i] = o[i]
  BY <1>9, <1>11 DEF Holds
<1>13. ASSUME NEW i \in 1..Len(s) + count, i <= pos PROVE r.arr.cells[i] = s[i]
  <2>1. i <= pos + count /\ i \in 1..Len(s)
    BY <1>1, <1>13
  <2> QED BY <1>4, <1>11, <1>12, <2>1
<1>14. ASSUME NEW i \in 1..Len(s) + count, pos + count < i PROVE r.arr.cells[i] = s[i - count]
  <2>1. /\ i <= (pos + count) + Len(p) /\ i - (pos + count) \in 1..Len(p) /\ pos + (i - (pos + count)) = i - count
        /\ i - count \in 1..Len(s)
    BY <1>1, <1>6, <1>14
  <2>2. o[i] = p[i - (pos + count)]
    BY <1>11, <1>14, <2>1
  <2>3. p[i - (pos + count)] = t[i - count]
    BY <1>6, <2>1
  <2> QED BY <1>4, <1>12, <2>1, <2>2, <2>3
<1> QED BY <1>9, <1>12, <1>13, <1>14 DEF AsGap

LEMMA InsertLeaves ==
  ASSUME NEW E, Garbage \in E, Zero \in E, Sizes, NEW a, IsArray(a, E), NEW s \in Seq(E), Holds(a, s),
         NEW src \in Seq(E), NEW pos \in 0..Len(s)
  PROVE  Leaves(mcr_Array_insert(a, pos, src), E, s, Between(s, pos, src))
<1> DEFINE r == mcr_Array_insert(a, pos, src)
           count == Len(src)
           q == mcr_Array_smartsize(a, count)
           Displaced(b) == mcr_Array_move([b EXCEPT !.used = @ + count], pos + count, pos, a.used - pos)
           m == Displaced(q.arr)
<1>1. a.used = Len(s) /\ Len(s) \in Nat /\ pos \in Nat /\ count \in Nat
  BY DEF Holds
<1>2. CASE src = << >>
  <2>1. r = Done(a)
    BY <1>2 DEF mcr_Array_insert
  <2>2. Between(s, pos, src) = s
    <3> DEFINE o == Between(s, pos, src)
    <3>1. count = 0
      BY <1>2
    <3>2. AsBetween(o, E, s, pos, src)
      BY BetweenIs
    <3> HIDE DEF o
    <3>3. /\ o \in Seq(E) /\ Len(o) = Len(s)
          /\ \A i \in 1..Len(s) : i <= pos => o[i] = s[i]
          /\ \A i \in 1..Len(s) : pos < i => o[i] = s[i]
      BY <1>1, <3>1, <3>2 DEF AsBetween
    <3>4. \A i \in 1..Len(s) : o[i] = s[i]
      BY <1>1, <3>3
    <3>5. o = s
      BY <3>3, <3>4
    <3> QED BY <3>5 DEF o
  <2> QED BY <2>1, <2>2, DoneIs DEF Leaves
<1>3. CASE src # << >> /\ pos = a.used
  <2>1. r = mcr_Array_copy(a, pos, src)
    BY <1>1, <1>3 DEF mcr_Array_insert
  <2>2. Over(s, pos, src) = Between(s, pos, src)
    BY <1>1, <1>3, OverTheEnd
  <2> QED BY <2>1, <2>2, CopyLeaves
<1>4. CASE src # << >> /\ pos # a.used
  <2>1. r = Then(Then(q, Displaced), LAMBDA b : mcr_Array_copy(b, pos, src))
    BY <1>1, <1>4 DEF mcr_Array_insert
  <2>2. pos \in 0..Len(s) - 1 /\ a.used > 0
    BY <1>1, <1>4
  <2>3. Keeps(q, E, a) /\ (~ q.failed => a.used + count <= Size(q.arr))
    BY <1>1, <2>2, SmartsizeKeeps
  <2>4. q.failed \in BOOLEAN /\ IsArray(q.arr, E) /\ Holds(q.arr, s) /\ Leaves(q, E, s, s)
    BY <2>3, KeptHolds
  <2> HIDE DEF q
  <2>5. CASE q.failed
    <3>1. Then(q, Displaced) = q
      BY <2>5 DEF Then
    <3> HIDE DEF Displaced
    <3>2. r = q
      BY <2>1, <2>5, <3>1, Zenon DEF Then
    <3> QED BY <2>4, <2>5, <3>2 DEF Leaves
  <2>6. CASE ~ q.failed
    <3>1. Then(q, Displaced) = m
      BY <2>6, Zenon DEF Then
    <3>2. m = mcr_Array_move([q.arr EXCEPT !.used = @ + count], pos + count, pos, Len(s) - pos)
      BY <1>1
    <3>3. /\ ~ m.failed /\ m.failed \in BOOLEAN /\ IsArray(m.arr, E) /\ m.arr.used = Len(s) + count
          /\ \A i \in 1..Len(s) + count : i <= pos => m.arr.cells[i] = s[i]
          /\ \A i \in 1..Len(s) + count : pos + count < i => m.arr.cells[i] = s[i - count]
      <4>1. Len(s) + count <= Size(q.arr)
        BY <1>1, <2>3, <2>6
      <4>2. count \in Nat
        BY <1>1
      <4> HIDE DEF m, count
      <4>3. AsGap(m, E, s, pos, count)
        BY <2>2, <2>4, <3>2, <4>1, <4>2, GapMade
      <4> QED BY <4>3 DEF AsGap
    <3> HIDE DEF m
    <3> DEFINE t == Contents(m.arr)
               o == Over(t, pos, src)
               z == Between(s, pos, src)
               k == mcr_Array_copy(m.arr, pos, src)
    <3>4. r = k
      <4>1. Then(m, LAMBDA b : mcr_Array_copy(b, pos, src)) = mcr_Array_copy(m.arr, pos, src)
        BY <3>3, Zenon DEF Then
      <4> HIDE DEF r, Displaced
      <4> QED BY <2>1, <3>1, <4>1
    <3>5. t \in Seq(E) /\ Len(t) = Len(s) + count /\ Holds(m.arr, t)
      BY <3>3, ItsContents
    <3>6. ~ k.failed
      <4>1. pos \in 0..m.arr.used /\ pos + Len(src) <= Limit
        <5>1. Len(m.arr.cells) \in Nat /\ m.arr.used <= Len(m.arr.cells) /\ Len(m.arr.cells) <= Limit /\ Limit \in Nat
          BY <3>3 DEF IsArray, Sizes
        <5> HIDE DEF count
        <5> QED BY <1>1, <2>2, <3>3, <5>1 DEF count
      <4> QED BY <3>3, <4>1, CopyFits
    <3>7. pos \in 0..Len(t)
      BY <1>1, <3>5
    <3> HIDE DEF t
    <3>8. Leaves(k, E, t, o)
      BY <3>3, <3>5, <3>7, CopyLeaves
    <3>9. AsOver(o, E, t, pos, src)
      BY <3>5, <3>7, OverIs
    <3>10. AsBetween(z, E, s, pos, src)
      BY BetweenIs
    <3> HIDE DEF o, z
    <3>11. pos + count <= Len(t)
      BY <1>1, <2>2, <3>5
    <3>12. o \in Seq(E) /\ z \in Seq(E) /\ Len(o) = Len(s) + count /\ Len(z) = Len(s) + count
      BY <3>5, <3>9, <3>10, <3>11 DEF AsOver, AsBetween
    <3>13. ASSUME NEW i \in 1..Len(s) + count PROVE o[i] = z[i]
      <4>1. /\ t[i] = m.arr.cells[i]
            /\ i <= pos => o[i] = t[i]
            /\ pos < i /\ i <= pos + count => o[i] = src[i - pos]
            /\ pos + count < i => o[i] = t[i]
        BY <3>5, <3>9, <3>12 DEF AsOver, Holds
      <4>2. /\ i <= pos => z[i] = s[i]
            /\ pos < i /\ i <= pos + count => z[i] = src[i - pos]
            /\ pos + count < i => z[i] = s[i - count]
        BY <3>10 DEF AsBetween
      <4> HIDE DEF count
      <4>3. CASE i <= pos
        BY <3>3, <4>1, <4>2, <4>3
      <4>4. CASE pos < i /\ i <= pos + count
        BY <4>1, <4>2, <4>4
      <4>5. CASE pos + count < i
        BY <3>3, <4>1, <4>2, <4>5
      <4> QED BY <1>1, <4>3, <4>4, <4>5
    <3>14. o = z
      <4> HIDE DEF count
      <4> QED BY <3>12, <3>13
    <3> HIDE DEF k
    <3> QED BY <3>4, <3>6, <3>8, <3>14 DEF Leaves, z
  <2> QED BY <2>5, <2>6, <2>4
<1> QED BY <1>2, <1>3, <1>4

-----------------------------------------------------------------------------
(* The end of an array                                                     *)

LEMMA AppendLeaves ==
  ASSUME NEW E, Garbage \in E, Sizes, NEW a, IsArray(a, E), NEW s \in Seq(E), Holds(a, s), NEW src \in Seq(E)
  PROVE  Leaves(mcr_Array_append(a, src), E, s, s \o src)
<1> DEFINE r == mcr_Array_append(a, src)
           q == mcr_Array_smartsize(a, Len(src))
<1>1. CASE src = << >>
  <2>1. r = Done(a) /\ s \o src = s
    BY <1>1 DEF mcr_Array_append
  <2> QED BY <2>1, DoneIs DEF Leaves
<1>2. CASE src # << >>
  <2>1. r = Then(q, LAMBDA b : mcr_Array_copy(b, b.used, src))
    BY <1>2 DEF mcr_Array_append
  <2>2. Len(src) \in Nat
    OBVIOUS
  <2>3. Keeps(q, E, a)
    BY <2>2, SmartsizeKeeps
  <2>4. q.failed \in BOOLEAN /\ IsArray(q.arr, E) /\ Holds(q.arr, s) /\ Leaves(q, E, s, s)
    BY <2>3, KeptHolds
  <2> HIDE DEF q
  <2>5. CASE q.failed
    <3>1. r = q
      BY <2>1, <2>5, Zenon DEF Then
    <3> QED BY <2>4, <2>5, <3>1 DEF Leaves
  <2>6. CASE ~ q.failed
    <3>1. r = mcr_Array_copy(q.arr, q.arr.used, src)
      BY <2>1, <2>6, Zenon DEF Then
    <3>2. q.arr.used = Len(s) /\ Len(s) \in 0..Len(s)
      BY <2>4 DEF Holds
    <3>3. Leaves(mcr_Array_copy(q.arr, Len(s), src), E, s, Over(s, Len(s), src))
      BY <2>4, <3>2, CopyLeaves
    <3> QED BY <3>1, <3>2, <3>3, OverTheEnd
  <2> QED BY <2>4, <2>5, <2>6
<1> QED BY <1>1, <1>2

LEMMA PushLeaves ==
  ASSUME NEW E, Garbage \in E, Sizes, NEW a, IsArray(a, E), NEW s \in Seq(E), Holds(a, s), NEW x \in E
  PROVE  Leaves(mcr_Array_push(a, x), E, s, Append(s, x))
<1>1. << x >> \in Seq(E) /\ s \o << x >> = Append(s, x)
  OBVIOUS
<1>2. Leaves(mcr_Array_append(a, << x >>), E, s, s \o << x >>)
  BY <1>1, AppendLeaves
<1> QED BY <1>1, <1>2 DEF mcr_Array_push

LEMMA PopLeaves ==
  ASSUME NEW E, NEW a, IsArray(a, E), NEW s \in Seq(E), Holds(a, s)
  PROVE  /\ IsArray(mcr_Array_pop(a), E)
         /\ Holds(mcr_Array_pop(a), SubSeq(s, 1, Len(s) - 1))
<1> DEFINE n == IF Len(s) = 0 THEN 0 ELSE Len(s) - 1
<1>1. a.used = Len(s) /\ n \in 0..Len(s) /\ SubSeq(s, 1, n) = SubSeq(s, 1, Len(s) - 1)
  <2>1. a.used = Len(s) /\ n \in 0..Len(s)
    BY DEF Holds
  <2>2. CASE Len(s) = 0
    <3>1. SubSeq(s, 1, 0) = << >> /\ SubSeq(s, 1, 0 - 1) = << >>
      OBVIOUS
    <3> QED BY <2>1, <2>2, <3>1
  <2>3. CASE Len(s) # 0
    BY <2>1, <2>3
  <2> QED BY <2>2, <2>3
<1>2. mcr_Array_pop(a) = [a EXCEPT !.used = n]
  BY <1>1 DEF mcr_Array_pop, IsArray
<1> HIDE DEF n
<1>3. IsArray([a EXCEPT !.used = n], E) /\ Holds([a EXCEPT !.used = n], SubSeq(s, 1, n))
  BY <1>1, ShorterHolds
<1> QED BY <1>1, <1>2, <1>3

LEMMA ClearLeaves ==
  ASSUME NEW E, NEW a, IsArray(a, E)
  PROVE  IsArray(mcr_Array_clear(a), E) /\ Holds(mcr_Array_clear(a), << >>)
<1> DEFINE s == Contents(a)
<1>1. s \in Seq(E) /\ Holds(a, s)
  BY ItsContents
<1> HIDE DEF s
<1>2. 0 \in 0..Len(s) /\ SubSeq(s, 1, 0) = << >>
  BY <1>1
<1>3. IsArray([a EXCEPT !.used = 0], E) /\ Holds([a EXCEPT !.used = 0], SubSeq(s, 1, 0))
  BY <1>1, <1>2, ShorterHolds
<1> QED BY <1>2, <1>3 DEF mcr_Array_clear

LEMMA ReplaceLeaves ==
  ASSUME NEW E, Garbage \in E, Sizes, NEW a, IsArray(a, E), NEW s \in Seq(E), Holds(a, s), NEW src \in Seq(E)
  PROVE  Leaves(mcr_Array_replace(a, src), E, s, src)
<1> DEFINE r == mcr_Array_replace(a, src)
           q == mcr_Array_resize(a, Len(src))
           n == Least(Len(src), Len(s))
           t == SubSeq(s, 1, n)
           o == Over(t, 0, src)
<1>1. Len(src) \in Nat /\ Len(s) \in Nat /\ n \in 0..Len(s) /\ n <= Len(src)
  BY DEF Least
<1>2. CASE src = << >>
  <2>1. r = Done(mcr_Array_deinit)
    BY <1>2 DEF mcr_Array_replace
  <2> QED BY <1>2, <2>1, DoneIs, DeinitIs DEF Leaves
<1>3. CASE src # << >>
  <2>1. r = Then(q, LAMBDA b : mcr_Array_copy(b, 0, src))
    BY <1>3 DEF mcr_Array_replace
  <2>2. Leaves(q, E, s, t)
    BY <1>1, ResizeLeaves
  <2>3. AsResized(q, E, a, Len(src))
    BY <1>1, ResizeKeeps
  <2> HIDE DEF q, n
  <2>4. t \in Seq(E) /\ Len(t) <= Len(src) /\ Len(t) \in Nat
    BY <1>1
  <2> HIDE DEF t
  <2>5. CASE q.failed
    <3>1. r = q
      BY <2>1, <2>5, Zenon DEF Then
    <3> QED BY <2>2, <2>5, <3>1 DEF Leaves
  <2>6. CASE ~ q.failed
    <3>1. r = mcr_Array_copy(q.arr, 0, src)
      BY <2>1, <2>6, Zenon DEF Then
    <3>2. IsArray(q.arr, E) /\ Holds(q.arr, t) /\ Size(q.arr) = Len(src)
      BY <2>2, <2>3, <2>6 DEF Leaves, AsResized
    <3>3. 0 \in 0..Len(t) /\ 0 \in 0..q.arr.used /\ 0 + Len(src) <= Limit
      BY <1>1, <2>4, <3>2 DEF IsArray, Size, Holds
    <3>4. ~ mcr_Array_copy(q.arr, 0, src).failed
      BY <3>2, <3>3, CopyFits
    <3>5. Leaves(mcr_Array_copy(q.arr, 0, src), E, t, o)
      BY <2>4, <3>2, <3>3, CopyLeaves
    <3>6. AsOver(o, E, t, 0, src)
      BY <2>4, <3>3, OverIs
    <3> HIDE DEF o
    <3>7. o \in Seq(E) /\ Len(o) = Len(src)
      BY <1>1, <2>4, <3>6 DEF AsOver
    <3>8. \A i \in 1..Len(src) : o[i] = src[i]
      BY <1>1, <3>6, <3>7 DEF AsOver
    <3>9. o = src
      BY <3>7, <3>8
    <3> HIDE DEF r
    <3> QED BY <3>1, <3>4, <3>5, <3>9 DEF Leaves, r
  <2> QED BY <2>5, <2>6
<1> QED BY <1>2, <1>3

LEMMA MinfillLeaves ==
  ASSUME NEW E, Garbage \in E, Sizes, NEW a, IsArray(a, E), NEW s \in Seq(E), Holds(a, s),
         NEW n \in Nat, NEW x \in E
  PROVE  Leaves(mcr_Array_minfill(a, n, x), E, s, s \o Copies(x, n - Len(s)))
<1> DEFINE r == mcr_Array_minfill(a, n, x)
           q == mcr_Array_minused(a, n)
           new == Copies(x, n - Len(s))
           z == s \o new
<1>1. a.used = Len(s) /\ Len(s) \in Nat
  BY DEF Holds
<1>2. CASE a.used >= n
  <2>1. r = Done(a)
    BY <1>2 DEF mcr_Array_minfill
  <2>2. n - Len(s) \in Int /\ n - Len(s) <= 0
    BY <1>1, <1>2
  <2>3. new \in Seq(E) /\ Len(new) = 0
    BY <2>2, CopiesAre
  <2> HIDE DEF new
  <2>4. z = s
    BY <2>3
  <2> HIDE DEF z
  <2> QED BY <2>1, <2>4, DoneIs DEF Leaves, z, new
<1>3. CASE ~ (a.used >= n)
  <2>1. r = Then(q, LAMBDA b : mcr_Array_fill(b, a.used, x, n - a.used))
    BY <1>3 DEF mcr_Array_minfill
  <2>2. AsMinused(q, E, a, n)
    BY MinusedKeeps
  <2> HIDE DEF q
  <2>3. n - Len(s) \in Nat /\ Len(s) < n
    BY <1>1, <1>3
  <2>4. new \in Seq(E) /\ Len(new) = n - Len(s)
    <3>1. n - Len(s) \in Int /\ n - Len(s) >= 0
      BY <2>3
    <3> QED BY <3>1, CopiesAre
  <2> HIDE DEF new
  <2>5. CASE q.failed
    <3>1. r = q
      BY <2>1, <2>5, Zenon DEF Then
    <3>2. IsArray(q.arr, E) /\ q.failed \in BOOLEAN /\ q.arr.used = a.used /\ \A i \in 1..a.used : q.arr.cells[i] = a.cells[i]
      BY <1>1, <2>2, <2>5 DEF AsMinused
    <3>3. Holds(q.arr, s)
      BY <1>1, <3>2 DEF Holds
    <3> HIDE DEF r
    <3> QED BY <2>5, <3>1, <3>2, <3>3 DEF Leaves, r
  <2>6. CASE ~ q.failed
    <3> DEFINE b == q.arr
               t == Contents(b)
               o == Over(t, Len(s), new)
               f == mcr_Array_fill(b, Len(s), x, n - Len(s))
    <3>1. r = f
      <4>1. r = mcr_Array_fill(b, a.used, x, n - a.used)
        BY <2>1, <2>6, Zenon DEF Then
      <4> HIDE DEF r
      <4> QED BY <1>1, <4>1
    <3>2. IsArray(b, E) /\ b.used = n /\ \A i \in 1..Len(s) : b.cells[i] = s[i]
      <4>1. IsArray(b, E) /\ b.used = n /\ \A i \in 1..a.used : b.cells[i] = a.cells[i]
        BY <1>1, <2>2, <2>3, <2>6 DEF AsMinused
      <4> HIDE DEF b
      <4> QED BY <1>1, <4>1 DEF Holds
    <3> HIDE DEF b
    <3>3. t \in Seq(E) /\ Len(t) = n /\ Holds(b, t)
      BY <3>2, ItsContents
    <3> HIDE DEF t
    <3>4. Len(s) \in 0..Len(t) /\ Len(s) + (n - Len(s)) = n /\ n <= Limit
      BY <1>1, <2>3, <3>2, <3>3 DEF IsArray, Sizes
    <3>5. ~ f.failed
      BY <1>1, <2>3, <3>2, <3>4, FillFits
    <3>6. Leaves(f, E, t, o)
      <4>1. Len(s) + (n - Len(s)) >= Len(t)
        BY <3>3, <3>4
      <4>2. ~ FillsNull(b, Len(s), x, n - Len(s))
        BY <2>3 DEF FillsNull
      <4> QED BY <2>3, <3>2, <3>3, <3>4, <4>1, <4>2, FillLeaves DEF new
    <3>7. AsOver(o, E, t, Len(s), new)
      BY <2>4, <3>3, <3>4, OverIs
    <3>8. AsJoined(z, E, s, new)
      BY <2>4, Joined
    <3> HIDE DEF o, z, f
    <3>9. o \in Seq(E) /\ z \in Seq(E) /\ Len(o) = n /\ Len(z) = n
      BY <2>4, <3>3, <3>4, <3>7, <3>8 DEF AsOver, AsJoined
    <3>10. ASSUME NEW i \in 1..n PROVE o[i] = z[i]
      <4>1. /\ i <= Len(s) => o[i] = t[i]
            /\ Len(s) < i => o[i] = new[i - Len(s)]
        BY <2>4, <3>4, <3>7, <3>9 DEF AsOver
      <4>2. /\ i <= Len(s) => z[i] = s[i]
            /\ Len(s) < i => z[i] = new[i - Len(s)]
        BY <1>1, <2>4, <3>8, <3>9 DEF AsJoined
      <4>3. i <= Len(s) => t[i] = s[i]
        BY <1>1, <3>2, <3>3 DEF Holds
      <4> QED BY <1>1, <4>1, <4>2, <4>3
    <3>11. o = z
      BY <3>9, <3>10
    <3> HIDE DEF r
    <3> QED BY <3>1, <3>5, <3>6, <3>11 DEF Leaves, r, z, new
  <2> QED BY <2>5, <2>6
<1> QED BY <1>2, <1>3

-----------------------------------------------------------------------------
(* Sorting                                                                 *)

\* A strict weak order of E.
Ordering(E) ==
  /\ \A x, y \in E : Before(x, y) => ~ Before(y, x)
  /\ \A x, y, z \in E : ~ Before(x, y) /\ ~ Before(y, z) => ~ Before(x, z)

Precedes(s, j, i) == Before(s[j], s[i]) \/ (j < i /\ ~ Before(s[i], s[j]))
Preceding(s, i) == {j \in 1..Len(s) : Precedes(s, j, i)}
Place(s, n) == CHOOSE i \in 1..Len(s) : Cardinality(Preceding(s, i)) = n - 1

IsInOrder(s) == \A i, j \in 1..Len(s) : i < j => ~ Before(s[j], s[i])

\* t has the elements of s, as often, and in their order.
IsArrangement(t, E, s) ==
  /\ t \in Seq(E) /\ Len(t) = Len(s) /\ IsInOrder(t)
  /\ \E p \in [1..Len(s) -> 1..Len(s)] :
       /\ \A i, j \in 1..Len(s) : p[i] = p[j] => i = j
       /\ \A j \in 1..Len(s) : \E i \in 1..Len(s) : p[i] = j
       /\ \A i \in 1..Len(s) : t[i] = s[p[i]]

LEMMA Precedence ==
  ASSUME NEW E, Ordering(E), NEW s \in Seq(E)
  PROVE  \A i, j, k \in 1..Len(s) :
           /\ i = j \/ Precedes(s, i, j) \/ Precedes(s, j, i)
           /\ Precedes(s, i, j) => ~ Precedes(s, j, i)
           /\ Precedes(s, i, j) /\ Precedes(s, j, k) => Precedes(s, i, k)
<1> SUFFICES ASSUME NEW i \in 1..Len(s), NEW j \in 1..Len(s), NEW k \in 1..Len(s)
             PROVE  /\ i = j \/ Precedes(s, i, j) \/ Precedes(s, j, i)
                    /\ Precedes(s, i, j) => ~ Precedes(s, j, i)
                    /\ Precedes(s, i, j) /\ Precedes(s, j, k) => Precedes(s, i, k)
  OBVIOUS
<1>1. s[i] \in E /\ s[j] \in E /\ s[k] \in E /\ i \in Int /\ j \in Int /\ k \in Int
  OBVIOUS
<1>2. i = j \/ Precedes(s, i, j) \/ Precedes(s, j, i)
  BY <1>1 DEF Precedes
<1>3. Precedes(s, i, j) => ~ Precedes(s, j, i)
  BY <1>1 DEF Precedes, Ordering
<1>4. ASSUME Precedes(s, i, j), Precedes(s, j, k) PROVE Precedes(s, i, k)
  <2>1. ~ Before(s[j], s[i]) /\ ~ Before(s[k], s[j])
    BY <1>1, <1>4 DEF Precedes, Ordering
  <2>2. ~ Before(s[k], s[i])
    BY <1>1, <2>1 DEF Ordering
  <2>3. CASE i < j /\ j < k
    BY <1>1, <2>2, <2>3 DEF Precedes
  <2>4. CASE Before(s[i], s[j])
    <3>1. Before(s[i], s[k])
      BY <1>1, <2>1, <2>4 DEF Ordering
    <3> QED BY <3>1 DEF Precedes
  <2>5. CASE Before(s[j], s[k])
    <3>1. Before(s[i], s[k])
      BY <1>1, <2>1, <2>5 DEF Ordering
    <3> QED BY <3>1 DEF Precedes
  <2> QED BY <1>4, <2>3, <2>4, <2>5 DEF Precedes
<1> QED BY <1>2, <1>3, <1>4

LEMMA Ranked ==
  ASSUME NEW E, Ordering(E), NEW s \in Seq(E)
  PROVE  /\ \A i \in 1..Len(s) : Cardinality(Preceding(s, i)) \in 0..Len(s) - 1
         /\ \A i, j \in 1..Len(s) :
              Precedes(s, i, j) => Cardinality(Preceding(s, i)) < Cardinality(Preceding(s, j))
<1>0. Len(s) \in Nat /\ IsFiniteSet(1..Len(s)) /\ Cardinality(1..Len(s)) = Len(s)
  <2>1. Len(s) \in Nat /\ 1 \in Int /\ Len(s) \in Int
    OBVIOUS
  <2>2. IsFiniteSet(1..Len(s)) /\ Cardinality(1..Len(s)) = IF 1 > Len(s) THEN 0 ELSE Len(s) - 1 + 1
    BY <2>1, FS_Interval
  <2> QED BY <2>1, <2>2
<1>1. ASSUME NEW i \in 1..Len(s)
      PROVE  IsFiniteSet(Preceding(s, i)) /\ Cardinality(Preceding(s, i)) \in Nat
             /\ Cardinality(Preceding(s, i)) < Len(s)
  <2> DEFINE T == (1..Len(s)) \ {i}
  <2>1. IsFiniteSet(T) /\ Cardinality(T) = Len(s) - 1
    BY <1>0, FS_RemoveElement
  <2>2. Preceding(s, i) \in SUBSET T
    <3>1. ~ Precedes(s, i, i)
      BY Precedence
    <3> QED BY <3>1 DEF Preceding
  <2>3. IsFiniteSet(Preceding(s, i)) /\ Cardinality(Preceding(s, i)) <= Cardinality(T)
    BY <2>1, <2>2, FS_Subset
  <2>4. Cardinality(Preceding(s, i)) \in Nat
    BY <2>3, FS_CardinalityType
  <2> QED BY <1>0, <2>1, <2>3, <2>4
<1>2. ASSUME NEW i \in 1..Len(s), NEW j \in 1..Len(s), Precedes(s, i, j)
      PROVE  Cardinality(Preceding(s, i)) < Cardinality(Preceding(s, j))
  <2>1. Preceding(s, i) \in SUBSET Preceding(s, j)
    BY <1>2, Precedence DEF Preceding
  <2>2. i \in Preceding(s, j) /\ i \notin Preceding(s, i)
    BY <1>2, Precedence DEF Preceding
  <2>3. Cardinality(Preceding(s, i)) <= Cardinality(Preceding(s, j))
        /\ Cardinality(Preceding(s, i)) # Cardinality(Preceding(s, j))
    BY <1>1, <2>1, <2>2, FS_Subset
  <2> QED BY <1>1, <2>3
<1>3. ASSUME NEW i \in 1..Len(s) PROVE Cardinality(Preceding(s, i)) \in 0..Len(s) - 1
  BY <1>0, <1>1
<1> QED BY <1>2, <1>3

LEMMA Placed ==
  ASSUME NEW E, Ordering(E), NEW s \in Seq(E)
  PROVE  /\ \A n \in 1..Len(s) : Place(s, n) \in 1..Len(s) /\ Cardinality(Preceding(s, Place(s, n))) = n - 1
         /\ \A i \in 1..Len(s) : \E n \in 1..Len(s) : Place(s, n) = i
<1> DEFINE R == 0..Len(s) - 1
           rank == [i \in 1..Len(s) |-> Cardinality(Preceding(s, i))]
<1>1. Len(s) \in Nat
  OBVIOUS
<1>2. /\ IsFiniteSet(1..Len(s)) /\ IsFiniteSet(R) /\ Cardinality(1..Len(s)) = Cardinality(R)
  <2>1. 1 \in Int /\ 0 \in Int /\ Len(s) \in Int /\ Len(s) - 1 \in Int
    BY <1>1
  <2>2. IsFiniteSet(1..Len(s)) /\ Cardinality(1..Len(s)) = IF 1 > Len(s) THEN 0 ELSE Len(s) - 1 + 1
    BY <2>1, FS_Interval
  <2>3. IsFiniteSet(R) /\ Cardinality(R) = IF 0 > Len(s) - 1 THEN 0 ELSE (Len(s) - 1) - 0 + 1
    BY <2>1, FS_Interval
  <2>4. CASE Len(s) = 0
    BY <2>2, <2>3, <2>4
  <2>5. CASE Len(s) > 0
    <3>1. Cardinality(1..Len(s)) = Len(s) - 1 + 1
      BY <1>1, <2>2, <2>5
    <3>2. Cardinality(R) = (Len(s) - 1) - 0 + 1
      BY <1>1, <2>3, <2>5
    <3> HIDE DEF R
    <3> QED BY <1>1, <2>2, <2>3, <3>1, <3>2
  <2> QED BY <1>1, <2>4, <2>5
<1>3. \A i \in 1..Len(s) : rank[i] = Cardinality(Preceding(s, i)) /\ rank[i] \in R
  BY Ranked
<1>4. ASSUME NEW i \in 1..Len(s), NEW j \in 1..Len(s), rank[i] = rank[j] PROVE i = j
  <2>1. i = j \/ Precedes(s, i, j) \/ Precedes(s, j, i)
    BY Precedence
  <2>2. Precedes(s, i, j) => rank[i] < rank[j]
    BY Ranked
  <2>3. Precedes(s, j, i) => rank[j] < rank[i]
    BY Ranked
  <2>4. rank[i] \in Int /\ rank[j] \in Int
    BY <1>3
  <2> HIDE DEF rank
  <2> QED BY <1>4, <2>1, <2>2, <2>3, <2>4
<1>5. rank \in [1..Len(s) -> R]
  BY <1>3
<1> HIDE DEF rank, R
<1>6. rank \in Injection(1..Len(s), R)
  BY <1>4, <1>5 DEF Injection, IsInjective
<1>7. rank \in Surjection(1..Len(s), R)
  BY <1>2, <1>6, FS_Injection
<1>8. \A m \in R : \E i \in 1..Len(s) : rank[i] = m
  BY <1>7 DEF Surjection
<1>9. ASSUME NEW n \in 1..Len(s)
      PROVE  Place(s, n) \in 1..Len(s) /\ Cardinality(Preceding(s, Place(s, n))) = n - 1
  <2>1. n - 1 \in R
    BY <1>1 DEF R
  <2>2. \E i \in 1..Len(s) : Cardinality(Preceding(s, i)) = n - 1
    BY <1>3, <1>8, <2>1
  <2> QED BY <2>2 DEF Place
<1>10. ASSUME NEW i \in 1..Len(s) PROVE \E n \in 1..Len(s) : Place(s, n) = i
  <2>1. rank[i] \in 0..Len(s) - 1 /\ rank[i] = Cardinality(Preceding(s, i))
    BY <1>3 DEF R
  <2> DEFINE n == rank[i] + 1
  <2>2. n \in 1..Len(s) /\ n - 1 = rank[i]
    BY <1>1, <2>1
  <2> HIDE DEF n
  <2>3. rank[Place(s, n)] = rank[i] /\ Place(s, n) \in 1..Len(s)
    BY <1>3, <1>9, <2>2
  <2> QED BY <1>4, <2>2, <2>3
<1> QED BY <1>9, <1>10

LEMMA ArrangedIs ==
  ASSUME NEW E, Ordering(E), NEW s \in Seq(E)
  PROVE  IsArrangement(Arranged(s), E, s)
<1> DEFINE t == Arranged(s)
           p == [n \in 1..Len(s) |-> Place(s, n)]
<1>1. t = [n \in 1..Len(s) |-> s[Place(s, n)]]
  BY Zenon DEF Arranged, Place, Preceding, Precedes
<1>2. \A n \in 1..Len(s) : Place(s, n) \in 1..Len(s) /\ Cardinality(Preceding(s, Place(s, n))) = n - 1
  BY Placed
<1> HIDE DEF t
<1>3. t \in Seq(E) /\ Len(t) = Len(s) /\ \A n \in 1..Len(s) : t[n] = s[Place(s, n)]
  <2>1. Len(s) \in Nat /\ \A i \in 1..Len(s) : s[i] \in E
    OBVIOUS
  <2> QED BY <1>1, <1>2, <2>1
<1>4. ASSUME NEW i \in 1..Len(t), NEW j \in 1..Len(t), i < j PROVE ~ Before(t[j], t[i])
  <2>1. i \in 1..Len(s) /\ j \in 1..Len(s)
    BY <1>3
  <2> DEFINE k == Place(s, i)
             l == Place(s, j)
  <2>2. /\ k \in 1..Len(s) /\ l \in 1..Len(s) /\ t[i] = s[k] /\ t[j] = s[l]
        /\ Cardinality(Preceding(s, k)) = i - 1 /\ Cardinality(Preceding(s, l)) = j - 1
    BY <1>2, <1>3, <2>1
  <2> HIDE DEF k, l
  <2>3. ~ Precedes(s, l, k)
    <3>1. Precedes(s, l, k) => j - 1 < i - 1
      BY <2>2, Ranked
    <3> QED BY <1>4, <2>1, <3>1
  <2> QED BY <2>2, <2>3 DEF Precedes
<1>5. p \in [1..Len(s) -> 1..Len(s)]
  BY <1>2
<1>6. ASSUME NEW i \in 1..Len(s), NEW j \in 1..Len(s), p[i] = p[j] PROVE i = j
  <2>1. i - 1 = j - 1
    BY <1>2, <1>6
  <2> QED BY <2>1
<1>7. ASSUME NEW j \in 1..Len(s) PROVE \E i \in 1..Len(s) : p[i] = j
  BY Placed
<1>8. \A i \in 1..Len(s) : t[i] = s[p[i]]
  BY <1>3
<1>9. IsInOrder(t)
  BY <1>4 DEF IsInOrder
<1> HIDE DEF p
<1> QED BY <1>3, <1>5, <1>6, <1>7, <1>8, <1>9 DEF IsArrangement, t

LEMMA SortLeaves ==
  ASSUME NEW E, Ordering(E), NEW a, IsArray(a, E), NEW s \in Seq(E), Holds(a, s)
  PROVE  IsArray(mcr_Array_sort(a), E) /\ Holds(mcr_Array_sort(a), Arranged(s))
<1> DEFINE t == Arranged(s)
<1>1. Contents(a) = s
  BY HoldsIts
<1>2. mcr_Array_sort(a) = OverIn(a, 0, t)
  BY <1>1 DEF mcr_Array_sort, OverIn
<1>3. t \in Seq(E) /\ Len(t) = Len(s)
  BY ArrangedIs DEF IsArrangement
<1> HIDE DEF t
<1>4. a.used = Len(s) /\ Len(s) \in Nat /\ 0 \in 0..Len(s)
  BY DEF Holds
<1>5. TakesOver(a, s, 0, t)
  BY <1>3, <1>4 DEF TakesOver
<1>6. IsArray(OverIn(a, 0, t), E) /\ Holds(OverIn(a, 0, t), Over(s, 0, t))
  BY <1>3, <1>4, <1>5, WriteOver
<1> DEFINE o == Over(s, 0, t)
<1>7. AsOver(o, E, s, 0, t)
  BY <1>3, <1>4, OverIs
<1> HIDE DEF o
<1>8. o = t
  <2>1. o \in Seq(E) /\ Len(o) = Len(t)
    BY <1>3, <1>4, <1>7 DEF AsOver
  <2>2. \A i \in 1..Len(t) : o[i] = t[i]
    BY <1>3, <1>4, <1>7, <2>1 DEF AsOver
  <2> QED BY <1>3, <2>1, <2>2
<1> QED BY <1>2, <1>6, <1>8 DEF o, t

-----------------------------------------------------------------------------
(* Finding                                                                 *)

Alike(x, y) == ~ Before(x, y) /\ ~ Before(y, x)

\* The index of an element like x, or none.
Finds(i, s, x) ==
  /\ i \in 0..Len(s)
  /\ i # 0 => Alike(s[i], x)
  /\ i = 0 => \A j \in 1..Len(s) : ~ Alike(s[j], x)

Halving(q, r, n) ==
  LET mid == (r.low + r.high) \div 2
  IN IF r.low >= r.high \/ r.met > 0 THEN r
     ELSE IF Before(q.sought, q.arr.cells[mid + 1]) THEN [r EXCEPT !.high = mid]
     ELSE IF Before(q.arr.cells[mid + 1], q.sought) THEN [r EXCEPT !.low = mid + 1]
     ELSE [r EXCEPT !.met = mid + 1]

Halves == INSTANCE FoldProofs WITH Op <- Halving

\* Before the range are the lower elements, behind it the greater ones.
Narrowed(r, s, x) ==
  /\ r \in [low : 0..Len(s), high : 0..Len(s), met : 0..Len(s)] /\ r.low <= r.high
  /\ r.met # 0 => Alike(s[r.met], x)
  /\ r.met = 0 => /\ \A i \in 1..Len(s) : i <= r.low => Before(s[i], x)
                  /\ \A i \in 1..Len(s) : r.high < i => Before(x, s[i])

Ranges(s, x) == {r \in [low : 0..Len(s), high : 0..Len(s), met : 0..Len(s)] : Narrowed(r, s, x)}

LEMMA HalvingNarrows ==
  ASSUME NEW E, Ordering(E), NEW a, IsArray(a, E), NEW s \in Seq(E), Holds(a, s), IsInOrder(s), NEW x \in E,
         NEW r, Narrowed(r, s, x), NEW n, NEW t, t = Halving([arr |-> a, sought |-> x], r, n)
  PROVE  Narrowed(t, s, x) /\ (t.met > 0 \/ t.low >= t.high \/ t.high - t.low < r.high - r.low)
<1>0. Len(s) \in Nat /\ r.low \in 0..Len(s) /\ r.high \in 0..Len(s) /\ r.met \in 0..Len(s) /\ r.low <= r.high
  BY DEF Narrowed
<1>1. CASE r.low >= r.high \/ r.met > 0
  <2>1. t = r
    BY <1>1 DEF Halving
  <2> QED BY <1>0, <1>1, <2>1
<1>2. CASE ~ (r.low >= r.high \/ r.met > 0)
  <2> DEFINE mid == (r.low + r.high) \div 2
             k == mid + 1
  <2>1. r.low < r.high /\ r.met = 0
    BY <1>0, <1>2
  <2>2. mid \in Int /\ r.low <= mid /\ mid < r.high
    BY <1>0, <2>1
  <2>3. t = IF Before(x, a.cells[k]) THEN [r EXCEPT !.high = mid]
            ELSE IF Before(a.cells[k], x) THEN [r EXCEPT !.low = k]
            ELSE [r EXCEPT !.met = k]
    BY <1>2 DEF Halving
  <2>4. k \in 1..Len(s) /\ mid \in 0..Len(s) /\ mid + 1 = k
    BY <1>0, <2>2
  <2> HIDE DEF mid, k
  <2>5. a.cells[k] = s[k] /\ s[k] \in E
    BY <2>4 DEF Holds
  <2>6. /\ \A i \in 1..Len(s) : i <= r.low => Before(s[i], x)
        /\ \A i \in 1..Len(s) : r.high < i => Before(x, s[i])
        /\ r \in [low : 0..Len(s), high : 0..Len(s), met : 0..Len(s)]
    BY <2>1 DEF Narrowed
  <2>7. CASE Before(x, s[k])
    <3>1. t = [r EXCEPT !.high = mid]
      BY <2>3, <2>5, <2>7
    <3>2. t \in [low : 0..Len(s), high : 0..Len(s), met : 0..Len(s)] /\ t.low = r.low /\ t.high = mid /\ t.met = 0
      BY <2>1, <2>4, <2>6, <3>1
    <3>3. ASSUME NEW i \in 1..Len(s), mid < i PROVE Before(x, s[i])
      <4>1. s[i] \in E
        OBVIOUS
      <4>2. CASE i = k
        BY <2>7, <4>2
      <4>3. CASE k < i
        <5>1. ~ Before(s[i], s[k])
          BY <2>4, <4>3 DEF IsInOrder
        <5> QED BY <2>5, <2>7, <4>1, <5>1 DEF Ordering
      <4> QED BY <2>2, <2>4, <3>3, <4>2, <4>3
    <3> HIDE DEF Narrowed
    <3>4. Narrowed(t, s, x)
      BY <1>0, <2>2, <2>6, <3>2, <3>3 DEF Narrowed
    <3> QED BY <1>0, <2>2, <3>2, <3>4
  <2>8. CASE ~ Before(x, s[k]) /\ Before(s[k], x)
    <3>1. t = [r EXCEPT !.low = k]
      BY <2>3, <2>5, <2>8
    <3>2. t \in [low : 0..Len(s), high : 0..Len(s), met : 0..Len(s)] /\ t.low = k /\ t.high = r.high /\ t.met = 0
      BY <2>1, <2>4, <2>6, <3>1
    <3>3. ASSUME NEW i \in 1..Len(s), i <= k PROVE Before(s[i], x)
      <4>1. s[i] \in E
        OBVIOUS
      <4>2. CASE i = k
        BY <2>8, <4>2
      <4>3. CASE i < k
        <5>1. ~ Before(s[k], s[i])
          BY <2>4, <4>3 DEF IsInOrder
        <5> QED BY <2>5, <2>8, <4>1, <5>1 DEF Ordering
      <4> QED BY <2>4, <3>3, <4>2, <4>3
    <3>4. Narrowed(t, s, x)
      BY <1>0, <2>2, <2>4, <2>6, <3>2, <3>3 DEF Narrowed
    <3> QED BY <1>0, <2>2, <2>4, <3>2, <3>4
  <2>9. CASE ~ Before(x, s[k]) /\ ~ Before(s[k], x)
    <3>1. t = [r EXCEPT !.met = k]
      BY <2>3, <2>5, <2>9
    <3>2. t \in [low : 0..Len(s), high : 0..Len(s), met : 0..Len(s)] /\ t.low = r.low /\ t.high = r.high /\ t.met = k
      BY <2>4, <2>6, <3>1
    <3>3. Narrowed(t, s, x)
      BY <1>0, <2>4, <2>9, <3>2 DEF Narrowed, Alike
    <3> QED BY <2>4, <3>2, <3>3
  <2> QED BY <2>7, <2>8, <2>9
<1> QED BY <1>1, <1>2

AllOf(a) == [low |-> 0, high |-> a.used, met |-> 0]
Turns(a) == [n \in 1..a.used |-> n]

LEMMA FindFolds ==
  ASSUME NEW q
  PROVE  mcr_Array_find(q.arr, q.sought) = Halves!Folded(q, AllOf(q.arr), Turns(q.arr)).met
BY DEF mcr_Array_find, AllOf, Turns, Halving, Halves!Folded, OneByOne, MapThenFoldSet,
       Halves!MapThenFoldSet, Halves!Greatest

LEMMA FindFinds ==
  ASSUME NEW E, Ordering(E), NEW a, IsArray(a, E), NEW s \in Seq(E), Holds(a, s), IsInOrder(s), NEW x \in E
  PROVE  Finds(mcr_Array_find(a, x), s, x)
<1> DEFINE q == [arr |-> a, sought |-> x]
           base == AllOf(a)
           turns == Turns(a)
           R == Ranges(s, x)
           N == Len(s)
<1>1. mcr_Array_find(a, x) = Halves!Folded(q, base, turns).met
  <2>1. q.arr = a /\ q.sought = x
    OBVIOUS
  <2> HIDE DEF q
  <2>2. mcr_Array_find(q.arr, q.sought) = Halves!Folded(q, AllOf(q.arr), Turns(q.arr)).met
    BY FindFolds
  <2> QED BY <2>1, <2>2
<1>2. a.used = N /\ N \in Nat
  BY DEF Holds
<1>3. base \in R
  BY <1>2 DEF AllOf, Ranges, Narrowed
<1>4. turns \in Seq(Nat) /\ Len(turns) = N
  BY <1>2 DEF Turns
<1>5. \A r \in R : Narrowed(r, s, x)
  BY DEF Ranges
<1>6. \A r : Narrowed(r, s, x) => r \in R
  BY DEF Ranges, Narrowed
<1> HIDE DEF base, turns, R, q
<1>7. ASSUME NEW r \in R, NEW n \in Nat
      PROVE  /\ Halving(q, r, n) \in R
             /\ \/ Halving(q, r, n).met > 0 \/ Halving(q, r, n).low >= Halving(q, r, n).high
                \/ Halving(q, r, n).high - Halving(q, r, n).low < r.high - r.low
  BY <1>5, <1>6, HalvingNarrows DEF q
<1>8. Halves!Closed(q, R, Nat)
  BY <1>7 DEF Halves!Closed
<1>9. PICK h \in [0..Len(turns) -> R] : Halves!Steps(h, q, base, turns) /\ h[Len(turns)] = Halves!Folded(q, base, turns)
  BY <1>3, <1>4, <1>8, Halves!FoldSteps
<1> DEFINE Ended(r, n) == r.met > 0 \/ r.low >= r.high \/ r.high - r.low <= N - n
           Q == {n \in 0..N : Ended(h[n], n)}
<1>10. 0 \in Q
  <2>1. h[0] = base
    BY <1>9 DEF Halves!Steps
  <2> QED BY <1>2, <2>1 DEF base, AllOf
<1>11. ASSUME NEW n \in 0..N - 1, n \in Q PROVE n + 1 \in Q
  <2>1. n + 1 \in 1..N /\ n \in 0..N /\ n + 1 \in 0..N /\ (n + 1) - 1 = n
    BY <1>2
  <2>2. h[n] \in R /\ h[n + 1] \in R /\ turns[n + 1] \in Nat
    BY <1>4, <1>9, <2>1
  <2>3. h[n + 1] = Halving(q, h[n], turns[n + 1])
    BY <1>4, <1>9, <2>1 DEF Halves!Steps
  <2>4. \/ h[n + 1].met > 0 \/ h[n + 1].low >= h[n + 1].high
        \/ h[n + 1].high - h[n + 1].low < h[n].high - h[n].low
    BY <1>7, <2>2, <2>3
  <2>5. /\ h[n].low \in 0..N /\ h[n].high \in 0..N /\ h[n + 1].low \in 0..N /\ h[n + 1].high \in 0..N
        /\ h[n].met \in 0..N
    BY <1>5, <2>2 DEF Narrowed
  <2>6. Ended(h[n], n)
    BY <1>11
  <2>7. h[n].met > 0 \/ h[n].low >= h[n].high => h[n + 1] = h[n]
    BY <2>3 DEF Halving
  <2>8. Ended(h[n + 1], n + 1)
    <3> DEFINE u == h[n]
               v == h[n + 1]
    <3>1. n \in Int /\ N \in Int /\ u.low \in Int /\ u.high \in Int /\ v.low \in Int /\ v.high \in Int
      BY <1>2, <2>1, <2>5
    <3>2. CASE u.met > 0 \/ u.low >= u.high
      BY <2>7, <3>2
    <3>3. CASE u.high - u.low <= N - n
      <4>1. v.met > 0 \/ v.low >= v.high \/ v.high - v.low < u.high - u.low
        BY <2>4
      <4> HIDE DEF u, v
      <4>2. v.high - v.low < u.high - u.low => v.high - v.low <= N - (n + 1)
        BY <3>1, <3>3
      <4> QED BY <4>1, <4>2 DEF u, v
    <3> QED BY <2>6, <3>2, <3>3
  <2> QED BY <2>1, <2>8
<1> HIDE DEF Q
<1>12. \A n \in 0..N - 1 : n \in Q => n + 1 \in Q
  BY <1>11
<1>13. N \in Q
  <2>1. \A n \in 0..N : n \in Q
    BY <1>2, <1>10, <1>12, Halves!CountingUp
  <2> QED BY <1>2, <2>1
<1> DEFINE r == h[N]
<1>14. Narrowed(r, s, x) /\ (r.met > 0 \/ r.low >= r.high) /\ mcr_Array_find(a, x) = r.met
  <2>1. r \in R /\ Ended(r, N)
    BY <1>2, <1>4, <1>9, <1>13 DEF Q
  <2>2. r.low \in 0..N /\ r.high \in 0..N /\ Narrowed(r, s, x)
    BY <1>5, <2>1 DEF Narrowed
  <2>3. mcr_Array_find(a, x) = r.met
    BY <1>1, <1>4, <1>9
  <2> HIDE DEF r
  <2> QED BY <1>2, <2>1, <2>2, <2>3
<1> HIDE DEF r
<1>15. CASE r.met > 0
  BY <1>14, <1>15 DEF Narrowed, Finds
<1>16. CASE ~ (r.met > 0)
  <2>1. r.met = 0 /\ r.low >= r.high /\ r.low \in 0..N /\ r.high \in 0..N
    BY <1>14, <1>16 DEF Narrowed
  <2>2. ASSUME NEW j \in 1..N PROVE ~ Alike(s[j], x)
    <3>1. j <= r.low \/ r.high < j
      BY <1>2, <2>1
    <3>2. Before(s[j], x) \/ Before(x, s[j])
      BY <1>14, <2>1, <3>1 DEF Narrowed
    <3> QED BY <3>2 DEF Alike
  <2> QED BY <1>2, <1>14, <2>1, <2>2 DEF Finds
<1> QED BY <1>15, <1>16

-----------------------------------------------------------------------------
(* Adding                                                                  *)

IsResult(r) == r = Done(r.arr) \/ r = Fails(r.arr)

LEMMA Results ==
  ASSUME NEW a
  PROVE  /\ IsResult(Done(a)) /\ IsResult(Fails(a))
         /\ \A n : /\ IsResult(mcr_Array_resize(a, n)) /\ IsResult(mcr_Array_minused(a, n))
                  /\ IsResult(mcr_Array_smartsize(a, n))
<1>1. ASSUME NEW b PROVE IsResult(Done(b)) /\ IsResult(Fails(b))
  BY DoneIs, FailsIs DEF IsResult
<1>2. ASSUME NEW n PROVE IsResult(mcr_Array_resize(a, n))
  BY <1>1 DEF mcr_Array_resize
<1>3. ASSUME NEW n PROVE IsResult(mcr_Array_minused(a, n))
  BY <1>1, <1>2, Zenon DEF mcr_Array_minused, Then
<1>4. ASSUME NEW n PROVE IsResult(mcr_Array_smartsize(a, n))
  BY <1>1, <1>2 DEF mcr_Array_smartsize
<1> QED BY <1>1, <1>2, <1>3, <1>4

LEMMA AppendResults ==
  ASSUME NEW a, NEW src
  PROVE  IsResult(mcr_Array_append(a, src))
<1>1. ASSUME NEW b, NEW pos PROVE IsResult(mcr_Array_copy(b, pos, src))
  BY Results, Zenon DEF mcr_Array_copy, Then
<1>2. CASE src = << >>
  BY <1>2, Results DEF mcr_Array_append
<1>3. CASE src # << >>
  <2>1. IsResult(mcr_Array_smartsize(a, Len(src)))
    BY Results
  <2> QED BY <1>1, <1>3, <2>1, Zenon DEF mcr_Array_append, Then
<1> QED BY <1>2, <1>3

LEMMA InOrderStays ==
  ASSUME NEW E, Ordering(E), NEW s \in Seq(E), IsInOrder(s)
  PROVE  Arranged(s) = s
<1>1. ASSUME NEW i \in 1..Len(s) PROVE Cardinality(Preceding(s, i)) = i - 1
  <2>1. ASSUME NEW j \in 1..Len(s) PROVE Precedes(s, j, i) <=> j < i
    <3>1. CASE j < i
      BY <3>1 DEF Precedes, IsInOrder
    <3>2. CASE j = i
      BY <3>2, Precedence
    <3>3. CASE i < j
      BY <3>3 DEF Precedes, IsInOrder
    <3> QED BY <3>1, <3>2, <3>3
  <2>2. Preceding(s, i) = 1..i - 1
    BY <2>1 DEF Preceding
  <2>3. 1 \in Int /\ i - 1 \in Int /\ i - 1 >= 0
    OBVIOUS
  <2>4. Cardinality(1..i - 1) = IF 1 > i - 1 THEN 0 ELSE (i - 1) - 1 + 1
    BY <2>3, FS_Interval
  <2> QED BY <2>2, <2>3, <2>4
<1>2. ASSUME NEW n \in 1..Len(s) PROVE Place(s, n) = n
  <2>1. Place(s, n) \in 1..Len(s) /\ Cardinality(Preceding(s, Place(s, n))) = n - 1
    BY Placed
  <2>2. Cardinality(Preceding(s, Place(s, n))) = Place(s, n) - 1
    BY <1>1, <2>1
  <2> QED BY <2>1, <2>2
<1>3. Arranged(s) = [n \in 1..Len(s) |-> s[Place(s, n)]]
  BY Zenon DEF Arranged, Place, Preceding, Precedes
<1> QED BY <1>2, <1>3

LEMMA AddLeaves ==
  ASSUME NEW E, Garbage \in E, Sizes, Ordering(E), NEW a, IsArray(a, E), NEW s \in Seq(E), Holds(a, s),
         IsInOrder(s), NEW src \in Seq(E)
  PROVE  Leaves(mcr_Array_add(a, src, FALSE), E, s, Arranged(s \o src))
<1> DEFINE r == mcr_Array_add(a, src, FALSE)
           q == mcr_Array_smartsize(a, Len(src))
           p == mcr_Array_append(q.arr, src)
<1>1. CASE src = << >>
  <2>1. r = Done(a) /\ s \o src = s
    BY <1>1 DEF mcr_Array_add
  <2>2. Arranged(s) = s
    BY InOrderStays
  <2> QED BY <2>1, <2>2, DoneIs DEF Leaves
<1>2. CASE src # << >>
  <2>1. Len(src) \in Nat
    OBVIOUS
  <2>2. Keeps(q, E, a)
    BY <2>1, SmartsizeKeeps
  <2>3. q.failed \in BOOLEAN /\ IsArray(q.arr, E) /\ Holds(q.arr, s) /\ Leaves(q, E, s, s)
    BY <2>2, KeptHolds
  <2>4. r = Then(q, LAMBDA b : Then(mcr_Array_append(b, src), LAMBDA c : Done(mcr_Array_sort(c))))
    BY <1>2 DEF mcr_Array_add
  <2> HIDE DEF q
  <2>5. CASE q.failed
    <3>1. r = q
      BY <2>4, <2>5, Zenon DEF Then
    <3> QED BY <2>3, <2>5, <3>1 DEF Leaves
  <2>6. CASE ~ q.failed
    <3>1. r = Then(p, LAMBDA c : Done(mcr_Array_sort(c)))
      BY <2>4, <2>6, Zenon DEF Then
    <3>2. Leaves(p, E, s, s \o src)
      BY <2>3, AppendLeaves
    <3> HIDE DEF p
    <3>3. CASE p.failed
      <4>1. r = p
        BY <3>1, <3>3, Zenon DEF Then
      <4> QED BY <3>2, <3>3, <4>1 DEF Leaves
    <3>4. CASE ~ p.failed
      <4>1. r = Done(mcr_Array_sort(p.arr))
        BY <3>1, <3>4, Zenon DEF Then
      <4>2. IsArray(p.arr, E) /\ Holds(p.arr, s \o src) /\ s \o src \in Seq(E)
        BY <3>2, <3>4 DEF Leaves
      <4>3. IsArray(mcr_Array_sort(p.arr), E) /\ Holds(mcr_Array_sort(p.arr), Arranged(s \o src))
        BY <4>2, SortLeaves
      <4> QED BY <4>1, <4>3, DoneIs DEF Leaves
    <3> QED BY <3>2, <3>3, <3>4 DEF Leaves
  <2> QED BY <2>3, <2>5, <2>6
<1> QED BY <1>1, <1>2

\* One element of those that are added, unless it is there.
Including(s, x) == IF \E i \in 1..Len(s) : Alike(s[i], x) THEN s ELSE Arranged(Append(s, x))

LEMMA IncludingIs ==
  ASSUME NEW E, Ordering(E), NEW s \in Seq(E), IsInOrder(s), NEW x \in E
  PROVE  /\ Including(s, x) \in Seq(E) /\ IsInOrder(Including(s, x))
         /\ \E i \in 1..Len(Including(s, x)) : Alike(Including(s, x)[i], x)
         /\ \A y : (\E i \in 1..Len(s) : Alike(s[i], y)) =>
                     \E i \in 1..Len(Including(s, x)) : Alike(Including(s, x)[i], y)
<1> DEFINE u == Append(s, x)
           t == Arranged(u)
<1>1. CASE \E i \in 1..Len(s) : Alike(s[i], x)
  BY <1>1 DEF Including
<1>2. CASE ~ \E i \in 1..Len(s) : Alike(s[i], x)
  <2>1. Including(s, x) = t
    BY <1>2 DEF Including
  <2>2. u \in Seq(E) /\ Len(u) = Len(s) + 1 /\ u[Len(s) + 1] = x /\ Len(s) \in Nat /\ \A i \in 1..Len(s) : u[i] = s[i]
    OBVIOUS
  <2>3. IsArrangement(t, E, u)
    BY <2>2, ArrangedIs
  <2> HIDE DEF u, t
  <2>4. t \in Seq(E) /\ IsInOrder(t) /\ Len(t) = Len(u)
    BY <2>3 DEF IsArrangement
  <2>5. PICK p \in [1..Len(u) -> 1..Len(u)] :
          /\ \A i, j \in 1..Len(u) : p[i] = p[j] => i = j
          /\ \A j \in 1..Len(u) : \E i \in 1..Len(u) : p[i] = j
          /\ \A i \in 1..Len(u) : t[i] = u[p[i]]
    BY <2>3 DEF IsArrangement
  <2>6. ASSUME NEW j \in 1..Len(u) PROVE \E i \in 1..Len(t) : t[i] = u[j]
    BY <2>4, <2>5
  <2>7. Alike(x, x)
    BY DEF Alike, Ordering
  <2>8. \E i \in 1..Len(t) : Alike(t[i], x)
    <3>1. Len(s) + 1 \in 1..Len(u)
      BY <2>2
    <3> QED BY <2>2, <2>6, <2>7, <3>1
  <2>9. ASSUME NEW y, NEW i \in 1..Len(s), Alike(s[i], y) PROVE \E j \in 1..Len(t) : Alike(t[j], y)
    <3>1. i \in 1..Len(u) /\ u[i] = s[i]
      BY <2>2
    <3> QED BY <2>6, <2>9, <3>1
  <2> QED BY <2>1, <2>4, <2>8, <2>9
<1> QED BY <1>1, <1>2

Adding(q, r, x) ==
  IF r.failed \/ mcr_Array_find(r.arr, x) # 0 THEN r
  ELSE Then(mcr_Array_push(r.arr, x), LAMBDA b : Done(mcr_Array_sort(b)))

Adds == INSTANCE FoldProofs WITH Op <- Adding

Covers(s, x) == \E i \in 1..Len(s) : Alike(s[i], x)

\* The first m elements of src were added, one after the other: all of them, or those before
\* the first one that is missing.
AddedUpTo(r, g, m, src) ==
  /\ Holds(r.arr, g[m]) /\ m \in 0..Len(src)
  /\ ~ r.failed => m = Len(src)
  /\ r.failed => \/ /\ m < Len(src) /\ mcr_Array_find(r.arr, src[m + 1]) = 0
                    /\ \A j \in 1..m : mcr_Array_find(r.arr, src[j]) # 0
                 \/ m = 0 /\ \A j \in 1..Len(src) : mcr_Array_find(r.arr, src[j]) # 0

InTurns(g, s, src) == g[0] = s /\ \A n \in 1..Len(src) : g[n] = Including(g[n - 1], src[n])

LEMMA AddFolds ==
  ASSUME NEW b, NEW src
  PROVE  OneByOne(LAMBDA r, x : IF r.failed \/ mcr_Array_find(r.arr, x) # 0 THEN r
                                ELSE Then(mcr_Array_push(r.arr, x), LAMBDA c : Done(mcr_Array_sort(c))),
                  Done(b), src)
           = Adds!Folded(0, Done(b), src)
BY DEF Adding, Adds!Folded, OneByOne, MapThenFoldSet, Adds!MapThenFoldSet, Adds!Greatest

\* One more element: what held t holds it with x, or still t because there is no room.
LEMMA AddingLeaves ==
  ASSUME NEW E, Garbage \in E, Sizes, Ordering(E), NEW q, NEW r, IsResult(r), IsArray(r.arr, E), ~ r.failed,
         NEW t \in Seq(E), Holds(r.arr, t), IsInOrder(t), NEW x \in E, NEW u, u = Adding(q, r, x)
  PROVE  /\ IsResult(u) /\ IsArray(u.arr, E)
         /\ ~ u.failed => Holds(u.arr, Including(t, x))
         /\ u.failed => Holds(u.arr, t) /\ mcr_Array_find(u.arr, x) = 0
<1>1. Finds(mcr_Array_find(r.arr, x), t, x)
  BY FindFinds
<1>2. CASE mcr_Array_find(r.arr, x) # 0
  <2>1. u = r
    BY <1>2 DEF Adding
  <2>2. \E i \in 1..Len(t) : Alike(t[i], x)
    <3>1. mcr_Array_find(r.arr, x) \in 1..Len(t)
      BY <1>1, <1>2 DEF Finds
    <3> QED BY <1>1, <1>2, <3>1 DEF Finds
  <2>3. Including(t, x) = t
    BY <2>2 DEF Including
  <2> QED BY <2>1, <2>3
<1>3. CASE mcr_Array_find(r.arr, x) = 0
  <2> DEFINE p == mcr_Array_push(r.arr, x)
  <2>1. u = Then(p, LAMBDA b : Done(mcr_Array_sort(b)))
    BY <1>3, Zenon DEF Adding
  <2>2. Leaves(p, E, t, Append(t, x)) /\ IsResult(p) /\ Append(t, x) \in Seq(E)
    BY PushLeaves, AppendResults DEF mcr_Array_push
  <2>3. Including(t, x) = Arranged(Append(t, x))
    <3>1. ~ \E i \in 1..Len(t) : Alike(t[i], x)
      BY <1>1, <1>3 DEF Finds
    <3> QED BY <3>1 DEF Including
  <2> HIDE DEF p
  <2>4. CASE p.failed
    <3>1. u = p
      BY <2>1, <2>4, Zenon DEF Then
    <3>2. IsArray(u.arr, E) /\ Holds(u.arr, t) /\ u.failed
      BY <2>2, <2>4, <3>1 DEF Leaves
    <3>3. Finds(mcr_Array_find(u.arr, x), t, x)
      BY <3>2, FindFinds
    <3>4. mcr_Array_find(u.arr, x) = 0
      <4>1. ~ \E i \in 1..Len(t) : Alike(t[i], x)
        BY <1>1, <1>3 DEF Finds
      <4> QED BY <3>3, <4>1 DEF Finds
    <3> QED BY <2>2, <3>1, <3>2, <3>4
  <2>5. CASE ~ p.failed
    <3>1. u = Done(mcr_Array_sort(p.arr))
      BY <2>1, <2>5, Zenon DEF Then
    <3>2. IsArray(p.arr, E) /\ Holds(p.arr, Append(t, x))
      BY <2>2, <2>5 DEF Leaves
    <3>3. IsArray(mcr_Array_sort(p.arr), E) /\ Holds(mcr_Array_sort(p.arr), Arranged(Append(t, x)))
      BY <2>2, <3>2, SortLeaves
    <3> QED BY <2>3, <3>1, <3>3, DoneIs, Results
  <2> QED BY <2>4, <2>5
<1> QED BY <1>2, <1>3

LEMMA FindCovers ==
  ASSUME NEW E, Ordering(E), NEW a, IsArray(a, E), NEW s \in Seq(E), Holds(a, s), IsInOrder(s), NEW x \in E
  PROVE  mcr_Array_find(a, x) # 0 <=> Covers(s, x)
<1>1. Finds(mcr_Array_find(a, x), s, x)
  BY FindFinds
<1>2. ASSUME mcr_Array_find(a, x) # 0 PROVE Covers(s, x)
  <2>1. mcr_Array_find(a, x) \in 1..Len(s)
    BY <1>1, <1>2 DEF Finds
  <2> QED BY <1>1, <1>2, <2>1 DEF Finds, Covers
<1>3. ASSUME mcr_Array_find(a, x) = 0 PROVE ~ Covers(s, x)
  BY <1>1, <1>3 DEF Finds, Covers
<1> QED BY <1>2, <1>3

\* What cannot be given room for more.
LEMMA UnsizedAdds ==
  ASSUME NEW E, Ordering(E), NEW r, r.failed, IsArray(r.arr, E), NEW s \in Seq(E), Holds(r.arr, s), IsInOrder(s),
         NEW src \in Seq(E), NEW g \in [0..Len(src) -> Seq(E)], InTurns(g, s, src)
  PROVE  \E m \in 0..Len(src) : AddedUpTo(r, g, m, src)
<1> DEFINE T == {j \in 1..Len(src) : mcr_Array_find(r.arr, src[j]) = 0}
<1>1. Len(src) \in Nat /\ g[0] = s
  BY DEF InTurns
<1>2. CASE T = {}
  <2>1. \A j \in 1..Len(src) : mcr_Array_find(r.arr, src[j]) # 0
    BY <1>2
  <2>2. AddedUpTo(r, g, 0, src)
    BY <1>1, <2>1 DEF AddedUpTo
  <2> QED BY <1>1, <2>2
<1>3. CASE T # {}
  <2>1. T \in SUBSET Nat
    OBVIOUS
  <2>2. PICK k \in T : \A j \in T : k <= j
    BY <1>3, <2>1, Adds!LeastNumber
  <2> DEFINE m == k - 1
  <2>3. m \in 0..Len(src) /\ m \in Nat /\ m < Len(src) /\ mcr_Array_find(r.arr, src[m + 1]) = 0 /\ k \in 1..Len(src)
    BY <1>1, <2>2
  <2>4. \A j \in 1..m : mcr_Array_find(r.arr, src[j]) # 0
    BY <1>1, <2>2
  <2> DEFINE Q == {n \in 0..m : g[n] = s}
  <2>5. 0 \in Q
    BY <1>1, <2>3
  <2>6. ASSUME NEW n \in 0..m - 1, n \in Q PROVE n + 1 \in Q
    <3>1. n + 1 \in 1..m /\ n + 1 \in 1..Len(src) /\ (n + 1) - 1 = n
      BY <1>1, <2>3
    <3>2. g[n + 1] = Including(s, src[n + 1])
      BY <2>6, <3>1 DEF InTurns
    <3>3. Covers(s, src[n + 1])
      BY <2>4, <3>1, FindCovers
    <3> QED BY <3>1, <3>2, <3>3 DEF Including, Covers
  <2> HIDE DEF m, Q
  <2>7. \A n \in 0..m - 1 : n \in Q => n + 1 \in Q
    BY <2>6
  <2>8. \A n \in 0..m : n \in Q
    BY <2>3, <2>5, <2>7, Adds!CountingUp
  <2>9. g[m] = s
    BY <2>3, <2>8 DEF Q
  <2>10. AddedUpTo(r, g, m, src)
    BY <2>3, <2>4, <2>9 DEF AddedUpTo
  <2> QED BY <2>3, <2>10
<1> QED BY <1>2, <1>3

\* What one addition after the other may come to.
Additions(E) ==
  LET B == {b \in [cells : Seq(E), used : Nat] : IsArray(b, E) /\ IsInOrder(Contents(b))}
  IN {Done(b) : b \in B} \union {Fails(b) : b \in B}

LEMMA AdditionsAre ==
  ASSUME NEW E
  PROVE  /\ \A u \in Additions(E) : IsResult(u) /\ IsArray(u.arr, E) /\ IsInOrder(Contents(u.arr)) /\ u.failed \in BOOLEAN
         /\ \A u : IsResult(u) /\ IsArray(u.arr, E) /\ IsInOrder(Contents(u.arr)) => u \in Additions(E)
<1>1. \A u \in Additions(E) : IsResult(u) /\ IsArray(u.arr, E) /\ IsInOrder(Contents(u.arr)) /\ u.failed \in BOOLEAN
  BY DoneIs, FailsIs, Results DEF Additions
<1>2. \A u : IsResult(u) /\ IsArray(u.arr, E) /\ IsInOrder(Contents(u.arr)) => u \in Additions(E)
  BY DEF Additions, IsArray, IsResult
<1> QED BY <1>1, <1>2

LEMMA AddingClosed ==
  ASSUME NEW E, Garbage \in E, Sizes, Ordering(E), NEW q, NEW u \in Additions(E), NEW x \in E
  PROVE  Adding(q, u, x) \in Additions(E)
<1>0. IsResult(u) /\ IsArray(u.arr, E) /\ IsInOrder(Contents(u.arr)) /\ u.failed \in BOOLEAN
  BY AdditionsAre
<1>1. CASE u.failed
  BY <1>1 DEF Adding
<1>2. CASE ~ u.failed
  <2> DEFINE t == Contents(u.arr)
             v == Adding(q, u, x)
  <2>1. t \in Seq(E) /\ Holds(u.arr, t) /\ IsInOrder(t)
    BY <1>0, ItsContents
  <2> HIDE DEF t
  <2>2. /\ IsResult(v) /\ IsArray(v.arr, E)
        /\ ~ v.failed => Holds(v.arr, Including(t, x))
        /\ v.failed => Holds(v.arr, t)
    BY <1>0, <1>2, <2>1, AddingLeaves
  <2>3. Including(t, x) \in Seq(E) /\ IsInOrder(Including(t, x))
    BY <2>1, IncludingIs
  <2> HIDE DEF v
  <2>4. IsInOrder(Contents(v.arr))
    BY <2>1, <2>2, <2>3, HoldsIts
  <2> QED BY <2>2, <2>4, AdditionsAre DEF v
<1> QED BY <1>1, <1>2

\* h goes from one addition to the next.
AddsInTurn(h, E, b, src, last) ==
  /\ h \in [0..Len(src) -> Additions(E)] /\ h[0] = Done(b) /\ h[Len(src)] = last
  /\ \A n \in 1..Len(src) : h[n] = Adding(0, h[n - 1], src[n])

LEMMA AddsOneByOne ==
  ASSUME NEW E, Garbage \in E, Sizes, Ordering(E), NEW a, NEW src \in Seq(E), src # << >>,
         ~ mcr_Array_smartsize(a, Len(src)).failed, IsArray(mcr_Array_smartsize(a, Len(src)).arr, E),
         IsInOrder(Contents(mcr_Array_smartsize(a, Len(src)).arr))
  PROVE  \E h : AddsInTurn(h, E, mcr_Array_smartsize(a, Len(src)).arr, src, mcr_Array_add(a, src, TRUE))
<1> DEFINE q == mcr_Array_smartsize(a, Len(src))
           base == Done(q.arr)
<1>1. mcr_Array_add(a, src, TRUE) = Adds!Folded(0, base, src)
  BY AddFolds DEF mcr_Array_add, Then
<1> HIDE DEF q
<1>2. base \in Additions(E)
  BY AdditionsAre, DoneIs, Results DEF q
<1> HIDE DEF base
<1>3. Adds!Closed(0, Additions(E), E)
  BY AddingClosed DEF Adds!Closed
<1>4. PICK h \in [0..Len(src) -> Additions(E)] : Adds!Steps(h, 0, base, src) /\ h[Len(src)] = Adds!Folded(0, base, src)
  BY <1>2, <1>3, Adds!FoldSteps
<1>5. h[0] = base /\ \A n \in 1..Len(src) : h[n] = Adding(0, h[n - 1], src[n])
  BY <1>4 DEF Adds!Steps
<1>6. AddsInTurn(h, E, q.arr, src, mcr_Array_add(a, src, TRUE))
  BY <1>1, <1>4, <1>5 DEF AddsInTurn, base
<1> QED BY <1>6 DEF q

LEMMA AddUniqueLeaves ==
  ASSUME NEW E, Garbage \in E, Sizes, Ordering(E), NEW a, IsArray(a, E), NEW s \in Seq(E), Holds(a, s),
         IsInOrder(s), NEW src \in Seq(E), NEW g \in [0..Len(src) -> Seq(E)], InTurns(g, s, src)
  PROVE  /\ IsArray(mcr_Array_add(a, src, TRUE).arr, E)
         /\ \E m \in 0..Len(src) : AddedUpTo(mcr_Array_add(a, src, TRUE), g, m, src)
         /\ \A n \in 0..Len(src) : IsInOrder(g[n])
<1> DEFINE r == mcr_Array_add(a, src, TRUE)
           q == mcr_Array_smartsize(a, Len(src))
           N == Len(src)
<1>0. N \in Nat /\ g[0] = s /\ \A n \in 1..N : g[n] = Including(g[n - 1], src[n]) /\ src[n] \in E
  BY DEF InTurns
<1>g. \A n \in 0..N : IsInOrder(g[n]) /\ \A j \in 1..n : Covers(g[n], src[j])
  <2> DEFINE Q == {n \in 0..N : IsInOrder(g[n]) /\ \A j \in 1..n : Covers(g[n], src[j])}
  <2>1. 0 \in Q
    BY <1>0
  <2>2. ASSUME NEW n \in 0..N - 1, n \in Q PROVE n + 1 \in Q
    <3>0. n + 1 \in 1..N /\ n \in 0..N /\ (n + 1) - 1 = n
      BY <1>0
    <3>1. n + 1 \in 1..N /\ n \in 0..N /\ (n + 1) - 1 = n /\ g[n] \in Seq(E)
      BY <3>0
    <3>2. g[n + 1] = Including(g[n], src[n + 1]) /\ src[n + 1] \in E
      BY <1>0, <3>1
    <3>3. IsInOrder(g[n]) /\ \A j \in 1..n : Covers(g[n], src[j])
      BY <2>2
    <3>4. IsInOrder(g[n + 1]) /\ Covers(g[n + 1], src[n + 1]) /\ \A y : Covers(g[n], y) => Covers(g[n + 1], y)
      BY <3>1, <3>2, <3>3, IncludingIs DEF Covers
    <3>5. ASSUME NEW j \in 1..n + 1 PROVE Covers(g[n + 1], src[j])
      BY <1>0, <3>3, <3>4
    <3> QED BY <3>1, <3>4, <3>5
  <2> HIDE DEF Q
  <2>3. \A n \in 0..N - 1 : n \in Q => n + 1 \in Q
    BY <2>2
  <2>4. \A n \in 0..N : n \in Q
    BY <1>0, <2>1, <2>3, Adds!CountingUp
  <2> QED BY <2>4 DEF Q
<1>1. CASE src = << >>
  <2>1. r = Done(a)
    BY <1>1 DEF mcr_Array_add
  <2>2. AddedUpTo(r, g, 0, src)
    <3>1. ~ r.failed /\ r.arr = a
      BY <2>1, DoneIs
    <3>2. Len(src) = 0
      BY <1>1
    <3> HIDE DEF r
    <3> QED BY <1>0, <3>1, <3>2 DEF AddedUpTo
  <2>3. 0 \in 0..Len(src)
    BY <1>0
  <2> QED BY <1>g, <2>1, <2>2, <2>3, DoneIs
<1>2. CASE src # << >>
  <2>1. Keeps(q, E, a)
    BY <1>0, SmartsizeKeeps
  <2>2. q.failed \in BOOLEAN /\ IsArray(q.arr, E) /\ Holds(q.arr, s)
    BY <2>1, KeptHolds
  <2>4. CASE q.failed
    <3>1. r = q
      BY <1>2, <2>4 DEF mcr_Array_add, Then
    <3> HIDE DEF q, r
    <3> QED BY <1>g, <2>2, <2>4, <3>1, UnsizedAdds DEF r
  <2>5. CASE ~ q.failed
    <3> HIDE DEF r
    <3>1. Contents(q.arr) = s
      BY <2>2, HoldsIts
    <3>7. PICK h : AddsInTurn(h, E, q.arr, src, r)
      BY <1>2, <2>2, <2>5, <3>1, AddsOneByOne, Zenon DEF r
    <3> HIDE DEF q
    <3>8. /\ h \in [0..N -> Additions(E)] /\ h[0] = Done(q.arr) /\ r = h[N]
          /\ \A n \in 1..N : h[n] = Adding(0, h[n - 1], src[n])
      BY <3>7 DEF AddsInTurn
    <3>2. \A u \in Additions(E) : IsResult(u) /\ IsArray(u.arr, E) /\ IsInOrder(Contents(u.arr)) /\ u.failed \in BOOLEAN
      BY AdditionsAre
    <3>4. Holds(h[0].arr, s) /\ ~ h[0].failed
      BY <2>2, <3>8, DoneIs
    <3> DEFINE Stuck(b, m) == Holds(b, g[m]) /\ ~ Covers(g[m], src[m + 1])
               Q == {n \in 0..N : /\ ~ h[n].failed => Holds(h[n].arr, g[n])
                                  /\ h[n].failed => \E m \in 0..n - 1 : Stuck(h[n].arr, m)}
    <3>9. 0 \in Q
      BY <1>0, <3>4, <3>8
    <3>10. ASSUME NEW n \in 0..N - 1, n \in Q PROVE n + 1 \in Q
      <4> DEFINE u == h[n]
                 v == h[n + 1]
                 x == src[n + 1]
      <4>0. n + 1 \in 1..N /\ n \in 0..N /\ (n + 1) - 1 = n /\ n \in Nat
        <5> HIDE DEF Q
        <5> QED BY <1>0
      <4>1. n + 1 \in 1..N /\ n \in 0..N /\ (n + 1) - 1 = n /\ g[n] \in Seq(E) /\ n \in Nat
        BY <4>0
      <4>2. v = Adding(0, u, x) /\ u \in Additions(E) /\ x \in E /\ g[n + 1] = Including(g[n], x)
        BY <1>0, <3>8, <4>1
      <4>3. /\ ~ u.failed => Holds(u.arr, g[n])
            /\ u.failed => \E m \in 0..n - 1 : Stuck(u.arr, m)
        BY <3>10
      <4>4. CASE u.failed
        <5>1. v = u
          BY <4>2, <4>4 DEF Adding
        <5>2. PICK m \in 0..n - 1 : Stuck(u.arr, m)
          BY <4>3, <4>4
        <5>3. m \in 0..(n + 1) - 1
          BY <4>1
        <5>4. v.failed /\ Stuck(v.arr, m)
          BY <4>4, <5>1, <5>2
        <5> HIDE DEF u, v, Stuck
        <5> QED BY <4>1, <5>3, <5>4 DEF v
      <4>5. CASE ~ u.failed
        <5> HIDE DEF u, v, x
        <5>1. IsInOrder(g[n]) /\ Holds(u.arr, g[n]) /\ IsResult(u) /\ IsArray(u.arr, E)
          BY <1>g, <3>2, <4>1, <4>2, <4>3, <4>5
        <5>2. /\ IsArray(v.arr, E)
              /\ ~ v.failed => Holds(v.arr, Including(g[n], x))
              /\ v.failed => Holds(v.arr, g[n]) /\ mcr_Array_find(v.arr, x) = 0
          BY <4>1, <4>2, <4>5, <5>1, AddingLeaves
        <5>3. v.failed => Stuck(v.arr, n)
          <6> SUFFICES ASSUME v.failed PROVE Stuck(v.arr, n)
            OBVIOUS
          <6>1. ~ Covers(g[n], x)
            BY <4>1, <4>2, <5>1, <5>2, FindCovers
          <6> QED BY <5>2, <6>1 DEF x
        <5>4. n \in 0..(n + 1) - 1
          BY <4>1
        <5> HIDE DEF Stuck
        <5> QED BY <4>1, <4>2, <5>2, <5>3, <5>4 DEF v
      <4> QED BY <4>4, <4>5
    <3> HIDE DEF Q
    <3>11. \A n \in 0..N - 1 : n \in Q => n + 1 \in Q
      BY <3>10
    <3>12. \A n \in 0..N : n \in Q
      BY <1>0, <3>9, <3>11, Adds!CountingUp
    <3>13. r = h[N] /\ N \in 0..N /\ r \in Additions(E)
      BY <1>0, <3>8
    <3>14. /\ ~ r.failed => Holds(r.arr, g[N])
           /\ r.failed => \E m \in 0..N - 1 : Stuck(r.arr, m)
      <4>1. N \in Q
        BY <3>12, <3>13
      <4> QED BY <3>13, <4>1 DEF Q
    <3>15. IsArray(r.arr, E)
      BY <3>2, <3>13
    <3>16. \E m \in 0..N : AddedUpTo(r, g, m, src)
      <4>1. CASE ~ r.failed
        <5>1. AddedUpTo(r, g, N, src)
          BY <3>13, <3>14, <4>1 DEF AddedUpTo
        <5> QED BY <3>13, <5>1
      <4>2. CASE r.failed
        <5>1. PICK m \in 0..N - 1 : Stuck(r.arr, m)
          BY <3>14, <4>2
        <5>0. m \in 0..N /\ m < N /\ m + 1 \in 1..N /\ \A j \in 1..m : j \in 1..N
          BY <1>0
        <5>2. m \in 0..N /\ m < N /\ m + 1 \in 1..N /\ g[m] \in Seq(E) /\ src[m + 1] \in E /\ \A j \in 1..m : src[j] \in E
          BY <5>0
        <5>3. IsInOrder(g[m]) /\ \A j \in 1..m : Covers(g[m], src[j])
          BY <1>g, <5>2
        <5>4. mcr_Array_find(r.arr, src[m + 1]) = 0
          BY <3>15, <5>1, <5>2, <5>3, FindCovers
        <5>5. \A j \in 1..m : mcr_Array_find(r.arr, src[j]) # 0
          BY <3>15, <5>1, <5>2, <5>3, FindCovers
        <5>6. AddedUpTo(r, g, m, src)
          BY <4>2, <5>1, <5>2, <5>4, <5>5 DEF AddedUpTo
        <5> QED BY <5>2, <5>6
      <4> QED BY <4>1, <4>2
    <3> QED BY <1>g, <3>15, <3>16 DEF r
  <2> QED BY <2>4, <2>5
<1> QED BY <1>1, <1>2

-----------------------------------------------------------------------------
(* Removing                                                                *)

Purging(x, b, n) ==
  LET i == mcr_Array_find(b, x) IN IF i = 0 THEN b ELSE mcr_Array_remove_index(b, i - 1, 1)

Purges == INSTANCE FoldProofs WITH Op <- Purging

Below(s, x) == {i \in 1..Len(s) : Before(s[i], x)}
Likes(s, x) == {i \in 1..Len(s) : Alike(s[i], x)}

\* s without the elements that are like x, which stand together.
Purged(s, x) == Without(s, Cardinality(Below(s, x)), Cardinality(Likes(s, x)))

AsParted(s, x, p, q) ==
  /\ p \in 0..Len(s) /\ q \in p..Len(s)
  /\ \A i \in 1..Len(s) : Before(s[i], x) <=> i <= p
  /\ \A i \in 1..Len(s) : Alike(s[i], x) <=> p < i /\ i <= q

LEMMA InitialPart ==
  ASSUME NEW n \in Nat, NEW T \in SUBSET (1..n), \A i \in T : \A j \in 1..n : j < i => j \in T
  PROVE  \E p \in 0..n : T = 1..p
<1>1. CASE T = {}
  <2>1. 1..0 = {}
    OBVIOUS
  <2> QED BY <1>1, <2>1
<1>2. CASE T # {}
  <2> DEFINE p == Purges!Greatest(T)
  <2>1. p \in T /\ \A i \in T : p >= i
    BY <1>2, Purges!GreatestNumber
  <2> HIDE DEF p
  <2>2. ASSUME NEW j \in 1..p PROVE j \in T
    <3>1. j \in 1..n /\ (j = p \/ j < p)
      BY <2>1
    <3> QED BY <2>1, <3>1
  <2>3. T \subseteq 1..p
    BY <2>1
  <2>4. T = 1..p
    BY <2>2, <2>3
  <2> QED BY <2>1, <2>4
<1> QED BY <1>1, <1>2

LEMMA Parts ==
  ASSUME NEW E, Ordering(E), NEW s \in Seq(E), IsInOrder(s), NEW x \in E
  PROVE  \E p, q \in 0..Len(s) : AsParted(s, x, p, q)
<1> DEFINE N == Len(s)
           T == Below(s, x)
           U == {i \in 1..N : ~ Before(x, s[i])}
<1>0. N \in Nat /\ \A i \in 1..N : s[i] \in E
  OBVIOUS
<1>1. ASSUME NEW i \in 1..N, NEW j \in 1..N, j < i
      PROVE  (Before(s[i], x) => Before(s[j], x)) /\ (~ Before(x, s[i]) => ~ Before(x, s[j]))
  <2>1. ~ Before(s[i], s[j]) /\ s[i] \in E /\ s[j] \in E
    BY <1>0, <1>1 DEF IsInOrder
  <2> QED BY <2>1 DEF Ordering
<1>2. \E p \in 0..N : T = 1..p
  <2>1. T \in SUBSET (1..N) /\ \A i \in T : \A j \in 1..N : j < i => j \in T
    BY <1>1 DEF Below
  <2> HIDE DEF T, N
  <2> QED BY <1>0, <2>1, InitialPart
<1>3. \E q \in 0..N : U = 1..q
  <2>1. U \in SUBSET (1..N) /\ \A i \in U : \A j \in 1..N : j < i => j \in U
    BY <1>1
  <2> HIDE DEF U, N
  <2> QED BY <1>0, <2>1, InitialPart
<1>4. PICK p \in 0..N : T = 1..p
  BY <1>2
<1>5. PICK q \in 0..N : U = 1..q
  BY <1>3
<1>6. p <= q
  <2>1. T \subseteq U
    BY <1>0 DEF Below, Ordering
  <2> HIDE DEF T, U
  <2> QED BY <1>0, <1>4, <1>5, <2>1
<1>7. \A i \in 1..N : (Before(s[i], x) <=> i <= p) /\ (~ Before(x, s[i]) <=> i <= q)
  BY <1>0, <1>4, <1>5 DEF Below
<1>8. AsParted(s, x, p, q)
  <2>1. q \in p..N
    BY <1>0, <1>6
  <2>2. ASSUME NEW i \in 1..N PROVE (Alike(s[i], x) <=> p < i /\ i <= q) /\ (Before(s[i], x) <=> i <= p)
    BY <1>0, <1>7 DEF Alike
  <2> HIDE DEF T, U
  <2> QED BY <2>1, <2>2 DEF AsParted
<1> QED BY <1>8

LEMMA PartsCounted ==
  ASSUME NEW s, Len(s) \in Nat, NEW x, NEW p, NEW q, AsParted(s, x, p, q)
  PROVE  Cardinality(Below(s, x)) = p /\ Cardinality(Likes(s, x)) = q - p
<1>1. p \in Int /\ q \in Int /\ 0 <= p /\ p <= q /\ q <= Len(s) /\ 1 \in Int /\ p + 1 \in Int
  BY DEF AsParted
<1>2. Below(s, x) = 1..p
  BY <1>1 DEF AsParted, Below
<1>3. Likes(s, x) = p + 1..q
  BY <1>1 DEF AsParted, Likes
<1>4. Cardinality(1..p) = IF 1 > p THEN 0 ELSE p - 1 + 1
  BY <1>1, FS_Interval
<1>5. Cardinality(p + 1..q) = IF p + 1 > q THEN 0 ELSE q - (p + 1) + 1
  BY <1>1, FS_Interval
<1> QED BY <1>1, <1>2, <1>3, <1>4, <1>5

AsPurged(t, E, s, x) ==
  t \in Seq(E) /\ Len(t) = Len(s) - 1 /\ IsInOrder(t) /\ Purged(t, x) = Purged(s, x)

LEMMA PurgeOne ==
  ASSUME NEW E, Ordering(E), NEW s \in Seq(E), IsInOrder(s), NEW x \in E, NEW i \in 1..Len(s), Alike(s[i], x)
  PROVE  AsPurged(Without(s, i - 1, 1), E, s, x)
<1> DEFINE t == Without(s, i - 1, 1)
<1>0. Len(s) \in Nat /\ i - 1 \in 0..Len(s) /\ 1 \in 0..Len(s) - (i - 1)
  OBVIOUS
<1>1. /\ t \in Seq(E) /\ Len(t) = Len(s) - 1
      /\ \A j \in 1..Len(s) - 1 : j <= i - 1 => t[j] = s[j]
      /\ \A j \in 1..Len(s) - 1 : i - 1 < j => t[j] = s[j + 1]
  BY <1>0, WithoutIs
<1> HIDE DEF t
<1>2. ASSUME NEW j \in 1..Len(t), NEW k \in 1..Len(t), j < k PROVE ~ Before(t[k], t[j])
  <2>1. j \in 1..Len(s) - 1 /\ k \in 1..Len(s) - 1 /\ j \in 1..Len(s) /\ k \in 1..Len(s)
        /\ j + 1 \in 1..Len(s) /\ k + 1 \in 1..Len(s)
    BY <1>0, <1>1
  <2>2. CASE k <= i - 1
    <3>1. t[k] = s[k] /\ t[j] = s[j]
      BY <1>1, <1>2, <2>1, <2>2
    <3> QED BY <1>2, <2>1, <3>1 DEF IsInOrder
  <2>3. CASE i - 1 < k /\ j <= i - 1
    <3>1. t[k] = s[k + 1] /\ t[j] = s[j]
      BY <1>1, <2>1, <2>3
    <3> QED BY <1>2, <2>1, <3>1 DEF IsInOrder
  <2>4. CASE i - 1 < j
    <3>1. t[k] = s[k + 1] /\ t[j] = s[j + 1]
      BY <1>1, <1>2, <2>1, <2>4
    <3> QED BY <1>2, <2>1, <3>1 DEF IsInOrder
  <2> QED BY <2>1, <2>2, <2>3, <2>4
<1>3. IsInOrder(t)
  BY <1>2 DEF IsInOrder
<1>4. PICK p, q \in 0..Len(s) : AsParted(s, x, p, q)
  BY Parts
<1>5. /\ p < i /\ i <= q /\ p <= q
      /\ \A j \in 1..Len(s) : (Before(s[j], x) <=> j <= p) /\ (Alike(s[j], x) <=> p < j /\ j <= q)
  BY <1>4 DEF AsParted
<1>6. AsParted(t, x, p, q - 1)
  <2>1. p \in 0..Len(t) /\ q - 1 \in p..Len(t)
    BY <1>0, <1>1, <1>5
  <2>2. ASSUME NEW j \in 1..Len(t)
        PROVE  (Before(t[j], x) <=> j <= p) /\ (Alike(t[j], x) <=> p < j /\ j <= q - 1)
    <3>1. j \in 1..Len(s) - 1 /\ j \in 1..Len(s) /\ j + 1 \in 1..Len(s)
      BY <1>0, <1>1
    <3>2. CASE j <= i - 1
      <4>1. t[j] = s[j]
        BY <1>1, <3>1, <3>2
      <4>2. j <= q - 1
        BY <1>5, <3>1, <3>2
      <4>3. (Before(s[j], x) <=> j <= p) /\ (Alike(s[j], x) <=> p < j /\ j <= q)
        BY <1>5, <3>1
      <4> QED BY <3>1, <4>1, <4>2, <4>3
    <3>3. CASE i - 1 < j
      <4>1. t[j] = s[j + 1]
        BY <1>1, <3>1, <3>3
      <4>2. p < j /\ p < j + 1 /\ (j + 1 <= q <=> j <= q - 1)
        BY <1>5, <3>1, <3>3
      <4>3. (Before(s[j + 1], x) <=> j + 1 <= p) /\ (Alike(s[j + 1], x) <=> p < j + 1 /\ j + 1 <= q)
        BY <1>5, <3>1
      <4> QED BY <3>1, <4>1, <4>2, <4>3
    <3> QED BY <3>1, <3>2, <3>3
  <2> QED BY <2>1, <2>2 DEF AsParted
<1>7. Cardinality(Below(s, x)) = p /\ Cardinality(Likes(s, x)) = q - p
  BY <1>0, <1>4, PartsCounted
<1>8. Cardinality(Below(t, x)) = p /\ Cardinality(Likes(t, x)) = (q - 1) - p
  <2>1. Len(t) \in Nat
    BY <1>1
  <2> QED BY <1>6, <2>1, PartsCounted
<1> DEFINE c == (q - 1) - p
           u == Without(s, p, q - p)
           v == Without(t, p, c)
<1>c. c = (q - 1) - p /\ c \in Int /\ p \in Int /\ q \in Int
  OBVIOUS
<1> HIDE DEF c
<1>9. /\ u \in Seq(E) /\ Len(u) = Len(s) - (q - p)
      /\ \A j \in 1..Len(s) - (q - p) : j <= p => u[j] = s[j]
      /\ \A j \in 1..Len(s) - (q - p) : p < j => u[j] = s[j + (q - p)]
  <2>1. p \in 0..Len(s) /\ q - p \in 0..Len(s) - p
    BY <1>0, <1>5
  <2> QED BY <2>1, WithoutIs
<1>10. /\ v \in Seq(E) /\ Len(v) = Len(t) - c
       /\ \A j \in 1..Len(t) - c : j <= p => v[j] = t[j]
       /\ \A j \in 1..Len(t) - c : p < j => v[j] = t[j + c]
  <2>1. p \in 0..Len(t) /\ c \in 0..Len(t) - p
    BY <1>0, <1>1, <1>5, <1>c
  <2> QED BY <1>1, <2>1, WithoutIs
<1> HIDE DEF u, v
<1>11. Len(s) - (q - p) = Len(t) - c
  BY <1>0, <1>1, <1>c
<1>12. ASSUME NEW j \in 1..Len(s) - (q - p) PROVE u[j] = v[j]
  <2>0. j \in 1..Len(t) - c
    BY <1>11
  <2>1. CASE j <= p
    <3>1. j \in 1..Len(s) - 1 /\ j <= i - 1
      BY <1>0, <1>5, <2>1
    <3>2. u[j] = s[j] /\ v[j] = t[j] /\ t[j] = s[j]
      BY <1>1, <1>9, <1>10, <2>0, <2>1, <3>1
    <3> QED BY <3>2
  <2>2. CASE p < j
    <3> DEFINE k == j + c
    <3>1. k \in 1..Len(s) - 1 /\ i - 1 < k /\ k + 1 = j + (q - p)
      BY <1>0, <1>5, <1>c, <2>2
    <3>2. u[j] = s[j + (q - p)] /\ v[j] = t[k]
      BY <1>9, <1>10, <2>0, <2>2
    <3> HIDE DEF k
    <3>3. t[k] = s[k + 1]
      BY <1>1, <3>1
    <3> QED BY <3>1, <3>2, <3>3
  <2> QED BY <2>1, <2>2
<1>13. u = v
  <2> DEFINE m == Len(s) - (q - p)
  <2>1. Len(u) = m /\ Len(v) = m /\ \A j \in 1..m : u[j] = v[j]
    BY <1>9, <1>10, <1>11, <1>12
  <2> HIDE DEF m
  <2> QED BY <1>9, <1>10, <2>1
<1>14. Purged(t, x) = Purged(s, x)
  BY <1>7, <1>8, <1>13 DEF Purged, c, u, v
<1>15. AsPurged(t, E, s, x)
  BY <1>1, <1>3, <1>14 DEF AsPurged
<1> QED BY <1>15 DEF t

LEMMA PurgeNone ==
  ASSUME NEW E, Ordering(E), NEW s \in Seq(E), IsInOrder(s), NEW x \in E, ~ Covers(s, x)
  PROVE  Purged(s, x) = s
<1>0. Len(s) \in Nat
  OBVIOUS
<1>1. PICK p, q \in 0..Len(s) : AsParted(s, x, p, q)
  BY Parts
<1>2. p = q
  <2>1. p <= q /\ \A i \in 1..Len(s) : ~ (p < i /\ i <= q)
    BY <1>1 DEF AsParted, Covers
  <2>2. p < q => p + 1 \in 1..Len(s)
    BY <1>0
  <2> QED BY <1>0, <2>1, <2>2
<1>3. Cardinality(Below(s, x)) = p /\ Cardinality(Likes(s, x)) = 0
  BY <1>0, <1>1, <1>2, PartsCounted
<1> DEFINE u == Without(s, p, 0)
<1>4. /\ u \in Seq(E) /\ Len(u) = Len(s) - 0
      /\ \A j \in 1..Len(s) - 0 : j <= p => u[j] = s[j]
      /\ \A j \in 1..Len(s) - 0 : p < j => u[j] = s[j + 0]
  <2>1. p \in 0..Len(s) /\ 0 \in 0..Len(s) - p
    BY <1>0
  <2> QED BY <2>1, WithoutIs
<1> HIDE DEF u
<1>5. ASSUME NEW j \in 1..Len(s) PROVE u[j] = s[j]
  BY <1>0, <1>4
<1>6. u = s
  BY <1>0, <1>4, <1>5
<1> QED BY <1>3, <1>6 DEF Purged, u

LEMMA RemoveFolds ==
  ASSUME NEW a, NEW x
  PROVE  mcr_Array_remove(a, x) = Purges!Folded(x, a, Turns(a))
BY DEF mcr_Array_remove, Turns, Purging, Purges!Folded, OneByOne, MapThenFoldSet,
       Purges!MapThenFoldSet, Purges!Greatest

\* What one removal after the other may come to, when w is what is left of the elements in the end.
Removals(E, x, w) ==
  {b \in [cells : Seq(E), used : Nat] : IsArray(b, E) /\ IsInOrder(Contents(b)) /\ Purged(Contents(b), x) = w}

\* A removal takes one element away, unless none is left.
LEMMA PurgingClosed ==
  ASSUME NEW E, Garbage \in E, Zero \in E, Sizes, Ordering(E), NEW x \in E, NEW w, NEW b \in Removals(E, x, w), NEW n
  PROVE  /\ Purging(x, b, n) \in Removals(E, x, w)
         /\ \/ Purging(x, b, n) = b /\ ~ Covers(Contents(b), x)
            \/ Purging(x, b, n).used = b.used - 1 /\ b.used > 0
<1> DEFINE B == Removals(E, x, w)
<1>6. \A c \in B : IsArray(c, E) /\ IsInOrder(Contents(c)) /\ Purged(Contents(c), x) = w /\ c.used \in Nat
  BY DEF IsArray, Removals
<1>7. \A c : IsArray(c, E) /\ IsInOrder(Contents(c)) /\ Purged(Contents(c), x) = w => c \in B
  BY DEF IsArray, Removals
<1> HIDE DEF B
<1>8. b \in B
  BY DEF B
<1> DEFINE t == Contents(b)
           i == mcr_Array_find(b, x)
           u == Purging(x, b, n)
<1>1. t \in Seq(E) /\ Len(t) = b.used /\ Holds(b, t) /\ IsInOrder(t) /\ Purged(t, x) = w /\ IsArray(b, E)
  BY <1>6, <1>8, ItsContents
<1> HIDE DEF t
<1>2. Finds(i, t, x) /\ (i # 0 <=> Covers(t, x))
  BY <1>1, FindFinds, FindCovers
<1>3. u = IF i = 0 THEN b ELSE mcr_Array_remove_index(b, i - 1, 1)
  BY DEF Purging
<1> HIDE DEF i, u
<1>4. CASE i = 0
  BY <1>2, <1>3, <1>4, <1>8 DEF u, t, B
<1>5. CASE i # 0
  <2> DEFINE v == Without(t, i - 1, 1)
  <2>1. i \in 1..Len(t) /\ Alike(t[i], x) /\ Len(t) \in Nat /\ b.used > 0
    BY <1>1, <1>2, <1>5 DEF Finds
  <2>2. u = mcr_Array_remove_index(b, i - 1, 1)
    BY <1>3, <1>5
  <2>3. IsArray(u, E) /\ Holds(u, v)
    <3>1. i - 1 \in 0..Len(t) /\ 1 \in Nat /\ 1 = Least((i - 1) + 1, Len(t)) - (i - 1)
      BY <2>1 DEF Least
    <3> QED BY <1>1, <2>2, <3>1, RemoveLeaves
  <2>4. v \in Seq(E) /\ Len(v) = Len(t) - 1 /\ IsInOrder(v) /\ Purged(v, x) = w
    <3>1. AsPurged(v, E, t, x)
      BY <1>1, <2>1, PurgeOne
    <3> QED BY <1>1, <3>1 DEF AsPurged
  <2> HIDE DEF v
  <2>5. Contents(u) = v
    BY <2>3, <2>4, HoldsIts
  <2>6. u \in B
    BY <1>7, <2>3, <2>4, <2>5
  <2>7. u.used = b.used - 1
    BY <1>1, <2>3, <2>4 DEF Holds
  <2> QED BY <2>1, <2>6, <2>7 DEF u, B
<1> QED BY <1>4, <1>5

\* h goes from one removal to the next.
PurgesInTurn(h, E, a, x, w, last) ==
  /\ h \in [0..a.used -> Removals(E, x, w)] /\ h[0] = a /\ h[a.used] = last
  /\ \A n \in 1..a.used : h[n] = Purging(x, h[n - 1], n)

LEMMA RemovesOneByOne ==
  ASSUME NEW E, Garbage \in E, Zero \in E, Sizes, Ordering(E), NEW x \in E, NEW w, NEW a \in Removals(E, x, w)
  PROVE  \E h : PurgesInTurn(h, E, a, x, w, mcr_Array_remove(a, x))
<1> DEFINE B == Removals(E, x, w)
           N == a.used
           turns == Turns(a)
<1>1. N \in Nat /\ turns \in Seq(Nat) /\ Len(turns) = N /\ \A n \in 1..N : turns[n] = n
  BY DEF Removals, Turns
<1>2. mcr_Array_remove(a, x) = Purges!Folded(x, a, turns)
  BY RemoveFolds
<1> HIDE DEF turns
<1>6. Purges!Closed(x, B, Nat)
  BY PurgingClosed DEF Purges!Closed
<1>7. PICK h \in [0..N -> B] : Purges!Steps(h, x, a, turns) /\ h[N] = Purges!Folded(x, a, turns)
  <2> HIDE DEF B, N
  <2> QED BY <1>1, <1>6, Purges!FoldSteps DEF B
<1>8. h[0] = a /\ \A n \in 1..N : h[n] = Purging(x, h[n - 1], n)
  BY <1>1, <1>7 DEF Purges!Steps
<1>9. PurgesInTurn(h, E, a, x, w, mcr_Array_remove(a, x))
  BY <1>2, <1>7, <1>8 DEF PurgesInTurn
<1> QED BY <1>9

LEMMA RemoveAllLeaves ==
  ASSUME NEW E, Garbage \in E, Zero \in E, Sizes, Ordering(E), NEW a, IsArray(a, E), NEW s \in Seq(E), Holds(a, s),
         IsInOrder(s), NEW x \in E
  PROVE  IsArray(mcr_Array_remove(a, x), E) /\ Holds(mcr_Array_remove(a, x), Purged(s, x))
<1> DEFINE N == Len(s)
           w == Purged(s, x)
           B == Removals(E, x, w)
<1>1. a.used = N /\ N \in Nat
  BY DEF Holds
<1>2. a \in B
  BY HoldsIts DEF IsArray, Removals
<1>3. \A b \in B : IsArray(b, E) /\ IsInOrder(Contents(b)) /\ Purged(Contents(b), x) = w /\ b.used \in Nat
  BY DEF IsArray, Removals
<1> HIDE DEF w
<1>5. \A b \in B : \A n : /\ Purging(x, b, n) \in B
                        /\ \/ Purging(x, b, n) = b /\ ~ Covers(Contents(b), x)
                           \/ Purging(x, b, n).used = b.used - 1 /\ b.used > 0
  BY PurgingClosed
<1>7. PICK h : PurgesInTurn(h, E, a, x, w, mcr_Array_remove(a, x))
  BY <1>2, RemovesOneByOne
<1>8. /\ h \in [0..N -> B] /\ h[0] = a /\ h[N] = mcr_Array_remove(a, x)
      /\ \A n \in 1..N : h[n] = Purging(x, h[n - 1], n)
  BY <1>1, <1>7 DEF PurgesInTurn
<1> HIDE DEF B
<1> DEFINE Q == {n \in 0..N : ~ Covers(Contents(h[n]), x) \/ h[n].used <= N - n}
<1>9. 0 \in Q
  BY <1>1, <1>8
<1>10. ASSUME NEW n \in 0..N - 1, n \in Q PROVE n + 1 \in Q
  <2>1. n + 1 \in 1..N /\ n + 1 \in 0..N /\ n \in 0..N /\ (n + 1) - 1 = n /\ n \in Int
    BY <1>1
  <2>2. h[n] \in B /\ h[n + 1] = Purging(x, h[n], n + 1) /\ h[n].used \in Nat
    BY <1>3, <1>8, <2>1
  <2>3. \/ h[n + 1] = h[n] /\ ~ Covers(Contents(h[n]), x)
        \/ h[n + 1].used = h[n].used - 1 /\ h[n].used > 0
    BY <1>5, <2>2
  <2>4. CASE h[n + 1] = h[n] /\ ~ Covers(Contents(h[n]), x)
    BY <2>1, <2>4
  <2>5. CASE h[n + 1].used = h[n].used - 1 /\ h[n].used > 0
    <3>1. CASE h[n].used <= N - n
      <4>1. h[n + 1].used <= N - (n + 1)
        BY <1>1, <2>1, <2>2, <2>5, <3>1
      <4> QED BY <2>1, <4>1
    <3>2. CASE ~ Covers(Contents(h[n]), x)
      <4>1. h[n + 1] = h[n]
        <5> DEFINE t == Contents(h[n])
        <5>1. t \in Seq(E) /\ Holds(h[n], t) /\ IsInOrder(t) /\ IsArray(h[n], E)
          BY <1>3, <2>2, ItsContents
        <5>2. mcr_Array_find(h[n], x) = 0
          BY <3>2, <5>1, FindCovers
        <5> QED BY <2>2, <5>2 DEF Purging
      <4> QED BY <2>1, <3>2, <4>1
    <3> QED BY <1>10, <3>1, <3>2
  <2> QED BY <2>3, <2>4, <2>5
<1> HIDE DEF Q
<1>11. \A n \in 0..N - 1 : n \in Q => n + 1 \in Q
  BY <1>10
<1>12. \A n \in 0..N : n \in Q
  <2> HIDE DEF N
  <2> QED BY <1>1, <1>9, <1>11, Purges!CountingUp
<1> DEFINE b == h[N]
           t == Contents(b)
<1>13. b \in B /\ (~ Covers(t, x) \/ b.used <= 0)
  <2>1. N \in 0..N /\ N - N = 0
    BY <1>1
  <2>2. N \in Q
    BY <1>12, <2>1
  <2> QED BY <1>8, <2>1, <2>2 DEF Q
<1>14. mcr_Array_remove(a, x) = b
  BY <1>8
<1> HIDE DEF b
<1>15. t \in Seq(E) /\ Holds(b, t) /\ IsInOrder(t) /\ IsArray(b, E) /\ Purged(t, x) = w /\ Len(t) = b.used /\ b.used \in Nat
  BY <1>3, <1>13, ItsContents
<1>16. ~ Covers(t, x)
  <2>1. b.used <= 0 => Len(t) = 0
    BY <1>15
  <2> HIDE DEF t
  <2> QED BY <1>13, <2>1 DEF Covers
<1>17. t = w
  BY <1>15, <1>16, PurgeNone
<1> QED BY <1>14, <1>15, <1>17 DEF w
=============================================================================
