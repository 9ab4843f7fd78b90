----------------------------- MODULE FoldProofs -----------------------------
(***************************************************************************)
(* Lemmas about numbers, and about the folds of the community modules: a   *)
(* fold over a sequence takes its elements one after the other.            *)
(***************************************************************************)
EXTENDS Integers, Sequences, Folds, WellFoundedInduction, TLAPS

CONSTANT Op(_, _, _)   \* what is folded, with a parameter of it

LEMMA SmallerNumbers == OpToRel(<, Nat) = {p \in Nat \X Nat : p[1] < p[2]}
BY Zenon DEF OpToRel

\* A set of natural numbers that is not empty has a least one.
LEMMA LeastNumber ==
  ASSUME NEW T \in SUBSET Nat, T # {}
  PROVE  \E x \in T : \A y \in T : x <= y
<1> DEFINE R == {p \in Nat \X Nat : p[1] < p[2]}
<1>1. IsWellFoundedOn(R, Nat)
  BY SmallerNumbers, NatLessThanWellFounded, Zenon
<1> HIDE DEF R
<1>2. \E x \in T : \A y \in T : ~ (<< y, x >> \in R)
  BY <1>1, WFMin
<1>3. \A x, y \in T : ~ (<< y, x >> \in R) => x <= y
  BY DEF R
<1> QED BY <1>2, <1>3

\* What is so of zero, and of each number after one that it is so of, is so of all.
LEMMA CountingUp ==
  ASSUME NEW n \in Nat, NEW Q, 0 \in Q, \A k \in 0..n - 1 : k \in Q => k + 1 \in Q
  PROVE  \A k \in 0..n : k \in Q
<1> DEFINE T == {k \in 0..n : k \notin Q}
<1> SUFFICES ASSUME T # {} PROVE FALSE
  OBVIOUS
<1>0. T \in SUBSET Nat
  OBVIOUS
<1>1. PICK x \in T : \A y \in T : x <= y
  BY <1>0, LeastNumber
<1>2. x \in 1..n /\ x \notin Q
  BY <1>1
<1>3. x - 1 \in 0..n - 1 /\ x - 1 \notin T
  BY <1>1, <1>2
<1>4. x - 1 \in Q
  BY <1>3
<1> QED BY <1>2, <1>3, <1>4

Greatest(T) == CHOOSE i \in T : \A j \in T : i >= j

\* A set of numbers up to a number that is not empty has a greatest one.
LEMMA GreatestNumber ==
  ASSUME NEW n \in Nat, NEW T \in SUBSET (1..n), T # {}
  PROVE  Greatest(T) \in T /\ \A i \in T : Greatest(T) >= i
<1> DEFINE D == {n - i : i \in T}
<1>1. D \in SUBSET Nat /\ D # {}
  <2>1. ASSUME NEW i \in T PROVE n - i \in Nat
    OBVIOUS
  <2> QED BY <2>1
<1>2. PICK x \in D : \A y \in D : x <= y
  BY <1>1, LeastNumber
<1>3. PICK i \in T : x = n - i
  OBVIOUS
<1>4. ASSUME NEW k \in T PROVE i >= k
  <2>1. n - k \in D
    OBVIOUS
  <2> QED BY <1>2, <1>3, <2>1
<1> QED BY <1>3, <1>4 DEF Greatest

LEMMA LastIsGreatest ==
  ASSUME NEW n \in Nat, NEW T \in SUBSET (1..n), n \in T
  PROVE  Greatest(T) = n
<1>1. Greatest(T) \in T /\ Greatest(T) >= n
  BY GreatestNumber
<1>2. Greatest(T) \in 1..n
  BY <1>1
<1> QED BY <1>1, <1>2

-----------------------------------------------------------------------------
(* Folds *)

\* f[T] is what folding the elements at the positions T gives.
FoldsBy(f, G, base, s, n) ==
  f = [T \in SUBSET (1..n) |-> IF T = {} THEN base ELSE G[f[T \ {Greatest(T)}], s[Greatest(T)]]]

LEMMA FoldExists ==
  ASSUME NEW A, NEW S, NEW base \in A, NEW s \in Seq(S), NEW G \in [A \X S -> A]
  PROVE  \E f \in [SUBSET (1..Len(s)) -> A] : FoldsBy(f, G, base, s, Len(s))
<1> DEFINE Q == {n \in 0..Len(s) : \E f \in [SUBSET (1..n) -> A] : FoldsBy(f, G, base, s, n)}
<1>0. Len(s) \in Nat /\ \A i \in 1..Len(s) : s[i] \in S
  OBVIOUS
<1>1. 0 \in Q
  <2> DEFINE f == [T \in SUBSET (1..0) |-> base]
  <2>1. SUBSET (1..0) = {{}}
    OBVIOUS
  <2>2. FoldsBy(f, G, base, s, 0)
    BY <2>1 DEF FoldsBy
  <2> QED BY <1>0, <2>2
<1>2. ASSUME NEW n \in 0..Len(s) - 1, n \in Q PROVE n + 1 \in Q
  <2>1. PICK f \in [SUBSET (1..n) -> A] : FoldsBy(f, G, base, s, n)
    BY <1>2
  <2>2. n \in Nat /\ s[n + 1] \in S
    BY <1>0
  <2> DEFINE g == [T \in SUBSET (1..n + 1) |-> IF n + 1 \in T THEN G[f[T \ {n + 1}], s[n + 1]] ELSE f[T]]
  <2>3. ASSUME NEW T \in SUBSET (1..n + 1)
        PROVE  g[T] \in A /\ g[T] = IF T = {} THEN base ELSE G[g[T \ {Greatest(T)}], s[Greatest(T)]]
    <3>1. CASE n + 1 \in T
      <4>1. T \ {n + 1} \in SUBSET (1..n) /\ T \ {n + 1} \in SUBSET (1..n + 1)
        BY <2>2
      <4>2. Greatest(T) = n + 1
        BY <2>2, <3>1, LastIsGreatest
      <4>3. g[T \ {n + 1}] = f[T \ {n + 1}] /\ f[T \ {n + 1}] \in A
        BY <4>1
      <4> QED BY <2>2, <3>1, <4>2, <4>3
    <3>2. CASE n + 1 \notin T
      <4>1. T \in SUBSET (1..n)
        BY <2>2, <3>2
      <4>2. g[T] = f[T] /\ f[T] \in A
        BY <3>2, <4>1
      <4>3. f[T] = IF T = {} THEN base ELSE G[f[T \ {Greatest(T)}], s[Greatest(T)]]
        BY <2>1, <4>1 DEF FoldsBy
      <4>4. T \ {Greatest(T)} \in SUBSET (1..n) /\ T \ {Greatest(T)} \in SUBSET (1..n + 1) /\ n + 1 \notin T \ {Greatest(T)}
        BY <2>2, <3>2, <4>1
      <4>5. g[T \ {Greatest(T)}] = f[T \ {Greatest(T)}]
        BY <4>4
      <4> QED BY <4>2, <4>3, <4>5
    <3> QED BY <3>1, <3>2
  <2> DEFINE h == [T \in SUBSET (1..n + 1) |-> IF T = {} THEN base ELSE G[g[T \ {Greatest(T)}], s[Greatest(T)]]]
  <2>4. g = h
    <3>1. \A T \in SUBSET (1..n + 1) : g[T] = h[T]
      BY <2>3
    <3>2. g = [T \in SUBSET (1..n + 1) |-> g[T]] /\ h = [T \in SUBSET (1..n + 1) |-> h[T]]
      OBVIOUS
    <3> HIDE DEF g, h
    <3> QED BY <3>1, <3>2
  <2>5. g \in [SUBSET (1..n + 1) -> A]
    BY <2>3
  <2> HIDE DEF g
  <2>6. FoldsBy(g, G, base, s, n + 1)
    BY <2>4 DEF FoldsBy
  <2> QED BY <1>0, <2>5, <2>6
<1> HIDE DEF Q
<1>3. \A n \in 0..Len(s) - 1 : n \in Q => n + 1 \in Q
  BY <1>2
<1>4. \A k \in 0..Len(s) : k \in Q
  BY <1>0, <1>1, <1>3, CountingUp
<1>5. Len(s) \in Q
  BY <1>0, <1>4
<1> QED BY <1>5 DEF Q

Together(f, g, n) ==
  \A T \in SUBSET (1..n) : T # {} /\ f[T \ {Greatest(T)}] = g[T \ {Greatest(T)}] => f[T] = g[T]

\* Folds whose next result follows from the last one are the same.
LEMMA FoldUnique ==
  ASSUME NEW n \in Nat, NEW f, NEW g, f[{}] = g[{}], Together(f, g, n)
  PROVE  \A T \in SUBSET (1..n) : f[T] = g[T]
<1> DEFINE Q == {k \in 0..n : \A T \in SUBSET (1..k) : f[T] = g[T]}
<1>1. 0 \in Q
  <2>1. ASSUME NEW T \in SUBSET (1..0) PROVE f[T] = g[T]
    <3>1. T = {}
      OBVIOUS
    <3> QED BY <3>1
  <2> QED BY <2>1
<1>2. ASSUME NEW k \in 0..n - 1, k \in Q PROVE k + 1 \in Q
  <2>1. ASSUME NEW T \in SUBSET (1..k + 1) PROVE f[T] = g[T]
    <3>1. CASE k + 1 \in T
      <4>1. Greatest(T) = k + 1
        BY <3>1, LastIsGreatest
      <4>2. T \ {k + 1} \in SUBSET (1..k) /\ T \in SUBSET (1..n)
        OBVIOUS
      <4>3. f[T \ {k + 1}] = g[T \ {k + 1}]
        BY <1>2, <4>2
      <4> QED BY <3>1, <4>1, <4>2, <4>3 DEF Together
    <3>2. CASE k + 1 \notin T
      <4>1. T \in SUBSET (1..k)
        BY <3>2
      <4> QED BY <1>2, <4>1
    <3> QED BY <3>1, <3>2
  <2> QED BY <2>1
<1> HIDE DEF Q
<1>3. n \in Q
  BY <1>1, <1>2, CountingUp
<1> QED BY <1>3 DEF Q

StepsBy(f, A, G, s) ==
  \A T \in SUBSET (1..Len(s)) : T # {} /\ f[T \ {Greatest(T)}] \in A => f[T] = G[f[T \ {Greatest(T)}], s[Greatest(T)]]

InTurn(h, G, base, s, last) ==
  h[0] = base /\ h[Len(s)] = last /\ \A n \in 1..Len(s) : h[n] = G[h[n - 1], s[n]]

\* A fold goes from one element to the next.
LEMMA FoldInTurn ==
  ASSUME NEW A, NEW S, NEW base \in A, NEW s \in Seq(S), NEW G \in [A \X S -> A],
         NEW f, f[{}] = base, StepsBy(f, A, G, s)
  PROVE  \E h \in [0..Len(s) -> A] : InTurn(h, G, base, s, f[1..Len(s)])
<1>1. Len(s) \in Nat /\ \A n \in 1..Len(s) : s[n] \in S
  OBVIOUS
<1>2. PICK g \in [SUBSET (1..Len(s)) -> A] : FoldsBy(g, G, base, s, Len(s))
  BY FoldExists
<1>3. \A T \in SUBSET (1..Len(s)) : g[T] = IF T = {} THEN base ELSE G[g[T \ {Greatest(T)}], s[Greatest(T)]]
  BY <1>2 DEF FoldsBy
<1>4. f[{}] = g[{}]
  BY <1>3
<1>5. ASSUME NEW T \in SUBSET (1..Len(s)), T # {}, f[T \ {Greatest(T)}] = g[T \ {Greatest(T)}]
      PROVE  f[T] = g[T]
  <2>1. T \ {Greatest(T)} \in SUBSET (1..Len(s))
    OBVIOUS
  <2>2. g[T \ {Greatest(T)}] \in A
    BY <1>2, <2>1
  <2>3. f[T] = G[f[T \ {Greatest(T)}], s[Greatest(T)]]
    BY <1>5, <2>2 DEF StepsBy
  <2> QED BY <1>3, <1>5, <2>3
<1>6. \A T \in SUBSET (1..Len(s)) : f[T] = g[T]
  <2>1. Together(f, g, Len(s))
    BY <1>5 DEF Together
  <2>2. Len(s) \in Nat
    BY <1>1
  <2> QED BY <2>2, <1>4, <2>1, FoldUnique, Zenon
<1> DEFINE h == [n \in 0..Len(s) |-> g[1..n]]
<1>7. ASSUME NEW n \in 0..Len(s) PROVE h[n] = g[1..n] /\ 1..n \in SUBSET (1..Len(s)) /\ h[n] \in A
  <2>1. 1..n \in SUBSET (1..Len(s))
    BY <1>1
  <2> QED BY <1>2, <2>1
<1>8. h \in [0..Len(s) -> A]
  BY <1>7
<1>9. h[0] = base
  <2>1. 1..0 = {} /\ 0 \in 0..Len(s)
    BY <1>1
  <2> QED BY <1>3, <1>7, <2>1
<1>10. ASSUME NEW n \in 1..Len(s) PROVE h[n] = G[h[n - 1], s[n]]
  <2>1. /\ n \in 0..Len(s) /\ n - 1 \in 0..Len(s) /\ n \in 1..n /\ n \in Nat
        /\ 1..n - 1 = (1..n) \ {n}
    BY <1>1
  <2>2. Greatest(1..n) = n
    BY <2>1, LastIsGreatest
  <2>3. g[1..n] = G[g[(1..n) \ {n}], s[n]]
    BY <1>3, <1>7, <2>1, <2>2
  <2> HIDE DEF h
  <2> QED BY <1>7, <2>1, <2>3
<1>11. h[Len(s)] = f[1..Len(s)]
  BY <1>1, <1>6, <1>7
<1> HIDE DEF h
<1>12. InTurn(h, G, base, s, f[1..Len(s)])
  BY <1>9, <1>10, <1>11 DEF InTurn
<1> QED BY <1>8, <1>12

\* FoldLeft of SequencesExt
Folded(p, base, s) ==
  MapThenFoldSet(LAMBDA x, a : Op(p, a, x), base, LAMBDA i : s[i], LAMBDA T : Greatest(T), DOMAIN s)
Closed(p, A, S) == \A a \in A, x \in S : Op(p, a, x) \in A
Steps(h, p, base, s) == h[0] = base /\ \A n \in 1..Len(s) : h[n] = Op(p, h[n - 1], s[n])

\* If what is folded leads from a set into it, then a fold is the last of the
\* elements of that set which it visits.
LEMMA FoldSteps ==
  ASSUME NEW p, NEW A, NEW S, NEW base \in A, NEW s \in Seq(S), Closed(p, A, S)
  PROVE  \E h \in [0..Len(s) -> A] :
           Steps(h, p, base, s) /\ h[Len(s)] = Folded(p, base, s)
<1> DEFINE Fold(e) == e = [T \in SUBSET DOMAIN s |-> IF T = {} THEN base ELSE Op(p, e[T \ {Greatest(T)}], s[Greatest(T)])]
           f == CHOOSE e : Fold(e)
           G == [q \in A \X S |-> Op(p, q[1], q[2])]
<1>1. Folded(p, base, s) = f[DOMAIN s]
  BY DEF Folded, MapThenFoldSet
<1>2. G \in [A \X S -> A] /\ \A a \in A, x \in S : G[a, x] = Op(p, a, x)
  BY DEF Closed
<1>3. DOMAIN s = 1..Len(s) /\ Len(s) \in Nat /\ \A n \in 1..Len(s) : s[n] \in S
  OBVIOUS
<1> HIDE DEF G
<1>4. PICK g \in [SUBSET (1..Len(s)) -> A] : FoldsBy(g, G, base, s, Len(s))
  BY <1>2, FoldExists
<1>5. ASSUME NEW T \in SUBSET (1..Len(s)), T # {}
      PROVE  Greatest(T) \in 1..Len(s) /\ s[Greatest(T)] \in S /\ T \ {Greatest(T)} \in SUBSET (1..Len(s))
  <2>1. Greatest(T) \in T
    BY <1>3, <1>5, GreatestNumber
  <2> QED BY <1>3, <2>1
<1>6. Fold(g)
  <2>1. \A T \in SUBSET (1..Len(s)) : T # {} => G[g[T \ {Greatest(T)}], s[Greatest(T)]] = Op(p, g[T \ {Greatest(T)}], s[Greatest(T)])
    BY <1>2, <1>4, <1>5
  <2> QED BY <1>3, <1>4, <2>1 DEF FoldsBy
<1>7. Fold(f)
  BY <1>6
<1> HIDE DEF f
<1>8. f[{}] = base /\ StepsBy(f, A, G, s)
  <2>1. \A T \in SUBSET (1..Len(s)) : f[T] = IF T = {} THEN base ELSE Op(p, f[T \ {Greatest(T)}], s[Greatest(T)])
    BY <1>3, <1>7
  <2>2. ASSUME NEW T \in SUBSET (1..Len(s)), T # {}, f[T \ {Greatest(T)}] \in A
        PROVE  f[T] = G[f[T \ {Greatest(T)}], s[Greatest(T)]]
    BY <1>2, <1>5, <2>1, <2>2
  <2> QED BY <2>1, <2>2 DEF StepsBy
<1>9. G \in [A \X S -> A] /\ f[{}] = base /\ StepsBy(f, A, G, s)
  BY <1>2, <1>8
<1>10. PICK h \in [0..Len(s) -> A] : InTurn(h, G, base, s, f[1..Len(s)])
  BY <1>9, FoldInTurn, Zenon
<1>11. h[Len(s)] = f[DOMAIN s] /\ Steps(h, p, base, s)
  <2>1. h[Len(s)] = f[1..Len(s)]
    BY <1>10, Zenon DEF InTurn
  <2>2. ASSUME NEW n \in 1..Len(s) PROVE h[n] = Op(p, h[n - 1], s[n])
    <3>1. h[n - 1] \in A /\ s[n] \in S
      BY <1>3
    <3>2. h[n] = G[h[n - 1], s[n]]
      BY <1>10 DEF InTurn
    <3> QED BY <1>2, <3>1, <3>2
  <2>3. h[0] = base
    BY <1>10 DEF InTurn
  <2> QED BY <1>3, <2>1, <2>2, <2>3 DEF Steps
<1> QED BY <1>1, <1>11, Zenon
=============================================================================
