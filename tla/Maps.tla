-------------------------------- MODULE Maps --------------------------------
(***************************************************************************)
(* src/util/map.c and a caller of it. A map is an array of pairs sorted by *)
(* their keys; mapping remembers the function from keys to values that the *)
(* caller expects of it. Copying a key can fail when it is a string.       *)
(***************************************************************************)
EXTENDS Integers, Sequences, SequencesExt, FiniteSetsExt, Functions

CONSTANTS
  MapKeys,     \* numbers; 0 is a key of null bytes
  MapValues,   \* numbers; 0 is a value of null bytes
  Freed,       \* what reading freed memory or an unwritten cell may return
  MapLimit,    \* most pairs that the allocator grants
  FirstPairs,  \* pairs of the first allocation
  RemapsGrow   \* mcr_Map_remap may be called when the map has no room left

ASSUME MapAssumption ==
  /\ MapKeys \subseteq Int /\ Freed \in Int /\ 0 \in MapKeys /\ 0 \in MapValues
  /\ MapLimit \in Nat /\ FirstPairs \in Nat

VARIABLES
  map,     \* the array of pairs
  mapping  \* the function that the caller expects

mapVars == << map, mapping >>

P(k, v) == [key |-> k, value |-> v]
LowerKey(p, q) == p.key < q.key

Set == INSTANCE Arrays WITH Before <- LowerKey, Zero <- P(0, 0), Garbage <- P(Freed, Freed),
                            Limit <- MapLimit, FirstSize <- FirstPairs

\* MCR_MAP_ELEMENT: the index of the pair with key k, 0 if there is none.
MCR_MAP_ELEMENT(m, k) == Set!mcr_Array_find(m, P(k, 0))

\* Fault: the new pair stays at the end.
Unsorted(m, k, v, copied) ==
  LET found == MCR_MAP_ELEMENT(m, k)
  IN IF found # 0 THEN Set!Done([m EXCEPT !.cells[found].value = v])
     ELSE Set!Then(Set!mcr_Array_push(m, P(0, 0)),
                   LAMBDA n : Set!Done([n EXCEPT !.cells[n.used] = P(k, v)]))

\* The calls that fail leave no pair behind.
mcr_Map_map(m, k, v, copied) ==
  LET found == MCR_MAP_ELEMENT(m, k)
      Copied(n) == IF copied
                   THEN Set!Done(Set!mcr_Array_sort([n EXCEPT !.cells[n.used] = P(k, v)]))
                   ELSE Set!Fails(Set!mcr_Array_pop(n))
  IN IF found # 0 THEN Set!Done([m EXCEPT !.cells[found].value = v])
     ELSE Set!Then(Set!mcr_Array_push(m, P(0, 0)), Copied)

mcr_Map_unmap(m, k) ==
  LET found == MCR_MAP_ELEMENT(m, k)
  IN IF found = 0 THEN m ELSE Set!mcr_Array_remove_index(m, found - 1, 1)

\* The old value is read from its place after the new pair was pushed.
mcr_Map_remap(m, old, new, copied, read) ==
  LET place == MCR_MAP_ELEMENT(m, old)
      moves == MCR_MAP_ELEMENT(m, new) = 0 /\ m.used = Set!Size(m)
      value == IF moves THEN read ELSE m.cells[place].value
  IN IF place = 0 THEN Set!Done(mcr_Map_unmap(m, new))
     ELSE Set!Then(mcr_Map_map(m, new, value, copied),
                   LAMBDA n : Set!Done(mcr_Map_unmap(n, old)))

\* Fault: from the first pair to the last, although removing one moves the rest.
FromFirst(m, v) ==
  FoldLeft(LAMBDA n, i : IF n.cells[i].value = v
                         THEN Set!mcr_Array_remove_index(n, i - 1, 1) ELSE n,
           m, [i \in 1..m.used |-> i])

\* From the last pair to the first, so that removing one moves none ahead.
mcr_Map_unmap_value(m, v) ==
  FoldLeft(LAMBDA n, i : IF n.cells[i].value = v
                         THEN Set!mcr_Array_remove_index(n, i - 1, 1) ELSE n,
           m, [i \in 1..m.used |-> m.used - i + 1])

\* mcr_Map_graph, and mcr_Map_fill when all values are one.
mcr_Map_graph(m, pairs, copied) ==
  IF pairs = << >> THEN Set!Done(m)
  ELSE Set!Then(Set!mcr_Array_smartsize(m, Len(pairs)),
                LAMBDA n : FoldLeft(LAMBDA r, p : Set!Then(r, LAMBDA o : mcr_Map_map(o, p.key, p.value, copied)),
                                    Set!Done(n), pairs))

mcr_Map_element_ensured(m, k, copied) ==
  IF MCR_MAP_ELEMENT(m, k) # 0 THEN Set!Done(m) ELSE mcr_Map_map(m, k, 0, copied)

mcr_Map_resize(m, n) == Set!mcr_Array_resize(m, n)
mcr_Map_clear(m) == [m EXCEPT !.used = 0]

-----------------------------------------------------------------------------
(* The calls *)

MapTypeOK ==
  /\ map \in [cells : Seq([key : MapKeys \union {Freed}, value : MapValues \union {Freed}]), used : Nat]
  /\ DOMAIN mapping \subseteq MapKeys

MapInit == map = Set!mcr_Array_deinit /\ mapping = [k \in {} |-> 0]

With(f, k, v) == [j \in DOMAIN f \union {k} |-> IF j = k THEN v ELSE f[j]]
Without(f, keys) == Restrict(f, DOMAIN f \ keys)

Leads(m, k, v) ==
  LET i == MCR_MAP_ELEMENT(m, k) IN i # 0 /\ m.cells[i].value = v

MapCall(result, expected) ==
  /\ map' = result.arr
  /\ mapping' = IF result.failed THEN mapping ELSE expected

MapMap == \E k \in MapKeys, v \in MapValues, copied \in BOOLEAN :
  MapCall(mcr_Map_map(map, k, v, copied), With(mapping, k, v))

MapRemap == \E old, new \in MapKeys, copied \in BOOLEAN, read \in MapValues \union {Freed} :
  /\ old # new
  /\ RemapsGrow \/ new \in DOMAIN mapping \/ map.used < Set!Size(map)
  /\ MapCall(mcr_Map_remap(map, old, new, copied, read),
             IF old \in DOMAIN mapping THEN Without(With(mapping, new, mapping[old]), {old})
             ELSE Without(mapping, {new}))

MapUnmap == \E k \in MapKeys : MapCall(Set!Done(mcr_Map_unmap(map, k)), Without(mapping, {k}))

MapUnmapValue == \E v \in MapValues :
  MapCall(Set!Done(mcr_Map_unmap_value(map, v)),
          Without(mapping, {k \in DOMAIN mapping : mapping[k] = v}))

\* When one of several keys is refused, those before it stay.
MapGraph == \E k1, k2 \in MapKeys, v1, v2 \in MapValues, copied \in BOOLEAN :
  LET pairs  == << P(k1, v1), P(k2, v2) >>
      result == mcr_Map_graph(map, pairs, copied)
      one    == With(mapping, k1, v1)
  IN /\ map' = result.arr
     /\ mapping' = IF ~result.failed THEN With(one, k2, v2)
                   ELSE IF Leads(result.arr, k1, v1) THEN one
                   ELSE mapping

MapElementEnsured == \E k \in MapKeys, copied \in BOOLEAN :
  MapCall(mcr_Map_element_ensured(map, k, copied),
          IF k \in DOMAIN mapping THEN mapping ELSE With(mapping, k, 0))

\* Of the pairs in the order of their keys, the first n stay.
MapResize == \E n \in 0..MapLimit + 1 :
  MapCall(mcr_Map_resize(map, n),
          Restrict(mapping, {k \in DOMAIN mapping :
                               Cardinality({j \in DOMAIN mapping : j < k}) < n}))

MapMinsize == \E n \in 0..MapLimit + 1 : MapCall(Set!mcr_Array_minsize(map, n), mapping)
MapTrim == MapCall(Set!Done(Set!mcr_Array_trim(map)), mapping)
MapClear == MapCall(Set!Done(mcr_Map_clear(map)), [k \in {} |-> 0])
MapDeinit == MapCall(Set!Done(Set!mcr_Array_deinit), [k \in {} |-> 0])

MapNext ==
  \/ MapMap \/ MapRemap \/ MapUnmap \/ MapUnmapValue \/ MapGraph \/ MapElementEnsured
  \/ MapResize \/ MapMinsize \/ MapTrim \/ MapClear \/ MapDeinit

MapSpec == MapInit /\ [][MapNext]_mapVars

-----------------------------------------------------------------------------
(* Properties *)

\* A map is the function that its caller built: a key leads to the value that
\* it was last given, by whichever of these calls, keys that were removed lead nowhere,
\* and no key has two pairs, of which one would be left behind when the key is
\* removed (mcr_Map_element finds pairs by bisection, so one pair out of its
\* place would hide others).
HoldsMapping ==
  /\ map.used = Cardinality(DOMAIN mapping)
  /\ \A k \in MapKeys :
       IF k \in DOMAIN mapping THEN Leads(map, k, mapping[k]) ELSE MCR_MAP_ELEMENT(map, k) = 0
=============================================================================
