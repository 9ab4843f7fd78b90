----------------------------- MODULE Instances -----------------------------
(***************************************************************************)
(* src/util/interface.c and src/util/instance.c: instances that hold data  *)
(* made, copied and destroyed by the functions of their interfaces, which  *)
(* may fail, as the allocation may. The caller gives every object to one   *)
(* instance, and only objects of its interface.                            *)
(***************************************************************************)
EXTENDS Integers, FiniteSets

CONSTANTS
  Insts,        \* instances
  Objects,      \* what the instances may hold
  Null,         \* no data, and no interface
  IFaces        \* interfaces

ASSUME InstancesAssumption == Null \notin Objects \union IFaces

VARIABLES
  insts,     \* the interface and the data of every instance
  objects,   \* what became of every object
  half,      \* objects whose init failed
  misused    \* objects that a function of an interface was wrongly called on

instVars == << insts, objects, half, misused >>

Callbacks == {"malloc", "init", "deinit", "copy"}
NoData == [data |-> Null, heap |-> FALSE]
Absent == [is |-> "absent", of |-> Null]  \* not allocated, freed, or back with its owner
Made(f, state) == [is |-> state, of |-> f]

World == [insts |-> insts, objects |-> objects, half |-> half, misused |-> misused, failed |-> FALSE]
Failing(w) == [w EXCEPT !.failed = TRUE]
Later(w, Continue(_)) == IF w.failed THEN w ELSE Continue(w)
WithData(w, i, o, heap) == [w EXCEPT !.insts[i] = [@ EXCEPT !.data = o, !.heap = heap]]

\* A function of interface f is called on an object that must be in the given state.
Called(w, f, o, state) ==
  IF w.objects[o] = Made(f, state) \/ o \in w.half THEN w ELSE [w EXCEPT !.misused = @ \union {o}]

\* MCR_DATA_FREE: what an interface made must be destroyed by then.
DataFreed(w, i) ==
  LET o == w.insts[i].data
      v == IF w.objects[o].of = Null THEN w ELSE Called(w, w.objects[o].of, o, "raw")
  IN IF o = Null THEN w
     ELSE WithData([v EXCEPT !.objects[o] = Absent, !.half = @ \ {o}], i, Null, FALSE)

\* The function that destroys data leaves it as it was if it fails.
Deinitialized(w, i, fails) ==
  LET f == w.insts[i].interface
      o == w.insts[i].data
      v == Called(w, f, o, "live")
  IN IF o = Null THEN w
     ELSE IF "deinit" \in fails THEN Failing(v) ELSE [v EXCEPT !.objects[o] = Made(f, "raw")]

Initialized(w, i, fails) ==
  LET f == w.insts[i].interface
      o == w.insts[i].data
      v == Called(w, f, o, "raw")
  IN IF "init" \in fails THEN Failing([v EXCEPT !.half = @ \union {o}])
     ELSE [v EXCEPT !.objects[o] = Made(f, "live"), !.half = @ \ {o}]

\* The data stays when its init fails.
mcr_iinit(w, i, o, fails) ==
  IF "malloc" \in fails THEN Failing(w)
  ELSE Initialized(WithData([w EXCEPT !.objects[o] = Made(w.insts[i].interface, "raw")], i, o, TRUE), i, fails)

\* Fault: data goes without the function that destroys it.
OnlyFreed(w, i, fails) == DataFreed(w, i)

mcr_Instance_deinit(w, i, fails) ==
  IF w.insts[i].interface = Null THEN DataFreed(w, i)
  ELSE Later(Deinitialized(w, i, fails), LAMBDA v : DataFreed(v, i))

mcr_Instance_set_interface(w, i, f, fails) ==
  Later(mcr_Instance_deinit(w, i, fails), LAMBDA v : [v EXCEPT !.insts[i].interface = f])

\* Fault: data is replaced without being freed.
Replaces(w, i, o, heap, fails) == WithData(w, i, o, heap)

\* The given object was made for the interface, or is none.
mcr_Instance_set_data(w, i, o, heap, fails) ==
  IF w.insts[i].data = o THEN w
  ELSE Later(mcr_Instance_deinit(w, i, fails),
             LAMBDA v : IF o = Null THEN v
                        ELSE WithData([v EXCEPT !.objects[o] = Made(v.insts[i].interface, "live")], i, o, heap))

\* Instances without an interface are not copied, and the copy has the interface
\* of its source before it has the data.
mcr_Instance_copy(w, i, j, o, fails) ==
  LET f == w.insts[j].interface
  IN IF i = j THEN w
     ELSE IF f = Null THEN mcr_Instance_deinit(w, i, fails)
     ELSE Later(mcr_Instance_set_interface(w, i, f, fails),
                LAMBDA v : IF w.insts[j].data = Null THEN v
                           ELSE Later(mcr_iinit(v, i, o, fails),
                                      LAMBDA u : IF "copy" \in fails THEN Failing(u) ELSE u))

mcr_Instance_reset(w, i, o, fails) ==
  IF w.insts[i].interface = Null THEN DataFreed(w, i)
  ELSE IF w.insts[i].data = Null THEN mcr_iinit(w, i, o, fails)
  ELSE Later(Deinitialized(w, i, fails), LAMBDA v : Initialized(v, i, fails))

-----------------------------------------------------------------------------
(* The calls *)

InstancesTypeOK ==
  /\ insts \in [Insts -> [interface : IFaces \union {Null}, data : Objects \union {Null}, heap : BOOLEAN]]
  /\ objects \in [Objects -> [is : {"absent", "raw", "live"}, of : IFaces \union {Null}]]
  /\ half \subseteq Objects /\ misused \subseteq Objects

InstancesInit ==
  /\ insts = [i \in Insts |-> [interface |-> Null, data |-> Null, heap |-> FALSE]]
  /\ objects = [o \in Objects |-> Absent]
  /\ half = {} /\ misused = {}

Becomes(w) ==
  insts' = w.insts /\ objects' = w.objects /\ half' = w.half /\ misused' = w.misused

Unused == {o \in Objects : objects[o] = Absent}

InstanceDeinit == \E i \in Insts, fails \in SUBSET Callbacks :
  Becomes(mcr_Instance_deinit(World, i, fails))

SetInterface == \E i \in Insts, f \in IFaces \union {Null}, fails \in SUBSET Callbacks :
  Becomes(mcr_Instance_set_interface(World, i, f, fails))

SetData == \E i \in Insts, o \in Unused \union {Null}, heap \in BOOLEAN, fails \in SUBSET Callbacks :
  Becomes(mcr_Instance_set_data(World, i, o, heap, fails))

SetAll == \E i \in Insts, f \in IFaces \union {Null}, o \in Unused, heap \in BOOLEAN, fails \in SUBSET Callbacks :
  Becomes(Later(mcr_Instance_set_interface(World, i, f, fails),
                LAMBDA v : mcr_Instance_set_data(v, i, o, heap, fails)))

InstanceCopy == \E i, j \in Insts, o \in Unused, fails \in SUBSET Callbacks :
  Becomes(mcr_Instance_copy(World, i, j, o, fails))

InstanceReset == \E i \in Insts, o \in Unused, fails \in SUBSET Callbacks :
  Becomes(mcr_Instance_reset(World, i, o, fails))

InstancesNext ==
  InstanceDeinit \/ SetInterface \/ SetData \/ SetAll \/ InstanceCopy \/ InstanceReset

InstancesSpec == InstancesInit /\ [][InstancesNext]_instVars

-----------------------------------------------------------------------------
(* Properties *)

\* The functions of an interface are called on its own data only, and in turn:
\* data is destroyed once for every time it was made, and before it is freed,
\* whatever fails in between.
\* Data whose init failed is left to the interface.
CalledInTurn == misused = {}

\* Whatever fails, no data is lost or used after it was freed: the objects that
\* exist are those that instances hold, each held by one.
HeldByOne ==
  \A o \in Objects :
    Cardinality({i \in Insts : insts[i].data = o}) = IF objects[o] = Absent THEN 0 ELSE 1

\* The data of an instance has one owner, and each of its functions its turn.
OwnsData == CalledInTurn /\ HeldByOne
=============================================================================
