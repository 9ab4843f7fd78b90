--------------------------- MODULE PlatformProofs ---------------------------
(***************************************************************************)
(* Proofs about what the library builds on, for every number of threads.   *)
(*                                                                         *)
(* Grabbers of Windows: the mutex keeps what the grabber knows in step     *)
(* with the hooks that are installed. Not even the hooks of threads that   *)
(* end break that, for the thread whose hook the grabber knows is in its   *)
(* loop or comes back to it.                                               *)
(*                                                                         *)
(* Devices of Linux and the contexts that share them: a call is the        *)
(* sequence of the steps it has left, so the heart is the form of such     *)
(* sequences, which every suffix keeps: what may come after a step, and    *)
(* whose device the next reset is for.                                     *)
(***************************************************************************)
EXTENDS Platform, WellFoundedInduction, FiniteSetTheorems, SequenceTheorems, TLAPS

\* Where a thread stands between taking the mutex and releasing it.
Inside == {"release", "start", "stop", "test", "hook", "unhook", "clear", "close"}

\* A thread that waits for the mutex, or has it, knows where it goes on.
KnowsWay(t, r) ==
  /\ r.pc = "wait" => r.then # ""
  /\ r.pc \in Inside \union {"wait"} => r.after # ""
  /\ r.pc \in {"test", "hook"} \/ (r.pc = "wait" /\ r.then = "test") => r.after = "loop" /\ t \in HookThreads

Typed ==
  /\ GrabberTypeOK
  /\ \A t \in GrabThreads : KnowsWay(t, threads[t])

\* A thread inside is the one that holds the mutex.
HoldsMutex == \A t \in GrabThreads : threads[t].pc \in Inside => hMutex = t /\ threads[t].locked

\* A thread that is about to install a hook finds none, and one that is about to
\* forget the hook has removed it.
StepsAgree ==
  \A t \in GrabThreads :
    /\ Stands(t, "hook") => ~ IsEnabled
    /\ Stands(t, "clear") => installed \subseteq stuck

\* The thread whose hook the grabber knows is in its loop, or in a call that a
\* receiver makes from there.
Loops(r) ==
  \/ r.pc = "loop"
  \/ /\ r.pc \in {"wait", "release", "start", "stop"} /\ r.after = "loop"
     /\ r.pc = "wait" => r.then \in {"start", "stop"}

OwnerLoops == \A t \in GrabThreads : id = t => Loops(threads[t])

InStep == HoldsMutex /\ StepsAgree /\ OwnerLoops /\ HooksKnown

GrabberInv == Typed /\ (~ late => InStep)

-----------------------------------------------------------------------------
(* Steps: what an action does to the threads *)

\* One thread becomes r, and the others stay where they are.
Becomes(t, r) == threads' = [threads EXCEPT ![t] = r]

LEMMA BecomesTyped ==
  ASSUME Typed, NEW t \in GrabThreads, NEW r \in ThreadStates, KnowsWay(t, r), Becomes(t, r)
  PROVE  threads' \in [GrabThreads -> ThreadStates] /\ \A u \in GrabThreads : KnowsWay(u, threads'[u])
BY DEF Typed, GrabberTypeOK, Becomes

LEMMA MovesBecomes ==
  ASSUME Typed, NEW t \in GrabThreads, NEW pc, Moves(t, pc)
  PROVE  Becomes(t, [threads[t] EXCEPT !.pc = pc])
BY DEF Moves, Becomes, Typed, GrabberTypeOK

LEMMA WaitingTyped ==
  ASSUME NEW then \in {"start", "stop", "unhook"}, NEW after \in {"idle", "ended", "loop", "sleep", "freed"}
  PROVE  Waiting(then, after) \in ThreadStates /\ \A t : KnowsWay(t, Waiting(then, after))
BY DEF Waiting, ThreadStates, KnowsWay, Inside

LEMMA RestingTyped ==
  ASSUME NEW pc \in {"idle", "ended", "loop", "undo", "sleep", "freed"}
  PROVE  Resting(pc) \in ThreadStates /\ \A t : KnowsWay(t, Resting(pc))
BY DEF Resting, ThreadStates, KnowsWay, Inside

LEMMA TestTyped ==
  Waiting("test", "loop") \in ThreadStates /\ \A t \in HookThreads : KnowsWay(t, Waiting("test", "loop"))
BY DEF Waiting, ThreadStates, KnowsWay, Inside

LEMMA Points ==
  /\ \A then, after : Waiting(then, after).pc = "wait"
  /\ \A pc : Resting(pc).pc = pc
BY DEF Waiting, Resting

LEMMA TypeInit == GrabberInit => Typed
<1> SUFFICES ASSUME GrabberInit PROVE Typed
  OBVIOUS
<1>1. threads \in [GrabThreads -> ThreadStates] /\ \A t \in GrabThreads : KnowsWay(t, threads[t])
  BY RestingTyped DEF GrabberInit
<1>2. QED
  BY <1>1 DEF GrabberInit, Typed, GrabberTypeOK

\* Where a thread may move without an order to go on elsewhere.
MayMove(r, pc) ==
  \/ r.pc \in Inside /\ pc \in {"release", "clear", "close"}
  \/ r.pc = "test" /\ pc = "hook"
  \/ pc \in {"left", "ended"}

LEMMA MovesTyped ==
  ASSUME Typed, NEW t \in GrabThreads, NEW pc, MayMove(threads[t], pc), Moves(t, pc)
  PROVE  threads' \in [GrabThreads -> ThreadStates] /\ \A u \in GrabThreads : KnowsWay(u, threads'[u])
<1>1. threads[t] \in ThreadStates /\ KnowsWay(t, threads[t])
  BY DEF Typed, GrabberTypeOK
<1> DEFINE r == [threads[t] EXCEPT !.pc = pc]
<1>2. r \in ThreadStates /\ KnowsWay(t, r)
  BY <1>1 DEF MayMove, ThreadStates, KnowsWay, Inside
<1>3. Becomes(t, r)
  BY MovesBecomes
<1> HIDE DEF r
<1>4. QED
  BY <1>2, <1>3, BecomesTyped

LEMMA StartedTyped ==
  ASSUME Typed, NEW t \in GrabThreads, NEW pc, MayMove(threads[t], pc),
         NEW new \in ThreadStates, NEW pool \in SUBSET GrabThreads, (\A u \in pool : KnowsWay(u, new)), NEW started,
         Started(t, pc, new, pool, started)
  PROVE  threads' \in [GrabThreads -> ThreadStates] /\ \A u \in GrabThreads : KnowsWay(u, threads'[u])
<1>1. threads[t] \in ThreadStates /\ KnowsWay(t, threads[t])
  BY DEF Typed, GrabberTypeOK
<1> DEFINE r == [threads[t] EXCEPT !.pc = pc]
<1>2. r \in ThreadStates /\ KnowsWay(t, r)
  BY <1>1 DEF MayMove, ThreadStates, KnowsWay, Inside
<1>3. CASE Becomes(t, r)
  BY <1>2, <1>3, BecomesTyped
<1>4. CASE \E u \in pool : threads' = [threads EXCEPT ![t] = r, ![u] = new]
  BY <1>2, <1>4 DEF Typed, GrabberTypeOK
<1>5. \/ Becomes(t, r)
      \/ \E u \in pool : threads' = [threads EXCEPT ![t] = r, ![u] = new]
  BY DEF Started, Moves, Becomes, Typed, GrabberTypeOK
<1>6. QED
  BY <1>3, <1>4, <1>5

LEMMA StopsTyped ==
  ASSUME Typed, NEW t \in GrabThreads, NEW pc, MayMove(threads[t], pc), Stops(t, pc)
  PROVE  threads' \in [GrabThreads -> ThreadStates] /\ \A u \in GrabThreads : KnowsWay(u, threads'[u])
<1>1. DisableThreads \in SUBSET GrabThreads
  BY DEF GrabThreads
<1>2. QED
  BY <1>1, MovesTyped, StartedTyped, WaitingTyped DEF Stops

-----------------------------------------------------------------------------
(* Types *)

LEMMA TypeStep ==
  ASSUME Typed, [GrabberNext]_grabberVars
  PROVE  Typed'
<1> DEFINE Way == threads' \in [GrabThreads -> ThreadStates] /\ \A u \in GrabThreads : KnowsWay(u, threads'[u])
<1> USE DEF Stands
<1>0. \A t \in GrabThreads : threads[t] \in ThreadStates /\ KnowsWay(t, threads[t])
  BY DEF Typed, GrabberTypeOK
<1>1. ASSUME NEW t \in Clients \union HookThreads, NEW on \in BOOLEAN, SetEnabled(t, on)
      PROVE  Typed'
  <2>1. t \in GrabThreads
    BY DEF GrabThreads
  <2>2. threads[t].pc \in {"idle", "loop"}
    BY <1>1 DEF SetEnabled, MayCall
  <2> DEFINE r == Waiting(IF on THEN "start" ELSE "stop", threads[t].pc)
  <2>3. r \in ThreadStates /\ KnowsWay(t, r)
    BY <2>2, WaitingTyped
  <2>4. Becomes(t, r)
    BY <1>1 DEF SetEnabled, Becomes
  <2> HIDE DEF r
  <2>5. Way
    BY <2>1, <2>3, <2>4, BecomesTyped
  <2>6. QED
    BY <1>1, <2>5 DEF SetEnabled, Typed, GrabberTypeOK
<1>2. ASSUME NEW t \in Clients, Deinit(t)
      PROVE  Typed'
  <2>1. t \in GrabThreads
    BY DEF GrabThreads
  <2> DEFINE r == IF IsEnabled THEN Waiting("stop", "sleep") ELSE Resting("sleep")
  <2>2. r \in ThreadStates /\ KnowsWay(t, r)
    BY WaitingTyped, RestingTyped
  <2>3. Becomes(t, r)
    BY <1>2 DEF Deinit, Becomes
  <2> HIDE DEF r
  <2>4. Way
    BY <2>1, <2>2, <2>3, BecomesTyped
  <2>5. QED
    BY <1>2, <2>4 DEF Deinit, Typed, GrabberTypeOK
<1>3. ASSUME NEW t \in GrabThreads, Wait(t)
      PROVE  Typed'
  <2> DEFINE r == [threads[t] EXCEPT !.pc = threads[t].then, !.locked = (hMutex' = t)]
  <2>1. r \in ThreadStates /\ KnowsWay(t, r)
    BY <1>0, <1>3 DEF Wait, ThreadStates, KnowsWay, Inside
  <2>2. Becomes(t, r)
    BY <1>3 DEF Wait, Becomes, Typed, GrabberTypeOK
  <2> HIDE DEF r
  <2>3. Way
    BY <2>1, <2>2, BecomesTyped
  <2>4. QED
    BY <1>3, <2>3 DEF Wait, Typed, GrabberTypeOK
<1>4. ASSUME NEW t \in GrabThreads, Release(t)
      PROVE  Typed'
  <2> DEFINE r == Resting(threads[t].after)
  <2>0. threads[t].after \in {"idle", "ended", "loop", "undo", "sleep", "freed"}
    BY <1>0, <1>4 DEF Release, ThreadStates, KnowsWay, Inside
  <2>1. r \in ThreadStates /\ KnowsWay(t, r)
    BY <2>0, RestingTyped
  <2>2. Becomes(t, r)
    BY <1>4 DEF Release, Becomes
  <2> HIDE DEF r
  <2>3. Way
    BY <2>1, <2>2, BecomesTyped
  <2>4. QED
    BY <1>4, <2>3 DEF Release, Typed, GrabberTypeOK
<1>5. ASSUME NEW t \in GrabThreads, Start(t)
      PROVE  Typed'
  <2>1. MayMove(threads[t], "release") /\ HookThreads \in SUBSET GrabThreads
    BY <1>5 DEF Start, MayMove, Inside, GrabThreads
  <2>2. Way
    BY <1>5, <2>1, MovesTyped, StartedTyped, TestTyped DEF Start
  <2>3. QED
    BY <1>5, <2>2 DEF Start, Typed, GrabberTypeOK
<1>6. ASSUME NEW t \in GrabThreads, Stop(t)
      PROVE  Typed'
  <2>1. MayMove(threads[t], "release")
    BY <1>6 DEF Stop, MayMove, Inside
  <2>2. Way
    BY <1>6, <2>1, StopsTyped DEF Stop
  <2>3. QED
    BY <1>6, <2>2 DEF Stop, Typed, GrabberTypeOK
<1>7. ASSUME NEW t \in GrabThreads, HookTest(t)
      PROVE  Typed'
  <2>1. CASE Moves(t, "hook")
    <3>1. Way
      BY <1>7, <2>1, MovesTyped DEF HookTest, MayMove
    <3>2. QED
      BY <1>7, <3>1 DEF HookTest, Typed, GrabberTypeOK
  <2>2. CASE threads' = [threads EXCEPT ![t].pc = "release", ![t].after = HookNeeded(t)] /\ HookNeeded(t) # "hook"
    <3> DEFINE r == [threads[t] EXCEPT !.pc = "release", !.after = HookNeeded(t)]
    <3>1. r \in ThreadStates /\ KnowsWay(t, r)
      BY <1>0, <2>2 DEF HookNeeded, ThreadStates, KnowsWay, Inside
    <3>2. Becomes(t, r)
      BY <2>2 DEF Becomes, Typed, GrabberTypeOK
    <3> HIDE DEF r
    <3>3. Way
      BY <3>1, <3>2, BecomesTyped
    <3>4. QED
      BY <1>7, <3>3 DEF HookTest, Typed, GrabberTypeOK
  <2>3. QED
    BY <1>7, <2>1, <2>2 DEF HookTest
<1>8. ASSUME NEW t \in GrabThreads, Hook(t)
      PROVE  Typed'
  <2>1. CASE Moves(t, "release") /\ id' = t /\ installed' = installed \union {t}
    <3>1. Way
      BY <1>8, <2>1, MovesTyped DEF Hook, MayMove, Inside
    <3>2. t \in HookThreads
      BY <1>0, <1>8 DEF Hook, KnowsWay
    <3>3. QED
      BY <1>8, <2>1, <3>1, <3>2 DEF Hook, Typed, GrabberTypeOK
  <2>2. CASE threads' = [threads EXCEPT ![t].pc = "release", ![t].after = "undo"]
               /\ id' \in {id, NoOne} /\ UNCHANGED installed
    <3> DEFINE r == [threads[t] EXCEPT !.pc = "release", !.after = "undo"]
    <3>1. r \in ThreadStates /\ KnowsWay(t, r)
      BY <1>0 DEF ThreadStates, KnowsWay, Inside
    <3>2. Becomes(t, r)
      BY <2>2 DEF Becomes, Typed, GrabberTypeOK
    <3> HIDE DEF r
    <3>3. Way
      BY <3>1, <3>2, BecomesTyped
    <3>4. QED
      BY <1>8, <2>2, <3>3 DEF Hook, Typed, GrabberTypeOK
  <2>3. QED
    BY <1>8, <2>1, <2>2 DEF Hook
<1>9. ASSUME NEW t \in GrabThreads, Undo(t)
      PROVE  Typed'
  <2>1. MayMove(threads[t], "ended")
    BY <1>9 DEF Undo, MayMove
  <2>2. Way
    BY <1>9, <2>1, StopsTyped DEF Undo
  <2>3. QED
    BY <1>9, <2>2 DEF Undo, Typed, GrabberTypeOK
<1>10. ASSUME NEW t \in GrabThreads, LoopEnds(t)
      PROVE  Typed'
  <2>1. Way
    BY <1>10, MovesTyped DEF LoopEnds, MayMove
  <2>2. QED
    BY <1>10, <2>1 DEF LoopEnds, Typed, GrabberTypeOK
<1>11. ASSUME NEW t \in GrabThreads, Leave(t)
      PROVE  Typed'
  <2>1. CASE Moves(t, "ended")
    <3>1. Way
      BY <2>1, MovesTyped DEF MayMove
    <3>2. QED
      BY <1>11, <3>1 DEF Leave, Typed, GrabberTypeOK
  <2>2. CASE Becomes(t, Waiting("unhook", "ended"))
    <3>1. Way
      BY <2>2, WaitingTyped, BecomesTyped
    <3>2. QED
      BY <1>11, <3>1 DEF Leave, Typed, GrabberTypeOK
  <2>3. QED
    BY <1>11, <2>1, <2>2 DEF Leave, Becomes
<1>12. ASSUME NEW t \in GrabThreads, Unhook(t)
      PROVE  Typed'
  <2>1. MayMove(threads[t], "clear") /\ MayMove(threads[t], Unhooked(t))
    BY <1>12 DEF Unhook, Unhooked, MayMove, Inside
  <2>2. Way
    BY <1>12, <2>1, MovesTyped DEF Unhook
  <2>3. QED
    BY <1>12, <2>2 DEF Unhook, Typed, GrabberTypeOK, IsEnabled
<1>13. ASSUME NEW t \in GrabThreads, Clear(t)
      PROVE  Typed'
  <2>1. MayMove(threads[t], Unhooked(t))
    BY <1>13 DEF Clear, Unhooked, MayMove, Inside
  <2>2. Way
    BY <1>13, <2>1, MovesTyped DEF Clear
  <2>3. QED
    BY <1>13, <2>2 DEF Clear, Typed, GrabberTypeOK
<1>14. ASSUME NEW t \in GrabThreads, CloseThread(t)
      PROVE  Typed'
  <2>1. Way
    BY <1>14, MovesTyped DEF CloseThread, MayMove, Inside
  <2>2. QED
    BY <1>14, <2>1 DEF CloseThread, Typed, GrabberTypeOK
<1>15. ASSUME NEW t \in GrabThreads, Slept(t)
      PROVE  Typed'
  <2>1. Way
    BY <1>15, WaitingTyped, BecomesTyped DEF Slept, Becomes
  <2>2. QED
    BY <1>15, <2>1 DEF Slept, Typed, GrabberTypeOK
<1>16. CASE UNCHANGED grabberVars
  BY <1>16 DEF grabberVars, Typed, GrabberTypeOK
<1>17. QED
  BY <1>1, <1>2, <1>3, <1>4, <1>5, <1>6, <1>7, <1>8, <1>9, <1>10, <1>11, <1>12, <1>13, <1>14, <1>15, <1>16
  DEF GrabberNext, Proceeds, Over

-----------------------------------------------------------------------------
(* The mutex *)

\* The other threads stay where they are, but for one that is started.
Others(t) ==
  \A u \in GrabThreads \ {t} :
    \/ threads'[u] = threads[u]
    \/ threads[u].pc = "ended" /\ threads'[u] \in {Waiting("test", "loop"), Waiting("unhook", "ended")}

LEMMA MovesOthers ==
  ASSUME Typed, NEW t \in GrabThreads, NEW pc, Moves(t, pc)
  PROVE  /\ Others(t) /\ threads'[t] = [threads[t] EXCEPT !.pc = pc]
         /\ threads'[t].pc = pc /\ threads'[t].locked = threads[t].locked
BY DEF Moves, Others, Typed, GrabberTypeOK, ThreadStates

LEMMA BecomesOthers ==
  ASSUME Typed, NEW t \in GrabThreads, NEW r, Becomes(t, r)
  PROVE  Others(t) /\ threads'[t] = r
BY DEF Becomes, Others, Typed, GrabberTypeOK

LEMMA StartedOthers ==
  ASSUME Typed, NEW t \in GrabThreads, NEW pc, threads[t].pc # "ended",
         NEW new \in {Waiting("test", "loop"), Waiting("unhook", "ended")},
         NEW pool, NEW started, pool \subseteq GrabThreads, Started(t, pc, new, pool, started)
  PROVE  Others(t) /\ threads'[t] = [threads[t] EXCEPT !.pc = pc]
<1>1. CASE Moves(t, pc)
  BY <1>1, MovesOthers
<1>2. CASE \E u \in pool : threads[u].pc = "ended" /\ threads' = [threads EXCEPT ![t].pc = pc, ![u] = new]
  BY <1>2 DEF Others, Typed, GrabberTypeOK
<1>3. QED
  BY <1>1, <1>2 DEF Started, Stands

LEMMA StopsOthers ==
  ASSUME Typed, NEW t \in GrabThreads, NEW pc, threads[t].pc # "ended", Stops(t, pc)
  PROVE  Others(t) /\ threads'[t] = [threads[t] EXCEPT !.pc = pc]
<1>1. DisableThreads \subseteq GrabThreads
  BY DEF GrabThreads
<1>2. QED
  BY <1>1, MovesOthers, StartedOthers DEF Stops

\* A thread that does not take the mutex, and neither installs nor removes a hook,
\* breaks nothing.
LEMMA OnlyThreads ==
  ASSUME Typed, InStep, NEW t \in GrabThreads, Others(t),
         UNCHANGED << id, hMutex, installed, stuck, late >>,
         threads[t].pc # "clear", threads'[t].pc # "clear",
         threads'[t].pc \in Inside => threads[t].pc \in Inside /\ threads'[t].locked = threads[t].locked,
         threads'[t].pc = "hook" => ~ IsEnabled,
         id = t => Loops(threads'[t])
  PROVE  InStep'
<1> USE DEF InStep, Stands
<1>1. \A u \in GrabThreads \ {t} : threads'[u] # threads[u] =>
         /\ threads[u].pc = "ended" /\ threads'[u].pc = "wait"
  BY DEF Others, Waiting
<1>2. HoldsMutex'
  BY <1>1 DEF HoldsMutex, Inside
<1>3. StepsAgree'
  BY <1>1 DEF StepsAgree, IsEnabled
<1>4. OwnerLoops'
  BY <1>1 DEF OwnerLoops, Loops
<1>5. (\E u \in GrabThreads : threads[u].pc = "clear") => \E u \in GrabThreads : threads'[u].pc = "clear"
  BY <1>1
<1>6. HooksKnown'
  BY <1>5 DEF HooksKnown, IsEnabled
<1>7. QED
  BY <1>2, <1>3, <1>4, <1>6

LEMMA InStepStep ==
  ASSUME Typed, InStep, ~ late', [GrabberNext]_grabberVars
  PROVE  InStep'
<1> USE DEF Stands
<1>0. \A t \in GrabThreads : threads[t] \in ThreadStates /\ KnowsWay(t, threads[t])
  BY DEF Typed, GrabberTypeOK
<1>1. ASSUME NEW t \in Clients \union HookThreads, NEW on \in BOOLEAN, SetEnabled(t, on)
      PROVE  InStep'
  <2>1. t \in GrabThreads
    BY DEF GrabThreads
  <2>2. Others(t) /\ threads'[t] = Waiting(IF on THEN "start" ELSE "stop", threads[t].pc)
    BY <1>1, <2>1, BecomesOthers DEF SetEnabled, Becomes
  <2>3. id = t => Loops(threads'[t])
    BY <1>1, <2>1, <2>2 DEF InStep, OwnerLoops, Loops, SetEnabled, MayCall, Waiting
  <2>4. threads[t].pc \in {"idle", "loop"} /\ UNCHANGED << id, hMutex, installed, stuck, late >>
    BY <1>1 DEF SetEnabled, MayCall
  <2>5. threads'[t].pc = "wait"
    BY <2>2 DEF Waiting
  <2>6. QED
    BY <2>1, <2>2, <2>3, <2>4, <2>5, OnlyThreads DEF Inside
<1>2. ASSUME NEW t \in Clients, Deinit(t)
      PROVE  InStep'
  <2>1. t \in GrabThreads /\ threads[t].pc = "idle"
    BY <1>2 DEF Deinit, GrabThreads
  <2>2. Others(t) /\ threads'[t] = IF IsEnabled THEN Waiting("stop", "sleep") ELSE Resting("sleep")
    BY <1>2, <2>1, BecomesOthers DEF Deinit, Becomes
  <2>3. id # t
    BY <2>1 DEF InStep, OwnerLoops, Loops
  <2>4. threads'[t].pc \in {"wait", "sleep"}
    BY <2>2, Points
  <2>5. UNCHANGED << id, hMutex, installed, stuck, late >>
    BY <1>2 DEF Deinit
  <2>6. QED
    BY <2>1, <2>2, <2>3, <2>4, <2>5, OnlyThreads DEF Inside
<1>3. ASSUME NEW t \in GrabThreads, Wait(t)
      PROVE  InStep'
  <2> DEFINE r == [threads[t] EXCEPT !.pc = threads[t].then, !.locked = (hMutex' = t)]
  <2>1. hMutex = NoOne /\ hMutex' = t /\ threads[t].pc = "wait" /\ UNCHANGED << id, installed, stuck, late >>
    BY <1>3 DEF Wait
  <2>2. Others(t) /\ threads'[t] = r
    BY <1>3 DEF Wait, Others, Typed, GrabberTypeOK
  <2>3. r.pc \in {"start", "stop", "test", "unhook"} /\ r.locked /\ r.after = threads[t].after
    BY <1>0, <2>1 DEF ThreadStates, KnowsWay
  <2>4. \A u \in GrabThreads : threads[u].pc \notin Inside
    BY <2>1, NoOneAssumption DEF InStep, HoldsMutex, GrabThreads
  <2>5. \A u \in GrabThreads \ {t} : threads'[u].pc \notin Inside /\ (threads'[u] = threads[u] \/ threads[u].pc = "ended")
    BY <2>2, <2>4 DEF Others, Waiting, Inside
  <2> HIDE DEF r
  <2>6. HoldsMutex'
    BY <2>1, <2>2, <2>3, <2>5 DEF HoldsMutex
  <2>7. StepsAgree'
    BY <2>2, <2>3, <2>5 DEF StepsAgree, Inside
  <2>8. id = t => threads[t].then \in {"start", "stop"} /\ threads[t].after = "loop" /\ r.pc = threads[t].then
    BY <2>1 DEF r, InStep, OwnerLoops, Loops
  <2>9. OwnerLoops'
    BY <2>1, <2>2, <2>3, <2>5, <2>8 DEF InStep, OwnerLoops, Loops
  <2>10. HooksKnown'
    BY <2>1, <2>4 DEF InStep, HooksKnown, IsEnabled, Inside
  <2>11. QED
    BY <2>6, <2>7, <2>9, <2>10 DEF InStep
<1>4. ASSUME NEW t \in GrabThreads, Release(t)
      PROVE  InStep'
  <2>1. threads[t].pc = "release" /\ hMutex = t /\ threads[t].locked /\ hMutex' = NoOne /\ UNCHANGED << id, late >>
    BY <1>4 DEF Release, InStep, HoldsMutex, Inside
  <2>2. threads'[t] = Resting(threads[t].after) /\ \A u \in GrabThreads \ {t} : threads'[u] = threads[u]
    BY <1>4 DEF Release, Typed, GrabberTypeOK
  <2>3. threads[t].after \in {"idle", "ended", "loop", "undo", "sleep", "freed"}
    BY <1>0, <2>1 DEF KnowsWay, ThreadStates, Inside
  <2>4. \A u \in GrabThreads : threads'[u].pc \notin Inside
    <3>1. threads'[t].pc \notin Inside
      BY <2>2, <2>3, Points DEF Inside
    <3>2. \A u \in GrabThreads \ {t} : threads[u].pc \notin Inside
      BY <2>1 DEF InStep, HoldsMutex
    <3>3. QED
      BY <2>2, <3>1, <3>2
  <2>5. HoldsMutex' /\ StepsAgree'
    BY <2>4 DEF HoldsMutex, StepsAgree, Inside
  <2>6. OwnerLoops'
    <3>1. id = t => threads[t].after = "loop"
      BY <2>1 DEF InStep, OwnerLoops, Loops
    <3>2. id = t => Loops(threads'[t])
      BY <2>2, <3>1, Points DEF Loops
    <3>3. QED
      BY <2>1, <2>2, <3>2 DEF InStep, OwnerLoops
  <2>7. id = t => threads[t].after # "ended"
    BY <2>1 DEF InStep, OwnerLoops, Loops
  <2>8. \A u \in GrabThreads : threads[u].pc # "clear"
    BY <2>1 DEF InStep, HoldsMutex, Inside
  <2>9. installed \subseteq {id} \union stuck /\ (IsEnabled => id \in installed)
    BY <2>1, <2>8 DEF InStep, HooksKnown
  <2>10. installed' \subseteq {id} \union stuck' /\ (IsEnabled => id \in installed')
    BY <1>4, <2>7, <2>9 DEF Release
  <2>11. HooksKnown'
    BY <2>1, <2>10 DEF HooksKnown, IsEnabled
  <2>12. QED
    BY <2>5, <2>6, <2>11 DEF InStep
<1>5. ASSUME NEW t \in GrabThreads, Start(t)
      PROVE  InStep'
  <2>1. threads[t].pc = "start" /\ HookThreads \subseteq GrabThreads
    BY <1>5 DEF Start, GrabThreads
  <2>2. Others(t) /\ threads'[t] = [threads[t] EXCEPT !.pc = "release"]
    BY <1>5, <2>1, MovesOthers, StartedOthers DEF Start
  <2>3. threads'[t].pc = "release" /\ threads'[t].locked = threads[t].locked /\ threads'[t].after = threads[t].after
    BY <1>0, <2>2 DEF ThreadStates
  <2>4. id = t => Loops(threads'[t])
    BY <2>1, <2>3 DEF InStep, OwnerLoops, Loops
  <2>5. QED
    BY <1>5, <2>1, <2>2, <2>3, <2>4, OnlyThreads DEF Start, Inside
<1>6. ASSUME NEW t \in GrabThreads, Stop(t)
      PROVE  InStep'
  <2>1. threads[t].pc = "stop"
    BY <1>6 DEF Stop
  <2>2. Others(t) /\ threads'[t] = [threads[t] EXCEPT !.pc = "release"]
    BY <1>6, <2>1, StopsOthers DEF Stop
  <2>3. threads'[t].pc = "release" /\ threads'[t].locked = threads[t].locked /\ threads'[t].after = threads[t].after
    BY <1>0, <2>2 DEF ThreadStates
  <2>4. id = t => Loops(threads'[t])
    BY <2>1, <2>3 DEF InStep, OwnerLoops, Loops
  <2>5. QED
    BY <1>6, <2>1, <2>2, <2>3, <2>4, OnlyThreads DEF Stop, Inside
<1>7. ASSUME NEW t \in GrabThreads, HookTest(t)
      PROVE  InStep'
  <2>1. threads[t].pc = "test" /\ id # t
    BY <1>7 DEF HookTest, InStep, OwnerLoops, Loops
  <2>2. \/ HookNeeded(t) = "hook" /\ threads'[t] = [threads[t] EXCEPT !.pc = "hook"]
        \/ HookNeeded(t) # "hook" /\ threads'[t] = [threads[t] EXCEPT !.pc = "release", !.after = HookNeeded(t)]
    BY <1>7 DEF HookTest, Moves, Typed, GrabberTypeOK
  <2>3. Others(t)
    BY <1>7 DEF HookTest, Moves, Others, Typed, GrabberTypeOK
  <2>4. /\ threads'[t].pc \in {"hook", "release"} /\ threads'[t].locked = threads[t].locked
        /\ threads'[t].pc = "hook" => ~ IsEnabled
    BY <1>0, <2>2 DEF ThreadStates, HookNeeded
  <2>5. QED
    BY <1>7, <2>1, <2>3, <2>4, OnlyThreads DEF HookTest, Inside
<1>8. ASSUME NEW t \in GrabThreads, Hook(t)
      PROVE  InStep'
  <2>1. /\ threads[t].pc = "hook" /\ hMutex = t /\ ~ IsEnabled /\ UNCHANGED << hMutex, stuck, late >>
        /\ threads[t].after = "loop" /\ t \in HookThreads /\ threads[t].locked
    BY <1>0, <1>8 DEF Hook, InStep, HoldsMutex, StepsAgree, Inside, KnowsWay
  <2>2. \A u \in GrabThreads \ {t} : threads[u].pc \notin Inside
    BY <2>1 DEF InStep, HoldsMutex
  <2>3. installed \subseteq stuck
    BY <2>1, NoOneAssumption DEF InStep, HooksKnown, IsEnabled, Typed, GrabberTypeOK
  <2>4. /\ \A u \in GrabThreads \ {t} : threads'[u] = threads[u]
        /\ threads'[t].pc = "release" /\ threads'[t].locked
        /\ \/ id' = t /\ installed' = installed \union {t} /\ threads'[t].after = "loop"
           \/ id' = NoOne /\ installed' = installed
    <3>1. CASE id' = t /\ installed' = installed \union {t} /\ Moves(t, "release")
      BY <1>0, <2>1, <3>1 DEF Moves, Typed, GrabberTypeOK, ThreadStates
    <3>2. CASE /\ id' \in {id, NoOne} /\ UNCHANGED installed
               /\ threads' = [threads EXCEPT ![t].pc = "release", ![t].after = "undo"]
      BY <1>0, <2>1, <3>2 DEF Typed, GrabberTypeOK, ThreadStates, IsEnabled
    <3>3. QED
      BY <1>8, <3>1, <3>2 DEF Hook
  <2>5. HoldsMutex' /\ StepsAgree'
    BY <2>1, <2>2, <2>4 DEF HoldsMutex, StepsAgree, Inside
  <2>6. OwnerLoops'
    BY <2>4, NoOneAssumption DEF OwnerLoops, Loops, GrabThreads
  <2>7. HooksKnown'
    BY <2>1, <2>3, <2>4 DEF HooksKnown, IsEnabled
  <2>8. QED
    BY <2>5, <2>6, <2>7 DEF InStep
<1>9. ASSUME NEW t \in GrabThreads, Undo(t)
      PROVE  InStep'
  <2>1. threads[t].pc = "undo" /\ id # t
    BY <1>9 DEF Undo, InStep, OwnerLoops, Loops
  <2>2. Others(t) /\ threads'[t] = [threads[t] EXCEPT !.pc = "ended"]
    BY <1>9, <2>1, StopsOthers DEF Undo
  <2>3. threads'[t].pc = "ended"
    BY <1>0, <2>2 DEF ThreadStates
  <2>4. QED
    BY <1>9, <2>1, <2>2, <2>3, OnlyThreads DEF Undo, Inside
<1>10. ASSUME NEW t \in GrabThreads, LoopEnds(t)
      PROVE  InStep'
  <2>1. threads[t].pc = "loop" /\ id # t
    BY <1>10, NoOneAssumption DEF LoopEnds, HookGone, IsEnabled, GrabThreads
  <2>2. Others(t) /\ threads'[t].pc = "left"
    BY <1>10, MovesOthers DEF LoopEnds
  <2>3. QED
    BY <1>10, <2>1, <2>2, OnlyThreads DEF LoopEnds, Inside
<1>11. ASSUME NEW t \in GrabThreads, Leave(t)
      PROVE  InStep'
  <2>1. threads[t].pc = "left" /\ id # t /\ UNCHANGED << id, hMutex, late >>
    BY <1>11 DEF Leave, InStep, OwnerLoops, Loops
  <2>2. CASE IsEnabled
    <3>1. /\ \A u \in GrabThreads \ {t} : threads'[u] = threads[u]
          /\ threads'[t].pc = "ended"
          /\ installed' = installed \ {t} /\ stuck' = stuck \ {t}
      BY <1>0, <1>11, <2>2 DEF Leave, Moves, Typed, GrabberTypeOK, ThreadStates
    <3>2. HoldsMutex' /\ OwnerLoops'
      BY <2>1, <3>1 DEF InStep, HoldsMutex, OwnerLoops, Inside
    <3>3. StepsAgree'
      BY <2>1, <3>1 DEF InStep, StepsAgree, IsEnabled
    <3>4. (\E u \in GrabThreads : threads[u].pc = "clear") => \E u \in GrabThreads : threads'[u].pc = "clear"
      BY <2>1, <3>1
    <3>5. HooksKnown'
      BY <2>1, <3>1, <3>4 DEF InStep, HooksKnown, IsEnabled
    <3>6. QED
      BY <3>2, <3>3, <3>5 DEF InStep
  <2>3. CASE ~ IsEnabled
    <3>1. Others(t) /\ threads'[t] = Waiting("unhook", "ended") /\ UNCHANGED << installed, stuck >>
      BY <1>11, <2>3, BecomesOthers DEF Leave, Becomes
    <3>2. threads'[t].pc = "wait"
      BY <3>1 DEF Waiting
    <3>3. QED
      BY <2>1, <3>1, <3>2, OnlyThreads DEF Inside
  <2>4. QED
    BY <2>2, <2>3
<1>12. ASSUME NEW t \in GrabThreads, Unhook(t)
      PROVE  InStep'
  <2>1. threads[t].pc = "unhook" /\ id # t /\ UNCHANGED << id, hMutex, late >>
    BY <1>12 DEF Unhook, InStep, OwnerLoops, Loops
  <2>2. CASE Moves(t, Unhooked(t)) /\ UNCHANGED << installed, stuck >>
    <3>1. Others(t) /\ threads'[t].pc \in {"release", "close"} /\ threads'[t].locked = threads[t].locked
      BY <2>2, MovesOthers DEF Unhooked
    <3>2. QED
      BY <2>1, <2>2, <3>1, OnlyThreads DEF Inside
  <2>3. CASE /\ Moves(t, "clear")
             /\ \/ installed' = installed \ {id} /\ UNCHANGED stuck
                \/ stuck' = stuck \union {id} /\ UNCHANGED installed
    <3>1. /\ \A u \in GrabThreads \ {t} : threads'[u] = threads[u]
          /\ threads'[t].pc = "clear" /\ threads'[t].locked = threads[t].locked
      BY <1>0, <2>3 DEF Moves, Typed, GrabberTypeOK, ThreadStates
    <3>2. hMutex = t /\ threads[t].locked /\ \A u \in GrabThreads \ {t} : threads[u].pc \notin Inside
      BY <2>1 DEF InStep, HoldsMutex, Inside
    <3>3. HoldsMutex' /\ OwnerLoops'
      BY <2>1, <3>1, <3>2 DEF InStep, HoldsMutex, OwnerLoops, Inside
    <3>4. installed' \subseteq stuck'
      BY <2>1, <2>3 DEF InStep, HooksKnown
    <3>5. StepsAgree' /\ HooksKnown'
      BY <3>1, <3>2, <3>4 DEF StepsAgree, HooksKnown, Inside
    <3>6. QED
      BY <3>3, <3>5 DEF InStep
  <2>4. QED
    BY <1>12, <2>2, <2>3 DEF Unhook
<1>13. ASSUME NEW t \in GrabThreads, Clear(t)
      PROVE  InStep'
  <2>1. /\ threads[t].pc = "clear" /\ id' = NoOne /\ UNCHANGED << hMutex, installed, stuck, late >>
        /\ hMutex = t /\ threads[t].locked /\ installed \subseteq stuck
    BY <1>13 DEF Clear, InStep, HoldsMutex, StepsAgree, Inside
  <2>2. /\ \A u \in GrabThreads \ {t} : threads'[u] = threads[u]
        /\ threads'[t].pc \in {"release", "close"} /\ threads'[t].locked = threads[t].locked
    BY <1>0, <1>13 DEF Clear, Unhooked, Moves, Typed, GrabberTypeOK, ThreadStates
  <2>3. HoldsMutex' /\ StepsAgree'
    BY <2>1, <2>2 DEF InStep, HoldsMutex, StepsAgree, Inside
  <2>4. OwnerLoops' /\ HooksKnown'
    BY <2>1, NoOneAssumption DEF OwnerLoops, HooksKnown, IsEnabled, GrabThreads
  <2>5. QED
    BY <2>3, <2>4 DEF InStep
<1>14. ASSUME NEW t \in GrabThreads, CloseThread(t)
      PROVE  InStep'
  <2>1. threads[t].pc = "close" /\ id # t
    BY <1>14 DEF CloseThread, InStep, OwnerLoops, Loops
  <2>2. Others(t) /\ threads'[t].pc = "release" /\ threads'[t].locked = threads[t].locked
    BY <1>14, MovesOthers DEF CloseThread
  <2>3. QED
    BY <1>14, <2>1, <2>2, OnlyThreads DEF CloseThread, Inside
<1>15. ASSUME NEW t \in GrabThreads, Slept(t)
      PROVE  InStep'
  <2>1. threads[t].pc = "sleep" /\ id # t
    BY <1>15 DEF Slept, InStep, OwnerLoops, Loops
  <2>2. Others(t) /\ threads'[t] = Waiting("unhook", "freed")
    BY <1>15, BecomesOthers DEF Slept, Becomes
  <2>3. QED
    BY <1>15, <2>1, <2>2, Points, OnlyThreads DEF Slept, Inside
<1>16. CASE UNCHANGED grabberVars
  BY <1>16 DEF grabberVars, InStep, HoldsMutex, StepsAgree, OwnerLoops, Loops, HooksKnown, IsEnabled
<1>17. QED
  BY <1>1, <1>2, <1>3, <1>4, <1>5, <1>6, <1>7, <1>8, <1>9, <1>10, <1>11, <1>12, <1>13, <1>14, <1>15, <1>16
  DEF GrabberNext, Proceeds, Over

-----------------------------------------------------------------------------
(* Theorems *)

LEMMA GrabberInvInit == GrabberInit => GrabberInv
<1> SUFFICES ASSUME GrabberInit PROVE InStep
  BY TypeInit DEF GrabberInv
<1>1. \A t \in GrabThreads : threads[t].pc \in {"idle", "ended"}
  BY DEF GrabberInit, Resting
<1>2. QED
  BY <1>1, NoOneAssumption
  DEF GrabberInit, InStep, HoldsMutex, StepsAgree, OwnerLoops, HooksKnown, IsEnabled, Stands, Inside, GrabThreads

LEMMA GrabberInvStep == GrabberInv /\ [GrabberNext]_grabberVars => GrabberInv'
<1> SUFFICES ASSUME GrabberInv, [GrabberNext]_grabberVars PROVE GrabberInv'
  OBVIOUS
<1>1. Typed'
  BY TypeStep DEF GrabberInv
<1>2. ~ late' => ~ late
  BY DEF GrabberNext, grabberVars, SetEnabled, Deinit, Proceeds, Over, Wait, Release, Start, Stop, HookTest,
         Hook, Undo, LoopEnds, Leave, Unhook, Clear, CloseThread, Slept
<1>3. QED
  BY <1>1, <1>2, InStepStep DEF GrabberInv

\* Every step of the platform is one of the grabber, or leaves it alone.
LEMMA GrabberSteps == [Next]_vars => [GrabberNext]_grabberVars
BY DEF Next, vars

LEMMA GrabberAlways == Spec => []GrabberInv
<1>1. Init => GrabberInv
  BY GrabberInvInit DEF Init
<1>2. GrabberInv /\ [Next]_vars => GrabberInv'
  BY GrabberInvStep, GrabberSteps
<1>3. QED
  BY <1>1, <1>2, PTL DEF Spec

\* However many threads enable and disable a grabber of Windows, from receivers too: as
\* long as none goes on without the mutex (src/intercept/windows/p_grabber.c), the
\* grabber knows the hook that is installed.
THEOREM HooksAreKnown == Spec => []HooksKnown
<1>1. GrabberInv => HooksKnown
  BY DEF GrabberInv, InStep, HooksKnown
<1>2. QED
  BY <1>1, GrabberAlways, PTL

\* No two threads are between taking the mutex and releasing it.
THEOREM OneInside ==
  Spec => [](\A t, u \in GrabThreads : ~ late /\ threads[t].pc \in Inside /\ threads[u].pc \in Inside => t = u)
<1>1. GrabberInv =>
        \A t, u \in GrabThreads : ~ late /\ threads[t].pc \in Inside /\ threads[u].pc \in Inside => t = u
  BY DEF GrabberInv, InStep, HoldsMutex
<1>2. QED
  BY <1>1, GrabberAlways, PTL

-----------------------------------------------------------------------------
(* The form of a call *)

\* Step b may come right after step a.
Follows(a, b) ==
  LET To(name) == b.do = name /\ b.dev = a.dev
  IN /\ a.do = "disable"     => To("close_event")
     /\ a.do = "close_event" => To("close")
     /\ a.do = "close"       => To("reset") \/ To("lock") \/ b.do = "disable"
     /\ a.do = "lock"        => To("open")
     /\ a.do = "open"        => To("create")
     /\ a.do = "create"      => To("enter")
     /\ a.do = "enter"       => To("search")
     /\ a.do = "search"      => b.do = "disable"
     /\ a.do = "reset"       => To("set_bits") \/ b.do = "disable"
     /\ a.do = "set_bits"    => b.do \in {"set_bits", "disable"}

\* A call may end with step a.
MayEnd(a) == a.do \in {"close", "search", "reset", "set_bits"}

\* Before a reset devices are only closed, the last of them the one that is reset.
Closing == {"disable", "close_event", "close", "reset"}
ResetsOwn(s) ==
  \A i, j \in DOMAIN s : i < j /\ s[j].do = "reset" =>
    /\ s[i].do \in Closing
    /\ (\A k \in i .. j - 1 : s[k].do # "reset") => s[i].dev = s[j].dev

Formed(s) ==
  /\ s \in Seq(Step)
  /\ \A i \in 1 .. Len(s) - 1 : Follows(s[i], s[i + 1])
  /\ s # << >> => MayEnd(s[Len(s)])
  /\ ResetsOwn(s)

-----------------------------------------------------------------------------
(* What holds of the devices, wherever the calls stand *)

LockedNames == {"open", "create", "enter", "search"}

\* The step that a thread does next.
Name(t) == IF todo[t] = << >> THEN "none" ELSE Head(todo[t]).do

\* The lock, and the way back from the directory of events.
Guarded ==
  /\ lock \in Threads \union {NoThread}
  /\ \A t \in Threads : lock = t <=> Name(t) \in LockedNames
  /\ ~ astray => /\ cwd = "home" \/ \E t \in Threads : Name(t) = "search"
                 /\ \A t \in Threads : Name(t) = "search" => wd[t] = "home"

\* No two threads change one device.
Apart ==
  \A t, u \in Threads : t # u =>
    \A i \in DOMAIN todo[t], j \in DOMAIN todo[u] : todo[t][i].dev # todo[u][j].dev

\* A device is disabled before it is closed, and until it is created; what is not closed
\* when it is reset could not be.
CautiousOf(t) ==
  /\ Name(t) \in {"close_event", "close", "lock", "open", "create"} => ~ devices[Dev(t)].enabled
  /\ Name(t) = "close" => devices[Dev(t)].event = "none"
  /\ Name(t) = "reset" =>
       /\ devices[Dev(t)].event # "none" => << Dev(t), "event" >> \in clung
       /\ devices[Dev(t)].fd # "none" => << Dev(t), "fd" >> \in clung \/ << Dev(t), "event" >> \in clung

Cautious == \A t \in Threads : CautiousOf(t)

-----------------------------------------------------------------------------
(* What holds of the contexts *)

\* Nobody else does anything while a context is made or removed, or while there is none.
Alone ==
  /\ call = NoCall \/ (call.do # "none" /\ call.ctx \in Contexts)
  /\ call # NoCall => \A t \in Threads \ {App} : Idle(t)
  /\ call.do = "load" => Idle(App)
  /\ call.do \in {"initialize", "load"} => call.ctx \notin Live
  /\ call = NoCall /\ Live = {} => \A t \in Threads : Idle(t)

\* Contexts are counted, the one that is being made too, and one that failed for ever.
Counted ==
  IF call.do = "deinitialize" THEN initialize_count = 0 /\ ~ broken /\ Live \subseteq {call.ctx}
  ELSE /\ initialize_count = Cardinality(Live) + (IF broken THEN 1 ELSE 0)
                               + (IF call.do \in {"initialize", "load"} THEN 1 ELSE 0)
       /\ call.do = "initialize" => ~ broken /\ Live = {}

SetsUp(s, d) == s.dev = d /\ s.do \in {"reset", "set_bits"}

\* The keys of modifiers are on the generic device, from where its bits are set.
Ready ==
  /\ call.do \in {"none", "load"} =>
       /\ \A t \in Threads : \A i \in DOMAIN todo[t] : ~ SetsUp(todo[t][i], Gen)
       /\ ~ broken /\ (Live # {} \/ call.do = "load") => devices[Gen].has_evbit
  /\ call.do = "initialize" =>
       /\ \A i \in DOMAIN todo[App] : todo[App][i].do # "reset"
       /\ ~ failed =>
            /\ \A i \in DOMAIN todo[App] : SetsUp(todo[App][i], Gen) => i = 1
            /\ devices[Gen].has_evbit \/ (At(App, "set_bits") /\ Dev(App) = Gen)

\* The last reset of a device is to come, or nothing is to come for it.
Removed(d) ==
  \/ \E i \in DOMAIN todo[App] :
       /\ todo[App][i] = [do |-> "reset", dev |-> d]
       /\ \A j \in DOMAIN todo[App] : j > i => todo[App][j].dev # d
  \/ devices[d] = Fresh /\ (\A i \in DOMAIN todo[App] : todo[App][i].dev # d)

GivenUp ==
  /\ call.do = "deinitialize" => \A d \in Devs : Removed(d)
  /\ call = NoCall /\ Live = {} /\ ~ broken => \A d \in Devs : devices[d] = Fresh

LifeInv ==
  /\ LifecycleTypeOK /\ \A t \in Threads : Formed(todo[t])
  /\ Guarded
  /\ ~ Shared => Apart /\ Cautious /\ EnabledCanWrite
  /\ Alone /\ Counted /\ Ready /\ GivenUp
-----------------------------------------------------------------------------
(* Sequences of steps *)

LEMMA LessThanPairs == OpToRel(<, Nat) = {p \in Nat \X Nat : p[1] < p[2]}
BY Zenon DEF OpToRel

\* A set of numbers that is not empty has a least one.
LEMMA LeastNumber ==
  ASSUME NEW T \in SUBSET Nat, T # {}
  PROVE  Min(T) \in T /\ \A j \in T : Min(T) <= j
<1> DEFINE R == {p \in Nat \X Nat : p[1] < p[2]}
<1>1. IsWellFoundedOn(R, Nat)
  BY LessThanPairs, NatLessThanWellFounded, Zenon
<1> HIDE DEF R
<1>2. \E x \in T : \A y \in T : ~ (<<y, x>> \in R)
  BY <1>1, WFMin
<1>3. \A x, y \in T : ~ (<<y, x>> \in R) => x <= y
  BY DEF R
<1>4. QED
  BY <1>2, <1>3 DEF Min

LEMMA FormedSuffix ==
  ASSUME NEW s, Formed(s), NEW k \in 1 .. Len(s)
  PROVE  Formed(SubSeq(s, k, Len(s)))
<1> DEFINE u == SubSeq(s, k, Len(s))
<1>1. /\ u \in Seq(Step) /\ Len(u) = Len(s) - k + 1
      /\ \A i \in DOMAIN u : u[i] = s[i + k - 1] /\ i + k - 1 \in DOMAIN s
      /\ DOMAIN u = 1 .. Len(u) /\ DOMAIN s = 1 .. Len(s) /\ Len(s) \in Nat
  BY DEF Formed
<1> HIDE DEF u
<1>2. \A i \in 1 .. Len(u) - 1 : Follows(u[i], u[i + 1])
  <2> TAKE i \in 1 .. Len(u) - 1
  <2>1. i \in DOMAIN u /\ i + 1 \in DOMAIN u /\ i + k - 1 \in 1 .. Len(s) - 1
    BY <1>1
  <2>2. Follows(s[i + k - 1], s[(i + k - 1) + 1])
    BY <2>1 DEF Formed
  <2>3. u[i] = s[i + k - 1] /\ u[i + 1] = s[(i + k - 1) + 1]
    BY <1>1, <2>1
  <2>4. QED
    BY <2>2, <2>3
<1>3. MayEnd(u[Len(u)])
  <2>1. Len(u) \in DOMAIN u /\ u[Len(u)] = s[Len(s)]
    BY <1>1
  <2>2. s # << >>
    BY <1>1
  <2>3. QED
    BY <2>1, <2>2 DEF Formed
<1>4. ResetsOwn(u)
  <2> SUFFICES ASSUME NEW i \in DOMAIN u, NEW j \in DOMAIN u, i < j, u[j].do = "reset"
               PROVE  /\ u[i].do \in Closing
                      /\ (\A n \in i .. j - 1 : u[n].do # "reset") => u[i].dev = u[j].dev
    BY DEF ResetsOwn
  <2> DEFINE a == i + k - 1
             b == j + k - 1
  <2>1. a \in DOMAIN s /\ b \in DOMAIN s /\ a < b /\ s[b].do = "reset" /\ u[i] = s[a] /\ u[j] = s[b]
    BY <1>1
  <2>2. s[a].do \in Closing /\ ((\A n \in a .. b - 1 : s[n].do # "reset") => s[a].dev = s[b].dev)
    BY <2>1 DEF Formed, ResetsOwn
  <2>3. ASSUME \A n \in i .. j - 1 : u[n].do # "reset", NEW m \in a .. b - 1
        PROVE  s[m].do # "reset"
    <3>1. m - k + 1 \in i .. j - 1 /\ m - k + 1 \in DOMAIN u /\ (m - k + 1) + k - 1 = m
      BY <1>1
    <3>2. QED
      BY <1>1, <2>3, <3>1
  <2>4. QED
    BY <2>1, <2>2, <2>3
<1>5. QED
  BY <1>1, <1>2, <1>3, <1>4 DEF Formed, u

\* What is left after the first step, and what comes next.
LEMMA FormedTail ==
  ASSUME NEW s, Formed(s), s # << >>
  PROVE  /\ Head(s) \in Step /\ Formed(Tail(s))
         /\ Tail(s) # << >> => Follows(Head(s), Head(Tail(s)))
         /\ Tail(s) = << >> => MayEnd(Head(s))
         /\ \A i \in DOMAIN Tail(s) : Tail(s)[i] = s[i + 1] /\ i + 1 \in DOMAIN s
         /\ DOMAIN Tail(s) = 1 .. Len(s) - 1 /\ DOMAIN s = 1 .. Len(s) /\ Head(s) = s[1]
<1>1. /\ s \in Seq(Step) /\ Len(s) \in Nat /\ Len(s) >= 1 /\ DOMAIN s = 1 .. Len(s) /\ Head(s) = s[1]
      /\ Tail(s) \in Seq(Step) /\ Len(Tail(s)) = Len(s) - 1 /\ DOMAIN Tail(s) = 1 .. Len(s) - 1
      /\ \A i \in DOMAIN Tail(s) : Tail(s)[i] = s[i + 1] /\ i + 1 \in DOMAIN s
  BY DEF Formed
<1>2. Head(s) \in Step
  BY <1>1
<1>3. CASE Len(s) = 1
  <2>1. Tail(s) = << >>
    BY <1>1, <1>3
  <2>2. Formed(<< >>)
    BY DEF Formed, ResetsOwn
  <2>3. MayEnd(Head(s))
    BY <1>1, <1>3 DEF Formed
  <2>4. QED
    BY <1>1, <1>2, <2>1, <2>2, <2>3
<1>4. CASE Len(s) > 1
  <2>1. Tail(s) = SubSeq(s, 2, Len(s))
    BY <1>1
  <2>2. 2 \in 1 .. Len(s) /\ 1 \in 1 .. Len(s) - 1
    BY <1>1, <1>4
  <2>3. Formed(SubSeq(s, 2, Len(s)))
    BY <2>2, FormedSuffix, Zenon
  <2>4. Tail(s) # << >> /\ Head(Tail(s)) = s[2]
    <3> DEFINE u == Tail(s)
    <3>1. u \in Seq(Step) /\ Len(u) >= 1 /\ u[1] = s[2]
      BY <1>1, <1>4
    <3> HIDE DEF u
    <3>2. u # << >> /\ Head(u) = u[1]
      BY <3>1
    <3>3. QED
      BY <3>1, <3>2 DEF u
  <2>5. Follows(s[1], s[1 + 1])
    BY <2>2 DEF Formed
  <2>6. Follows(Head(s), Head(Tail(s)))
    BY <1>1, <2>4, <2>5
  <2>7. Formed(Tail(s))
    BY <2>1, <2>3
  <2>8. QED
    BY <1>1, <1>2, <2>4, <2>6, <2>7
<1>5. QED
  BY <1>1, <1>3, <1>4

\* Sequence u is s from its k-th step on.
Rest(u, s, k) ==
  /\ DOMAIN u = 1 .. Len(s) - k + 1
  /\ \A i \in DOMAIN u : i + k - 1 \in DOMAIN s /\ u[i] = s[i + k - 1]

\* A failed step leads on to the next reset, which is for the same device, or ends the call.
LEMMA FailureForm ==
  ASSUME NEW s, Formed(s), s # << >>
  PROVE  LET u == AfterFailure(Tail(s))
         IN /\ Formed(u)
            /\ u # << >> =>
                 /\ Head(u).do = "reset"
                 /\ Head(s).do # "reset" => Head(s).do \in Closing /\ Head(u).dev = Head(s).dev
            /\ \E k \in 2 .. Len(s) + 1 :
                 /\ Rest(u, s, k)
                 /\ \A i \in 2 .. k - 1 : s[i].do # "reset"
                 /\ u = << >> <=> k = Len(s) + 1
<1> DEFINE r == Tail(s)
           T == {i \in 1 .. Len(r) : r[i].do = "reset"}
           u == AfterFailure(r)
<1>1. /\ s \in Seq(Step) /\ r \in Seq(Step) /\ Len(r) = Len(s) - 1 /\ Len(s) \in Nat \ {0}
      /\ DOMAIN s = 1 .. Len(s) /\ DOMAIN r = 1 .. Len(r) /\ Head(s) = s[1]
      /\ \A i \in 1 .. Len(r) : r[i] = s[i + 1]
      /\ Formed(r)
  BY FormedTail DEF Formed
<1>2. u = IF T # {} THEN SubSeq(r, Min(T), Len(r)) ELSE << >>
  <2>1. (\E i \in DOMAIN r : r[i].do = "reset") <=> T # {}
    BY <1>1
  <2>2. T # {} => SelectInSeq(r, LAMBDA x : x.do = "reset") = Min(T)
    BY DEF SelectInSeq
  <2>3. QED
    BY <2>1, <2>2 DEF AfterFailure
<1> HIDE DEF r, u
<1>3. CASE T = {}
  <2>1. u = << >> /\ Formed(u)
    BY <1>2, <1>3 DEF Formed, ResetsOwn
  <2>2. Rest(u, s, Len(s) + 1)
    BY <1>1, <2>1 DEF Rest
  <2>3. \A i \in 2 .. (Len(s) + 1) - 1 : s[i].do # "reset"
    <3> TAKE i \in 2 .. (Len(s) + 1) - 1
    <3>1. i - 1 \in 1 .. Len(r) /\ r[i - 1] = s[(i - 1) + 1]
      BY <1>1
    <3>2. QED
      BY <1>3, <3>1
  <2>4. Len(s) + 1 \in 2 .. Len(s) + 1
    BY <1>1
  <2>5. QED
    BY <2>1, <2>2, <2>3, <2>4 DEF r, u
<1>4. CASE T # {}
  <2> DEFINE m == Min(T)
             k == m + 1
  <2>0. T \in SUBSET Nat
    OBVIOUS
  <2> HIDE DEF T
  <2>1. m \in T /\ \A j \in T : m <= j
    BY <1>4, <2>0, LeastNumber
  <2> HIDE DEF m
  <2>2. m \in 1 .. Len(r) /\ r[m].do = "reset" /\ \A j \in 1 .. m - 1 : r[j].do # "reset"
    BY <1>1, <2>1 DEF T
  <2>3. u = SubSeq(r, m, Len(r))
    BY <1>2, <1>4 DEF m
  <2>4. Formed(u)
    BY <1>1, <2>2, <2>3, FormedSuffix
  <2>5. /\ DOMAIN u = 1 .. Len(r) - m + 1 /\ u # << >> /\ Len(u) = Len(r) - m + 1
        /\ \A i \in DOMAIN u : u[i] = r[i + m - 1] /\ i + m - 1 \in 1 .. Len(r)
    <3>1. u \in Seq(Step) /\ Len(u) = Len(r) - m + 1
      BY <1>1, <2>2, <2>3
    <3>2. DOMAIN u = 1 .. Len(r) - m + 1 /\ u # << >>
      BY <1>1, <2>2, <3>1
    <3>3. \A i \in DOMAIN u : u[i] = r[i + m - 1] /\ i + m - 1 \in 1 .. Len(r)
      BY <1>1, <2>2, <2>3, <3>2
    <3>4. QED
      BY <3>1, <3>2, <3>3
  <2>6. Rest(u, s, k) /\ k \in 2 .. Len(s)
    BY <1>1, <2>2, <2>5 DEF Rest
  <2>7. \A i \in 2 .. k - 1 : s[i].do # "reset"
    <3> TAKE i \in 2 .. k - 1
    <3>1. i - 1 \in 1 .. m - 1 /\ i - 1 \in 1 .. Len(r) /\ r[i - 1] = s[(i - 1) + 1]
      BY <1>1, <2>2
    <3>2. QED
      BY <2>2, <3>1
  <2>8. Head(u) = s[k] /\ s[k].do = "reset"
    <3>1. u \in Seq(Step)
      BY <2>4 DEF Formed
    <3>2. Head(u) = u[1]
      BY <2>5, <3>1
    <3>3. u[1] = s[1 + k - 1]
      BY <1>1, <2>2, <2>5
    <3>4. s[k] = r[m]
      BY <1>1, <2>2
    <3>5. QED
      BY <2>2, <3>2, <3>3, <3>4
  <2>9. Head(s).do # "reset" => Head(s).do \in Closing /\ Head(u).dev = Head(s).dev
    <3>1. 1 < k /\ 1 \in DOMAIN s /\ k \in DOMAIN s
      BY <1>1, <2>6
    <3>2. s[1].do \in Closing /\ ((\A n \in 1 .. k - 1 : s[n].do # "reset") => s[1].dev = s[k].dev)
      BY <2>8, <3>1 DEF Formed, ResetsOwn
    <3>3. s[1].do # "reset" => \A n \in 1 .. k - 1 : s[n].do # "reset"
      BY <2>7
    <3>4. QED
      BY <1>1, <2>8, <3>2, <3>3
  <2>10. k \in 2 .. Len(s) + 1 /\ k # Len(s) + 1
    BY <1>1, <2>6
  <2>11. QED
    BY <2>4, <2>5, <2>6, <2>7, <2>8, <2>9, <2>10 DEF r, u
<1>5. QED
  BY <1>3, <1>4

-----------------------------------------------------------------------------
(* What calls start with *)

NoReset(s) == \A i \in DOMAIN s : s[i].do # "reset"

\* One call after the other is a call.
LEMMA ConcatForm ==
  ASSUME NEW a, Formed(a), a # << >>,
         NEW b, Formed(b), b # << >>,
         Follows(a[Len(a)], b[1]),
         \/ NoReset(b)
         \/ a[Len(a)].do = "reset" /\ \A i \in DOMAIN a : a[i].do \in Closing
  PROVE  /\ Formed(a \o b) /\ a \o b # << >>
         /\ Len(a \o b) = Len(a) + Len(b) /\ Len(a) \in Nat /\ Len(b) \in Nat
         /\ DOMAIN a = 1 .. Len(a) /\ DOMAIN b = 1 .. Len(b) /\ DOMAIN (a \o b) = 1 .. Len(a) + Len(b)
         /\ \A i \in 1 .. Len(a) + Len(b) : (a \o b)[i] = IF i <= Len(a) THEN a[i] ELSE b[i - Len(a)]
<1> DEFINE s == a \o b
           m == Len(a)
           n == Len(b)
<1>1. /\ a \in Seq(Step) /\ b \in Seq(Step) /\ m \in Nat \ {0} /\ n \in Nat \ {0}
      /\ DOMAIN a = 1 .. m /\ DOMAIN b = 1 .. n
  BY DEF Formed
<1>2. /\ s \in Seq(Step) /\ Len(s) = m + n
      /\ \A i \in 1 .. m + n : s[i] = IF i <= m THEN a[i] ELSE b[i - m]
  BY <1>1, ConcatProperties, Zenon
<1> HIDE DEF s
<1>3. DOMAIN s = 1 .. m + n /\ s # << >>
  BY <1>1, <1>2
<1>4. \A i \in 1 .. Len(s) - 1 : Follows(s[i], s[i + 1])
  <2> TAKE i \in 1 .. Len(s) - 1
  <2>1. CASE i < m
    <3>1. i \in 1 .. Len(a) - 1 /\ s[i] = a[i] /\ s[i + 1] = a[i + 1]
      BY <1>1, <1>2, <2>1
    <3>2. QED
      BY <3>1 DEF Formed
  <2>2. CASE i = m
    <3>1. s[i] = a[Len(a)] /\ s[i + 1] = b[1]
      BY <1>1, <1>2, <2>2
    <3>2. QED
      BY <3>1
  <2>3. CASE i > m
    <3>1. i - m \in 1 .. Len(b) - 1 /\ s[i] = b[i - m] /\ s[i + 1] = b[(i - m) + 1]
      BY <1>1, <1>2, <2>3
    <3>2. Follows(b[i - m], b[(i - m) + 1])
      BY <3>1 DEF Formed
    <3>3. QED
      BY <3>1, <3>2
  <2>4. QED
    BY <1>1, <1>2, <2>1, <2>2, <2>3
<1>5. MayEnd(s[Len(s)])
  <2>1. s[Len(s)] = b[Len(b)]
    BY <1>1, <1>2
  <2>2. QED
    BY <2>1 DEF Formed
<1>6. ResetsOwn(s)
  <2> SUFFICES ASSUME NEW i \in DOMAIN s, NEW j \in DOMAIN s, i < j, s[j].do = "reset"
               PROVE  /\ s[i].do \in Closing
                      /\ (\A k \in i .. j - 1 : s[k].do # "reset") => s[i].dev = s[j].dev
    BY DEF ResetsOwn
  <2>1. CASE j <= m
    <3>1. i \in DOMAIN a /\ j \in DOMAIN a /\ s[i] = a[i] /\ s[j] = a[j]
      BY <1>1, <1>2, <1>3, <2>1
    <3>2. \A k \in i .. j - 1 : s[k] = a[k]
      BY <1>1, <1>2, <1>3, <2>1
    <3>3. /\ a[i].do \in Closing
          /\ (\A k \in i .. j - 1 : a[k].do # "reset") => a[i].dev = a[j].dev
      BY <3>1 DEF Formed, ResetsOwn
    <3>4. QED
      BY <3>1, <3>2, <3>3
  <2>2. CASE j > m
    <3>1. j - m \in DOMAIN b /\ s[j] = b[j - m]
      BY <1>1, <1>2, <1>3, <2>2
    <3>2. a[Len(a)].do = "reset" /\ \A k \in DOMAIN a : a[k].do \in Closing
      BY <3>1 DEF NoReset
    <3>3. CASE i <= m
      <4>1. i \in DOMAIN a /\ s[i] = a[i] /\ s[m] = a[Len(a)] /\ m \in i .. j - 1
        BY <1>1, <1>2, <1>3, <2>2, <3>3
      <4>2. QED
        BY <3>2, <4>1
    <3>4. CASE i > m
      <4>1. i - m \in DOMAIN b /\ s[i] = b[i - m]
        BY <1>1, <1>2, <1>3, <3>4
      <4>2. /\ b[i - m].do \in Closing
            /\ (\A k \in i - m .. (j - m) - 1 : b[k].do # "reset") => b[i - m].dev = b[j - m].dev
        <5>1. ResetsOwn(b) /\ b[j - m].do = "reset"
          BY <3>1 DEF Formed
        <5>2. i - m < j - m
          BY <1>1, <1>3
        <5>3. QED
          BY <3>1, <4>1, <5>1, <5>2 DEF ResetsOwn
      <4>3. ASSUME \A k \in i .. j - 1 : s[k].do # "reset", NEW k \in i - m .. (j - m) - 1
            PROVE  b[k].do # "reset"
        <5>0. i \in 1 .. m + n /\ j \in 1 .. m + n /\ k \in Int /\ i - m <= k /\ k <= j - m - 1
          BY <1>1, <1>3
        <5>1. k + m \in i .. j - 1 /\ k + m \in 1 .. m + n /\ ~ (k + m <= m) /\ (k + m) - m = k
          BY <1>1, <3>4, <5>0
        <5>3. s[k + m] = b[k]
          BY <1>2, <5>1
        <5>2. QED
          BY <4>3, <5>1, <5>3
      <4>4. QED
        BY <3>1, <4>1, <4>2, <4>3
    <3>5. QED
      BY <1>1, <1>3, <3>3, <3>4
  <2>3. QED
    BY <1>1, <1>3, <2>1, <2>2
<1>7. Formed(s)
  BY <1>2, <1>4, <1>5, <1>6 DEF Formed
<1>8. QED
  BY <1>1, <1>2, <1>3, <1>7 DEF s

\* A call for device d that begins with step first and ends with step last.
Program(s, d, first, last) ==
  /\ Formed(s) /\ s # << >>
  /\ \A i \in DOMAIN s : s[i].dev = d
  /\ s[1].do = first /\ s[Len(s)].do = last

LEMMA StepsOfForm ==
  ASSUME NEW d \in Devs, NEW names \in Seq(StepNames)
  PROVE  /\ StepsOf(names, d) \in Seq(Step) /\ Len(StepsOf(names, d)) = Len(names)
         /\ DOMAIN StepsOf(names, d) = 1 .. Len(names)
         /\ \A i \in 1 .. Len(names) : StepsOf(names, d)[i] = [do |-> names[i], dev |-> d]
<1>1. DOMAIN names = 1 .. Len(names) /\ Len(names) \in Nat /\ \A i \in 1 .. Len(names) : names[i] \in StepNames
  OBVIOUS
<1>2. StepsOf(names, d) = [i \in 1 .. Len(names) |-> [do |-> names[i], dev |-> d]]
  BY <1>1 DEF StepsOf
<1>3. \A i \in 1 .. Len(names) : [do |-> names[i], dev |-> d] \in Step
  BY <1>1 DEF Step
<1>4. QED
  BY <1>1, <1>2, <1>3

LEMMA DisablingForm ==
  ASSUME NEW d \in Devs
  PROVE  /\ Program(Disabling(d), d, "disable", "close")
         /\ Len(Disabling(d)) = 3
         /\ \A i \in 1 .. 3 : Disabling(d)[i].do \in Closing \ {"reset"}
         /\ NoReset(Disabling(d))
<1> DEFINE n == << "disable", "close_event", "close" >>
           s == Disabling(d)
<1>1. n \in Seq(StepNames) /\ Len(n) = 3 /\ n[1] = "disable" /\ n[2] = "close_event" /\ n[3] = "close"
  BY DEF StepNames
<1>2. s = StepsOf(n, d)
  BY DEF Disabling
<1> HIDE DEF s, n
<1>3. s \in Seq(Step) /\ Len(s) = 3 /\ DOMAIN s = 1 .. 3 /\ \A i \in 1 .. 3 : s[i] = [do |-> n[i], dev |-> d]
  BY <1>1, <1>2, StepsOfForm
<1>4. NoReset(s) /\ \A i \in 1 .. 3 : s[i].do \in Closing \ {"reset"}
  BY <1>1, <1>3 DEF NoReset, Closing
<1>5. \A i \in 1 .. Len(s) - 1 : Follows(s[i], s[i + 1])
  BY <1>1, <1>3 DEF Follows
<1>6. ResetsOwn(s)
  BY <1>4 DEF ResetsOwn, NoReset
<1>7. Formed(s)
  BY <1>1, <1>3, <1>5, <1>6 DEF Formed, MayEnd
<1>8. QED
  BY <1>1, <1>3, <1>4, <1>7 DEF Program, s

LEMMA OneStepForm ==
  ASSUME NEW d \in Devs, NEW name \in {"reset", "set_bits"}
  PROVE  /\ Program(StepsOf(<< name >>, d), d, name, name)
         /\ Len(StepsOf(<< name >>, d)) = 1
         /\ StepsOf(<< name >>, d)[1] = [do |-> name, dev |-> d]
<1> DEFINE n == << name >>
           s == StepsOf(n, d)
<1>1. n \in Seq(StepNames) /\ Len(n) = 1 /\ n[1] = name
  BY DEF StepNames
<1> HIDE DEF n
<1>2. s \in Seq(Step) /\ Len(s) = 1 /\ DOMAIN s = {1} /\ s[1] = [do |-> name, dev |-> d] /\ s # << >>
  BY <1>1, StepsOfForm
<1> HIDE DEF s
<1>3. Formed(s)
  BY <1>2 DEF Formed, MayEnd, ResetsOwn
<1>4. QED
  BY <1>2, <1>3 DEF Program, s, n

LEMMA EnablingForm ==
  ASSUME NEW d \in Devs
  PROVE  /\ Program(Enabling(d), d, "disable", "search")
         /\ NoReset(Enabling(d))
         /\ \A i \in DOMAIN Enabling(d) : Enabling(d)[i].do # "set_bits"
<1> DEFINE n == << "lock", "open", "create", "enter", "search" >>
           b == StepsOf(n, d)
           a == Disabling(d)
<1>1. n \in Seq(StepNames) /\ Len(n) = 5 /\ n[1] = "lock" /\ n[2] = "open" /\ n[3] = "create" /\ n[4] = "enter" /\ n[5] = "search"
  BY DEF StepNames
<1>0. Enabling(d) = a \o b
  BY DEF Enabling
<1> HIDE DEF n
<1>2. b \in Seq(Step) /\ Len(b) = 5 /\ DOMAIN b = 1 .. 5 /\ \A i \in 1 .. 5 : b[i] = [do |-> n[i], dev |-> d]
  BY <1>1, StepsOfForm
<1> HIDE DEF b
<1>3. \A i \in 1 .. 5 : n[i] \notin {"reset", "set_bits"}
  BY <1>1
<1>4. NoReset(b) /\ ResetsOwn(b)
  BY <1>2, <1>3 DEF NoReset, ResetsOwn
<1>5. \A i \in 1 .. Len(b) - 1 : Follows(b[i], b[i + 1])
  BY <1>1, <1>2 DEF Follows
<1>6. Formed(b) /\ b # << >>
  <2>1. b # << >>
    <3>1. Len(<< >>) # 5
      OBVIOUS
    <3>2. QED
      BY <1>2, <3>1, Zenon
  <2>2. MayEnd(b[Len(b)])
    BY <1>1, <1>2 DEF MayEnd
  <2>3. QED
    BY <1>2, <1>4, <1>5, <2>1, <2>2 DEF Formed
<1>7. Program(a, d, "disable", "close") /\ Len(a) = 3 /\ NoReset(a)
      /\ \A i \in 1 .. 3 : a[i].do \in Closing \ {"reset"}
  BY DisablingForm
<1> HIDE DEF a
<1>8. Follows(a[Len(a)], b[1])
  <2>1. a[Len(a)].do = "close" /\ a[Len(a)].dev = d
    BY <1>7 DEF Program, Formed
  <2>2. b[1].do = "lock" /\ b[1].dev = d
    BY <1>1, <1>2
  <2>3. QED
    BY <2>1, <2>2 DEF Follows
<1> DEFINE c == a \o b
<1>9. /\ Formed(c) /\ c # << >> /\ Len(c) = 8 /\ DOMAIN c = 1 .. 8 /\ DOMAIN a = 1 .. 3
      /\ \A i \in 1 .. 8 : c[i] = IF i <= 3 THEN a[i] ELSE b[i - 3]
  <2>1. Formed(a) /\ a # << >>
    BY <1>7 DEF Program
  <2>2. /\ Formed(c) /\ c # << >>
        /\ Len(c) = Len(a) + Len(b) /\ DOMAIN a = 1 .. Len(a) /\ DOMAIN c = 1 .. Len(a) + Len(b)
        /\ \A i \in 1 .. Len(a) + Len(b) : c[i] = IF i <= Len(a) THEN a[i] ELSE b[i - Len(a)]
    BY <1>4, <1>6, <1>8, <2>1, ConcatForm
  <2>3. Len(a) = 3 /\ Len(b) = 5 /\ Len(a) + Len(b) = 8
    BY <1>2, <1>7
  <2>4. QED
    BY <2>2, <2>3
<1> HIDE DEF c
<1>10. \A i \in 1 .. 8 : c[i].dev = d /\ c[i].do \notin {"reset", "set_bits"}
  <2>1. \A i \in 1 .. 3 : a[i].dev = d /\ a[i].do \notin {"reset", "set_bits"}
    BY <1>7, <1>9 DEF Program, Closing
  <2>2. \A i \in 1 .. 5 : b[i].dev = d /\ b[i].do \notin {"reset", "set_bits"}
    BY <1>2, <1>3
  <2> TAKE i \in 1 .. 8
  <2>3. c[i] = IF i <= 3 THEN a[i] ELSE b[i - 3]
    BY <1>9
  <2>4. CASE i <= 3
    <3>1. i \in 1 .. 3 /\ c[i] = a[i]
      BY <2>3, <2>4
    <3>2. QED
      BY <2>1, <3>1
  <2>5. CASE i > 3
    <3>1. i - 3 \in 1 .. 5 /\ c[i] = b[i - 3]
      BY <2>3, <2>5
    <3>2. QED
      BY <2>2, <3>1
  <2>6. QED
    BY <2>4, <2>5
<1>11. c[1].do = "disable" /\ c[8].do = "search"
  BY <1>1, <1>2, <1>7, <1>9 DEF Program
<1>12. QED
  BY <1>0, <1>9, <1>10, <1>11 DEF Program, NoReset, c

LEMMA DeinitForm ==
  ASSUME NEW d \in Devs
  PROVE  /\ Program(mcr_Device_deinit(d), d, "disable", "reset")
         /\ Len(mcr_Device_deinit(d)) = 4
         /\ \A i \in 1 .. 4 : mcr_Device_deinit(d)[i].do \in Closing
         /\ mcr_Device_deinit(d)[4] = [do |-> "reset", dev |-> d]
<1> DEFINE a == Disabling(d)
           b == StepsOf(<< "reset" >>, d)
           c == a \o b
<1>1. mcr_Device_deinit(d) = c
  BY DEF mcr_Device_deinit
<1>2. /\ Program(a, d, "disable", "close") /\ Len(a) = 3 /\ NoReset(a)
      /\ \A i \in 1 .. 3 : a[i].do \in Closing \ {"reset"}
  BY DisablingForm
<1>3. Program(b, d, "reset", "reset") /\ Len(b) = 1 /\ b[1] = [do |-> "reset", dev |-> d]
  BY OneStepForm
<1>4. c \in Seq(Step) /\ Len(c) = 4 /\ \A i \in 1 .. 4 : c[i] = IF i <= 3 THEN a[i] ELSE b[i - 3]
  <2>1. a \in Seq(Step) /\ b \in Seq(Step)
    BY <1>2, <1>3 DEF Program, Formed
  <2>2. /\ c \in Seq(Step) /\ Len(c) = Len(a) + Len(b)
        /\ \A i \in 1 .. Len(a) + Len(b) : c[i] = IF i <= Len(a) THEN a[i] ELSE b[i - Len(a)]
    BY <2>1, ConcatProperties, Zenon
  <2> HIDE DEF a, b, c
  <2>3. QED
    BY <1>2, <1>3, <2>2
<1> HIDE DEF a, b, c
<1>5. /\ c[1] = a[1] /\ c[2] = a[2] /\ c[3] = a[3] /\ c[4] = b[1] /\ DOMAIN c = 1 .. 4 /\ DOMAIN a = 1 .. 3
      /\ c # << >>
  <2>1. c[4] = b[1] /\ c[1] = a[1] /\ c[2] = a[2] /\ c[3] = a[3]
    BY <1>4
  <2>2. a \in Seq(Step)
    BY <1>2 DEF Program, Formed
  <2>3. DOMAIN a = 1 .. 3
    BY <1>2, <2>2
  <2>4. DOMAIN c = 1 .. 4 /\ c # << >>
    BY <1>4
  <2>5. QED
    BY <2>1, <2>3, <2>4
<1>6. \A i \in 1 .. 4 : c[i].dev = d /\ c[i].do \in Closing /\ (c[i].do = "reset" => i = 4)
  <2>1. \A i \in 1 .. 3 : a[i].dev = d /\ a[i].do \in Closing /\ a[i].do # "reset"
    BY <1>2, <1>5 DEF Program
  <2>2. QED
    BY <1>3, <1>5, <2>1 DEF Closing
<1>7. \A i \in 1 .. Len(c) - 1 : Follows(c[i], c[i + 1])
  <2>1. Follows(a[1], a[1 + 1]) /\ Follows(a[2], a[2 + 1])
    BY <1>2 DEF Program, Formed
  <2>2. Follows(a[3], b[1])
    BY <1>2, <1>3, <1>5 DEF Program, Follows
  <2>3. QED
    BY <1>4, <1>5, <2>1, <2>2
<1>8. ResetsOwn(c)
  BY <1>5, <1>6 DEF ResetsOwn
<1>9. Formed(c)
  BY <1>3, <1>4, <1>5, <1>7, <1>8 DEF Formed, MayEnd
<1>10. c[1].do = "disable" /\ c[Len(c)].do = "reset" /\ c[4] = [do |-> "reset", dev |-> d]
  BY <1>2, <1>3, <1>4, <1>5 DEF Program
<1>11. QED
  BY <1>1, <1>4, <1>5, <1>6, <1>9, <1>10 DEF Program

\* The steps of a concatenation are those of its parts.
LEMMA ConcatElements ==
  ASSUME NEW a, Formed(a), a # << >>,
         NEW b, Formed(b), b # << >>,
         Follows(a[Len(a)], b[1]),
         \/ NoReset(b)
         \/ a[Len(a)].do = "reset" /\ \A i \in DOMAIN a : a[i].do \in Closing
  PROVE  /\ Formed(a \o b) /\ a \o b # << >>
         /\ (a \o b)[1] = a[1] /\ (a \o b)[Len(a \o b)] = b[Len(b)]
         /\ \A i \in DOMAIN (a \o b) :
              (\E j \in DOMAIN a : (a \o b)[i] = a[j]) \/ (\E j \in DOMAIN b : (a \o b)[i] = b[j])
<1> DEFINE c == a \o b
<1>1. /\ Formed(c) /\ c # << >>
      /\ Len(c) = Len(a) + Len(b) /\ Len(a) \in Nat /\ Len(b) \in Nat
      /\ DOMAIN a = 1 .. Len(a) /\ DOMAIN b = 1 .. Len(b) /\ DOMAIN c = 1 .. Len(a) + Len(b)
      /\ \A i \in 1 .. Len(a) + Len(b) : c[i] = IF i <= Len(a) THEN a[i] ELSE b[i - Len(a)]
  BY ConcatForm
<1>2. Len(a) >= 1 /\ Len(b) >= 1
  BY DEF Formed
<1> HIDE DEF c
<1>3. \A i \in DOMAIN c : (\E j \in DOMAIN a : c[i] = a[j]) \/ (\E j \in DOMAIN b : c[i] = b[j])
  <2> TAKE i \in DOMAIN c
  <2>1. CASE i <= Len(a)
    <3>1. i \in DOMAIN a /\ c[i] = a[i]
      BY <1>1, <2>1
    <3>2. QED
      BY <3>1
  <2>2. CASE i > Len(a)
    <3>1. i - Len(a) \in DOMAIN b /\ c[i] = b[i - Len(a)]
      BY <1>1, <2>2
    <3>2. QED
      BY <3>1
  <2>3. QED
    BY <1>1, <2>1, <2>2
<1>4. c[1] = a[1] /\ c[Len(c)] = b[Len(b)]
  BY <1>1, <1>2
<1>5. QED
  BY <1>1, <1>3, <1>4 DEF c

\* A call of mcr_Device_enable sets nothing up.
LEMMA EnableForm ==
  ASSUME NEW d \in Devs, NEW on \in BOOLEAN
  PROVE  /\ \E last \in {"close", "search"} : Program(mcr_Device_enable(d, on), d, "disable", last)
         /\ NoReset(mcr_Device_enable(d, on))
         /\ \A i \in DOMAIN mcr_Device_enable(d, on) : mcr_Device_enable(d, on)[i].do # "set_bits"
<1>1. CASE on
  <2>1. mcr_Device_enable(d, on) = Enabling(d)
    BY <1>1 DEF mcr_Device_enable
  <2>2. QED
    BY <2>1, EnablingForm
<1>2. CASE ~ on
  <2>1. mcr_Device_enable(d, on) = Disabling(d)
    BY <1>2 DEF mcr_Device_enable
  <2>2. \A i \in DOMAIN Disabling(d) : Disabling(d)[i].do # "set_bits"
    <3> DEFINE s == Disabling(d)
    <3>1. Program(s, d, "disable", "close") /\ Len(s) = 3 /\ \A i \in 1 .. 3 : s[i].do \in Closing \ {"reset"}
      BY DisablingForm
    <3> HIDE DEF s
    <3>2. DOMAIN s = 1 .. 3
      BY <3>1 DEF Program, Formed
    <3>3. QED
      BY <3>1, <3>2 DEF Closing, s
  <2>3. QED
    BY <2>1, <2>2, DisablingForm
<1>3. QED
  BY <1>1, <1>2

LEMMA EnableAllForm ==
  ASSUME NEW on \in BOOLEAN
  PROVE  LET c == mcr_Device_enable_all(on)
         IN Formed(c) /\ c # << >> /\ c[1].do = "disable" /\ NoReset(c) /\ \A i \in DOMAIN c : c[i].do # "set_bits"
<1> DEFINE a == mcr_Device_enable(Gen, on)
           b == mcr_Device_enable(Abs, on)
           c == a \o b
<1>1. /\ \E last \in {"close", "search"} : Program(a, Gen, "disable", last)
      /\ NoReset(a) /\ \A i \in DOMAIN a : a[i].do # "set_bits"
  BY EnableForm DEF Devs
<1>2. /\ \E last \in {"close", "search"} : Program(b, Abs, "disable", last)
      /\ NoReset(b) /\ \A i \in DOMAIN b : b[i].do # "set_bits"
  BY EnableForm DEF Devs
<1>3. Follows(a[Len(a)], b[1])
  BY <1>1, <1>2 DEF Program, Follows
<1>4. /\ Formed(c) /\ c # << >> /\ c[1] = a[1]
      /\ \A i \in DOMAIN c : (\E j \in DOMAIN a : c[i] = a[j]) \/ (\E j \in DOMAIN b : c[i] = b[j])
  BY <1>1, <1>2, <1>3, ConcatElements DEF Program
<1> HIDE DEF a, b
<1>5. c[1].do = "disable"
  BY <1>1, <1>4 DEF Program
<1>6. NoReset(c) /\ \A i \in DOMAIN c : c[i].do # "set_bits"
  BY <1>1, <1>2, <1>4 DEF NoReset
<1>7. QED
  BY <1>4, <1>5, <1>6 DEF mcr_Device_enable_all, a, b

\* mcr_Device_set_absolute_resolution leaves the generic device alone.
LEMMA SetResolutionForm ==
  ASSUME NEW s, s \in {<< >>, Enabling(Abs)}
  PROVE  LET c == mcr_Device_deinit(Abs) \o StepsOf(<< "set_bits" >>, Abs) \o s
         IN Formed(c) /\ c # << >> /\ c[1].do = "disable" /\ \A i \in DOMAIN c : c[i].dev = Abs
<1> DEFINE a == mcr_Device_deinit(Abs)
           b == StepsOf(<< "set_bits" >>, Abs)
           ab == a \o b
<1>1. Program(a, Abs, "disable", "reset") /\ Len(a) = 4
  BY DeinitForm DEF Devs
<1>2. Program(b, Abs, "set_bits", "set_bits") /\ Len(b) = 1 /\ b[1] = [do |-> "set_bits", dev |-> Abs]
  BY OneStepForm DEF Devs
<1> HIDE DEF a, b
<1>3. Follows(a[Len(a)], b[1])
  <2>1. a[Len(a)].do = "reset" /\ a[Len(a)].dev = Abs
    BY <1>1 DEF Program, Formed
  <2>2. QED
    BY <1>2, <2>1 DEF Follows
<1>4. NoReset(b)
  <2>1. DOMAIN b = {1}
    BY <1>2 DEF Program, Formed
  <2>2. QED
    BY <1>2, <2>1 DEF NoReset
<1>5. /\ Formed(ab) /\ ab # << >> /\ ab[1] = a[1] /\ ab[Len(ab)] = b[Len(b)]
      /\ \A i \in DOMAIN ab : (\E j \in DOMAIN a : ab[i] = a[j]) \/ (\E j \in DOMAIN b : ab[i] = b[j])
  BY <1>1, <1>2, <1>3, <1>4, ConcatElements DEF Program
<1> HIDE DEF ab
<1>6. ab[1].do = "disable" /\ ab[Len(ab)].do = "set_bits" /\ \A i \in DOMAIN ab : ab[i].dev = Abs
  BY <1>1, <1>2, <1>5 DEF Program
<1>7. CASE s = << >>
  <2>1. ab \o s = ab
    BY <1>5, <1>7, ConcatEmptySeq DEF Formed
  <2>2. QED
    BY <1>5, <1>6, <2>1 DEF a, b, ab
<1>8. CASE s = Enabling(Abs)
  <2> DEFINE c == ab \o s
  <2>1. Program(s, Abs, "disable", "search") /\ NoReset(s)
    BY <1>8, EnablingForm DEF Devs
  <2>2. Follows(ab[Len(ab)], s[1])
    BY <1>6, <2>1 DEF Program, Follows
  <2>3. /\ Formed(c) /\ c # << >> /\ c[1] = ab[1]
        /\ \A i \in DOMAIN c : (\E j \in DOMAIN ab : c[i] = ab[j]) \/ (\E j \in DOMAIN s : c[i] = s[j])
    BY <1>5, <2>1, <2>2, ConcatElements DEF Program
  <2> HIDE DEF c
  <2>4. c[1].do = "disable" /\ \A i \in DOMAIN c : c[i].dev = Abs
    BY <1>6, <2>1, <2>3 DEF Program
  <2>5. QED
    BY <2>3, <2>4 DEF a, b, ab, c
<1>9. QED
  BY <1>7, <1>8

\* mcr_Device_initialize sets up each device once, the generic one first.
LEMMA InitializeForm ==
  ASSUME NEW s, s \in InitializingDevices
  PROVE  LET c == StepsOf(<< "set_bits" >>, Gen) \o StepsOf(<< "set_bits" >>, Abs) \o s
         IN /\ Formed(c) /\ c # << >> /\ Head(c) = [do |-> "set_bits", dev |-> Gen]
            /\ NoReset(c) /\ \A i \in DOMAIN c : SetsUp(c[i], Gen) => i = 1
<1> DEFINE a == StepsOf(<< "set_bits" >>, Gen)
           b == StepsOf(<< "set_bits" >>, Abs)
           ab == a \o b
<1>1. Program(a, Gen, "set_bits", "set_bits") /\ Len(a) = 1 /\ a[1] = [do |-> "set_bits", dev |-> Gen]
  BY OneStepForm DEF Devs
<1>2. Program(b, Abs, "set_bits", "set_bits") /\ Len(b) = 1 /\ b[1] = [do |-> "set_bits", dev |-> Abs]
  BY OneStepForm DEF Devs
<1> HIDE DEF a, b
<1>3. DOMAIN a = {1} /\ DOMAIN b = {1}
  BY <1>1, <1>2 DEF Program, Formed
<1>4. NoReset(b) /\ Follows(a[Len(a)], b[1])
  BY <1>1, <1>2, <1>3 DEF NoReset, Follows
<1>5. /\ Formed(ab) /\ ab # << >> /\ Len(ab) = 2 /\ DOMAIN ab = 1 .. 2
      /\ \A i \in 1 .. 2 : ab[i] = IF i <= 1 THEN a[i] ELSE b[i - 1]
  <2>1. /\ Formed(ab) /\ ab # << >>
        /\ Len(ab) = Len(a) + Len(b) /\ DOMAIN ab = 1 .. Len(a) + Len(b)
        /\ \A i \in 1 .. Len(a) + Len(b) : ab[i] = IF i <= Len(a) THEN a[i] ELSE b[i - Len(a)]
    BY <1>1, <1>2, <1>4, ConcatForm DEF Program
  <2>2. Len(a) + Len(b) = 2
    BY <1>1, <1>2
  <2> HIDE DEF ab
  <2>3. QED
    BY <1>1, <2>1, <2>2
<1> HIDE DEF ab
<1>6. ab[1] = [do |-> "set_bits", dev |-> Gen] /\ ab[2] = [do |-> "set_bits", dev |-> Abs]
  BY <1>1, <1>2, <1>5
<1>7. NoReset(ab) /\ \A i \in DOMAIN ab : SetsUp(ab[i], Gen) => i = 1
  <2>1. \A i \in DOMAIN ab : i = 1 \/ i = 2
    BY <1>5
  <2>2. Gen # Abs
    BY DevicesAssumption
  <2>3. QED
    BY <1>6, <2>1, <2>2 DEF NoReset, SetsUp
<1>8. Head(ab) = ab[1]
  BY <1>5 DEF Formed
<1>9. CASE s = << >>
  <2>1. ab \o s = ab
    BY <1>5, <1>9, ConcatEmptySeq DEF Formed
  <2>2. QED
    BY <1>5, <1>6, <1>7, <1>8, <2>1 DEF a, b, ab
<1>10. CASE s = mcr_Device_enable_all(TRUE)
  <2> DEFINE c == ab \o s
  <2>1. Formed(s) /\ s # << >> /\ s[1].do = "disable" /\ NoReset(s) /\ \A i \in DOMAIN s : s[i].do # "set_bits"
    BY <1>10, EnableAllForm
  <2>2. Follows(ab[Len(ab)], s[1])
    BY <1>5, <1>6, <2>1 DEF Follows
  <2>3. /\ Formed(c) /\ c # << >> /\ DOMAIN c = 1 .. Len(ab) + Len(s) /\ DOMAIN s = 1 .. Len(s) /\ Len(s) \in Nat
        /\ \A i \in 1 .. Len(ab) + Len(s) : c[i] = IF i <= Len(ab) THEN ab[i] ELSE s[i - Len(ab)]
    BY <1>5, <2>1, <2>2, ConcatForm
  <2> HIDE DEF c
  <2>4. \A i \in DOMAIN c : c[i].do # "reset" /\ (SetsUp(c[i], Gen) => i = 1)
    <3> TAKE i \in DOMAIN c
    <3>1. CASE i <= 2
      <4>1. i \in DOMAIN ab /\ c[i] = ab[i]
        BY <1>5, <2>3, <3>1
      <4>2. QED
        BY <1>7, <4>1 DEF NoReset
    <3>2. CASE i > 2
      <4>1. i - 2 \in DOMAIN s /\ c[i] = s[i - 2]
        BY <1>5, <2>3, <3>2
      <4>2. QED
        BY <2>1, <4>1 DEF NoReset, SetsUp
    <3>3. QED
      BY <2>3, <3>1, <3>2
  <2>5. Head(c) = c[1] /\ c[1] = ab[1]
    <3>1. c \in Seq(Step)
      BY <2>3 DEF Formed
    <3>2. Head(c) = c[1]
      BY <2>3, <3>1
    <3>3. c[1] = ab[1]
      BY <1>5, <2>3
    <3>4. QED
      BY <3>2, <3>3
  <2>6. QED
    BY <1>6, <2>3, <2>4, <2>5 DEF NoReset, a, b, ab, c
<1>11. QED
  BY <1>9, <1>10 DEF InitializingDevices

\* What mcr_Device_deinitialize leaves: every device is reset, and nothing comes after.
LEMMA DeinitializeForm ==
  LET c == mcr_Device_deinit(Gen) \o mcr_Device_deinit(Abs)
  IN /\ Formed(c) /\ c # << >> /\ c[1].do = "disable"
     /\ \A d \in Devs : \E i \in DOMAIN c : /\ c[i] = [do |-> "reset", dev |-> d]
                                            /\ \A j \in DOMAIN c : j > i => c[j].dev # d
<1> DEFINE a == mcr_Device_deinit(Gen)
           b == mcr_Device_deinit(Abs)
           c == a \o b
<1>1. /\ Program(a, Gen, "disable", "reset") /\ Len(a) = 4
      /\ \A i \in 1 .. 4 : a[i].do \in Closing
      /\ a[4] = [do |-> "reset", dev |-> Gen]
  BY DeinitForm DEF Devs
<1>2. /\ Program(b, Abs, "disable", "reset") /\ Len(b) = 4
      /\ b[4] = [do |-> "reset", dev |-> Abs]
  BY DeinitForm DEF Devs
<1> HIDE DEF a, b
<1>3. DOMAIN a = 1 .. 4 /\ DOMAIN b = 1 .. 4
  BY <1>1, <1>2 DEF Program, Formed
<1>4. Follows(a[Len(a)], b[1])
  BY <1>1, <1>2 DEF Program, Follows
<1>5. /\ Formed(c) /\ c # << >> /\ DOMAIN c = 1 .. 8
      /\ \A i \in 1 .. 8 : c[i] = IF i <= 4 THEN a[i] ELSE b[i - 4]
  <2>1. /\ Formed(c) /\ c # << >>
        /\ Len(c) = Len(a) + Len(b) /\ DOMAIN c = 1 .. Len(a) + Len(b)
        /\ \A i \in 1 .. Len(a) + Len(b) : c[i] = IF i <= Len(a) THEN a[i] ELSE b[i - Len(a)]
    BY <1>1, <1>2, <1>3, <1>4, ConcatForm DEF Program
  <2>2. Len(a) + Len(b) = 8
    BY <1>1, <1>2
  <2> HIDE DEF c
  <2>3. QED
    BY <1>1, <2>1, <2>2
<1> HIDE DEF c
<1>6. c[1].do = "disable" /\ c[4] = [do |-> "reset", dev |-> Gen] /\ c[8] = [do |-> "reset", dev |-> Abs]
  BY <1>1, <1>2, <1>5 DEF Program
<1>7. \A j \in DOMAIN c : j > 4 => c[j].dev # Gen
  <2> TAKE j \in DOMAIN c
  <2> HAVE j > 4
  <2>1. j - 4 \in DOMAIN b /\ c[j] = b[j - 4]
    BY <1>3, <1>5
  <2>2. QED
    BY <1>2, <2>1, DevicesAssumption DEF Program
<1>8. \A j \in DOMAIN c : ~ j > 8
  BY <1>5
<1>9. 4 \in DOMAIN c /\ 8 \in DOMAIN c
  BY <1>5
<1>10. \A d \in Devs : \E i \in DOMAIN c : /\ c[i] = [do |-> "reset", dev |-> d]
                                            /\ \A j \in DOMAIN c : j > i => c[j].dev # d
  BY <1>6, <1>7, <1>8, <1>9 DEF Devs
<1>11. QED
  BY <1>5, <1>6, <1>10 DEF a, b, c

-----------------------------------------------------------------------------
(* A step of a call *)

WellTyped == LifecycleTypeOK /\ \A t \in Threads : Formed(todo[t])

\* The steps that are left of a call are its steps from the k-th on, without a reset
\* that is passed over.
Left(t, k) ==
  /\ Rest(todo'[t], todo[t], k)
  /\ todo'[t] = << >> <=> k = Len(todo[t]) + 1
  /\ \A i \in 2 .. k - 1 : todo[t][i].do # "reset"

LEMMA NameIsStep ==
  ASSUME WellTyped, NEW t \in Threads, todo[t] # << >>
  PROVE  /\ Name(t) \in StepNames /\ Dev(t) \in Devs
         /\ Head(todo[t]) = todo[t][1] /\ 1 \in DOMAIN todo[t] /\ DOMAIN todo[t] = 1 .. Len(todo[t])
         /\ \A name : At(t, name) <=> Name(t) = name
<1>1. Formed(todo[t])
  BY DEF WellTyped
<1>2. /\ Head(todo[t]) \in Step /\ Head(todo[t]) = todo[t][1] /\ todo[t] \in Seq(Step)
      /\ DOMAIN todo[t] = 1 .. Len(todo[t])
  BY <1>1, FormedTail DEF Formed
<1>3. Len(todo[t]) \in Nat \ {0}
  BY <1>2
<1>4. Name(t) \in StepNames /\ Dev(t) \in Devs
  BY <1>2 DEF Name, Dev, Step
<1>5. \A name : At(t, name) <=> Name(t) = name
  BY DEF At, Name
<1>6. QED
  BY <1>2, <1>3, <1>4, <1>5

\* What follows a step that succeeds.
LEMMA GoesOnForm ==
  ASSUME WellTyped, NEW t \in Threads, todo[t] # << >>, GoesOn(t)
  PROVE  /\ todo' \in [Threads -> Seq(Step)]
         /\ \A u \in Threads : Formed(todo'[u]) /\ (u # t => todo'[u] = todo[u])
         /\ Left(t, 2) /\ 2 \in 2 .. Len(todo[t]) + 1
         /\ Name(t)' = "none" => Name(t) \in {"close", "search", "reset", "set_bits"}
         /\ Name(t)' # "none" => Follows(Head(todo[t]), Head(todo[t])')
         /\ Name(t)' = "none" \/ Name(t)' \in StepNames
         /\ failed' = failed
<1> DEFINE s == todo[t]
           u == Tail(s)
<1>1. Formed(s)
  BY DEF WellTyped
<1>2. todo \in [Threads -> Seq(Step)]
  <2>1. \A v \in Threads : todo[v] \in Seq(Step)
    BY DEF WellTyped, Formed
  <2>2. QED
    BY <2>1 DEF WellTyped, LifecycleTypeOK
<1>3. todo' = [todo EXCEPT ![t] = u] /\ failed' = failed
  BY DEF GoesOn
<1>4. /\ Head(s) \in Step /\ Formed(u)
      /\ u # << >> => Follows(Head(s), Head(u))
      /\ u = << >> => MayEnd(Head(s))
      /\ \A i \in DOMAIN u : u[i] = s[i + 1] /\ i + 1 \in DOMAIN s
      /\ DOMAIN u = 1 .. Len(s) - 1
  BY <1>1, FormedTail
<1>5. s \in Seq(Step) /\ Len(s) \in Nat \ {0} /\ Len(u) = Len(s) - 1 /\ u \in Seq(Step)
  BY <1>1, <1>4 DEF Formed
<1> HIDE DEF u
<1>6. todo'[t] = u /\ \A v \in Threads : v # t => todo'[v] = todo[v]
  BY <1>2, <1>3
<1>7. todo' \in [Threads -> Seq(Step)]
  BY <1>2, <1>3, <1>5
<1>8. \A v \in Threads : Formed(todo'[v]) /\ (v # t => todo'[v] = todo[v])
  BY <1>4, <1>6 DEF WellTyped
<1>9. Left(t, 2) /\ 2 \in 2 .. Len(todo[t]) + 1
  <2>1. u = << >> <=> 2 = Len(s) + 1
    BY <1>5
  <2>2. Rest(u, s, 2)
    BY <1>4, <1>5 DEF Rest
  <2>3. QED
    BY <1>5, <1>6, <2>1, <2>2 DEF Left
<1>10. Name(t) = Head(s).do /\ Name(t)' = IF u = << >> THEN "none" ELSE Head(u).do
  BY <1>6 DEF Name
<1>11. u # << >> => Head(u) \in Step
  BY <1>4, FormedTail
<1>12. u # << >> => Name(t)' \in StepNames /\ Name(t)' # "none"
  BY <1>10, <1>11 DEF Step, StepNames
<1>13. Name(t)' = "none" => Name(t) \in {"close", "search", "reset", "set_bits"}
  BY <1>4, <1>10, <1>12 DEF MayEnd
<1>14. Name(t)' # "none" => Follows(Head(s), Head(u)) /\ Head(u) = Head(todo[t])'
  BY <1>4, <1>6, <1>10
<1>15. QED
  BY <1>3, <1>7, <1>8, <1>9, <1>10, <1>12, <1>13, <1>14

\* What follows a step that fails.
LEMMA FailsForm ==
  ASSUME WellTyped, NEW t \in Threads, todo[t] # << >>, Fails(t)
  PROVE  /\ todo' \in [Threads -> Seq(Step)]
         /\ \A u \in Threads : Formed(todo'[u]) /\ (u # t => todo'[u] = todo[u])
         /\ \E k \in 2 .. Len(todo[t]) + 1 : Left(t, k)
         /\ Name(t)' \in {"none", "reset"}
         /\ Name(t)' = "reset" /\ Name(t) # "reset" => Name(t) \in Closing /\ Dev(t)' = Dev(t)
         /\ failed' = IF t = App /\ Name(t)' = "none" THEN TRUE ELSE failed
         /\ lock' = IF lock = t THEN NoThread ELSE lock
<1> DEFINE s == todo[t]
           u == AfterFailure(Tail(s))
<1>1. Formed(s)
  BY DEF WellTyped
<1>2. todo \in [Threads -> Seq(Step)]
  <2>1. \A v \in Threads : todo[v] \in Seq(Step)
    BY DEF WellTyped, Formed
  <2>2. QED
    BY <2>1 DEF WellTyped, LifecycleTypeOK
<1>3. /\ todo' = [todo EXCEPT ![t] = u]
      /\ failed' = IF t = App /\ todo'[t] = << >> THEN TRUE ELSE failed
      /\ lock' = IF lock = t THEN NoThread ELSE lock
  BY DEF Fails, Unlocked
<1>4. /\ Formed(u)
      /\ u # << >> =>
           /\ Head(u).do = "reset"
           /\ Head(s).do # "reset" => Head(s).do \in Closing /\ Head(u).dev = Head(s).dev
      /\ \E k \in 2 .. Len(s) + 1 :
           /\ Rest(u, s, k)
           /\ \A i \in 2 .. k - 1 : s[i].do # "reset"
           /\ u = << >> <=> k = Len(s) + 1
  BY <1>1, FailureForm
<1>5. u \in Seq(Step)
  BY <1>4 DEF Formed
<1> HIDE DEF u
<1>6. todo'[t] = u /\ \A v \in Threads : v # t => todo'[v] = todo[v]
  BY <1>2, <1>3
<1>7. todo' \in [Threads -> Seq(Step)]
  BY <1>2, <1>3, <1>5
<1>8. \A v \in Threads : Formed(todo'[v]) /\ (v # t => todo'[v] = todo[v])
  BY <1>4, <1>6 DEF WellTyped
<1>9. \E k \in 2 .. Len(todo[t]) + 1 : Left(t, k)
  BY <1>4, <1>6 DEF Left
<1>10. Name(t) = Head(s).do /\ Name(t)' = IF u = << >> THEN "none" ELSE Head(u).do
  BY <1>6 DEF Name
<1>11. Name(t)' \in {"none", "reset"} /\ (Name(t)' = "none" <=> u = << >>)
  BY <1>4, <1>10
<1>12. Dev(t) = Head(s).dev /\ Dev(t)' = Head(u).dev
  BY <1>6 DEF Dev
<1>13. Name(t)' = "reset" /\ Name(t) # "reset" => Name(t) \in Closing /\ Dev(t)' = Dev(t)
  BY <1>4, <1>10, <1>11, <1>12
<1>14. QED
  BY <1>3, <1>6, <1>7, <1>8, <1>9, <1>11, <1>13

DeviceType == [fd : {"none", "open", "created"}, event : {"none", "open"},
               enabled : BOOLEAN, has_evbit : BOOLEAN]

Fields == {"fd", "event"}

\* What could not be closed of a device stays the same.
SameClung(d) == \A field \in Fields : << d, field >> \in clung' <=> << d, field >> \in clung

\* A step is done by a thread that is in a call, and changes no device but its own.
LEMMA StepEffect ==
  ASSUME WellTyped, NEW t \in Threads, DeviceStep(t)
  PROVE  /\ todo[t] # << >>
         /\ GoesOn(t) \/ Fails(t)
         /\ devices' \in [Devs -> DeviceType] /\ clung' \subseteq Devs \X Fields
         /\ \A d \in Devs : d # Dev(t) => devices'[d] = devices[d] /\ SameClung(d)
         /\ Name(t) = "reset" => GoesOn(t) /\ devices'[Dev(t)] = Fresh
         /\ Name(t) = "set_bits" => Fails(t) \/ (GoesOn(t) /\ devices'[Dev(t)].has_evbit)
         /\ Name(t) \notin {"reset", "set_bits"} => devices'[Dev(t)].has_evbit = devices[Dev(t)].has_evbit
<1>1. todo[t] # << >>
  BY DEF DeviceStep, Disable, CloseEvent, Close, LockDevices, Open, Create, Enter, Search, Reset, SetBits, At
<1>2. /\ Dev(t) \in Devs
      /\ \A name : At(t, name) <=> Name(t) = name
  BY <1>1, NameIsStep
<1>3. devices \in [Devs -> DeviceType] /\ clung \subseteq Devs \X Fields
  BY DEF WellTyped, LifecycleTypeOK, DeviceType, Fields
<1> DEFINE d == Dev(t)
<1> HIDE DEF d
<1>4. d \in Devs
  BY <1>2 DEF d
<1>0. clung' = clung => clung' \subseteq Devs \X Fields /\ \A e \in Devs : SameClung(e)
  BY <1>3 DEF SameClung
<1>5. CASE Disable(t)
  <2>1. /\ devices' = [devices EXCEPT ![d].enabled = FALSE] /\ clung' = clung \ Descriptors(d) /\ GoesOn(t)
        /\ Name(t) = "disable"
    BY <1>2, <1>5 DEF Disable, d
  <2>2. /\ clung' \subseteq Devs \X Fields
        /\ \A e \in Devs : e # d => SameClung(e)
    BY <1>3, <1>4, <2>1 DEF Descriptors, SameClung, Fields
  <2>3. QED
    BY <1>1, <1>3, <1>4, <2>1, <2>2 DEF DeviceType, d
<1>6. CASE CloseEvent(t)
  <2>1. /\ Name(t) = "close_event"
        /\ \/ devices' = [devices EXCEPT ![d].event = "none"] /\ GoesOn(t) /\ clung' = clung
           \/ devices' = devices /\ Fails(t) /\ clung' = clung \union {<< d, "event" >>}
    BY <1>2, <1>6 DEF CloseEvent, CloseField, d
  <2>2. /\ clung' \subseteq Devs \X Fields
        /\ \A e \in Devs : e # d => SameClung(e)
    BY <1>3, <1>4, <2>1 DEF SameClung, Fields
  <2>3. QED
    BY <1>1, <1>3, <1>4, <2>1, <2>2 DEF DeviceType, d
<1>7. CASE Close(t)
  <2>1. /\ Name(t) = "close"
        /\ \/ devices' = [devices EXCEPT ![d].fd = "none"] /\ GoesOn(t) /\ clung' = clung
           \/ devices' = devices /\ Fails(t) /\ clung' = clung \union {<< d, "fd" >>}
    BY <1>2, <1>7 DEF Close, CloseField, d
  <2>2. /\ clung' \subseteq Devs \X Fields
        /\ \A e \in Devs : e # d => SameClung(e)
    BY <1>3, <1>4, <2>1 DEF SameClung, Fields
  <2>3. QED
    BY <1>1, <1>3, <1>4, <2>1, <2>2 DEF DeviceType, d
<1>8. CASE LockDevices(t)
  <2>1. Name(t) = "lock" /\ devices' = devices /\ clung' = clung /\ (GoesOn(t) \/ Fails(t))
    BY <1>2, <1>8 DEF LockDevices
  <2>2. QED
    BY <1>1, <1>3, <1>4, <1>0, <2>1 DEF d
<1>9. CASE Open(t)
  <2>1. /\ Name(t) = "open"
        /\ \/ devices' = [devices EXCEPT ![d].fd = "open"] /\ GoesOn(t) /\ clung' = clung
           \/ \E fd \in {"none", "open", devices[d].fd} :
                devices' = [devices EXCEPT ![d].fd = fd] /\ Fails(t) /\ clung' \in {clung, clung \union {<< d, "fd" >>}}
    BY <1>2, <1>9 DEF Open, d
  <2>2. devices[d].fd \in {"none", "open", "created"}
    BY <1>3, <1>4 DEF DeviceType
  <2>3. /\ clung' \subseteq Devs \X Fields
        /\ \A e \in Devs : e # d => SameClung(e)
    BY <1>3, <1>4, <2>1 DEF SameClung, Fields
  <2>4. QED
    BY <1>1, <1>3, <1>4, <2>1, <2>2, <2>3 DEF DeviceType, d
<1>10. CASE Create(t)
  <2>1. /\ Name(t) = "create" /\ clung' = clung
        /\ \/ devices' = [devices EXCEPT ![d].fd = "created", ![d].enabled = TRUE] /\ GoesOn(t)
           \/ devices' = devices /\ Fails(t)
    BY <1>2, <1>10 DEF Create, d
  <2>2. QED
    BY <1>1, <1>3, <1>4, <1>0, <2>1 DEF DeviceType, d
<1>11. CASE Enter(t)
  <2>1. Name(t) = "enter" /\ devices' = devices /\ clung' = clung /\ (GoesOn(t) \/ Fails(t))
    BY <1>2, <1>11 DEF Enter
  <2>2. QED
    BY <1>1, <1>3, <1>4, <1>0, <2>1 DEF d
<1>12. CASE Search(t)
  <2>1. /\ Name(t) = "search" /\ clung' = clung /\ (GoesOn(t) \/ Fails(t))
        /\ \E event \in {"open", "none"} : devices' = [devices EXCEPT ![d].event = event]
    BY <1>2, <1>12 DEF Search, d
  <2>2. QED
    BY <1>1, <1>3, <1>4, <1>0, <2>1 DEF DeviceType, d
<1>13. CASE Reset(t)
  <2>1. Name(t) = "reset" /\ devices' = [devices EXCEPT ![d] = Fresh] /\ clung' = clung /\ GoesOn(t)
    BY <1>2, <1>13 DEF Reset, d
  <2>2. Fresh \in DeviceType
    BY DEF Fresh, DeviceType
  <2>3. QED
    BY <1>1, <1>3, <1>4, <1>0, <2>1, <2>2 DEF d
<1>14. CASE SetBits(t)
  <2>1. /\ Name(t) = "set_bits" /\ clung' = clung
        /\ \/ devices' = [devices EXCEPT ![d] = [Fresh EXCEPT !.has_evbit = TRUE]] /\ GoesOn(t)
           \/ Fails(t) /\ \E some \in BOOLEAN : devices' = [devices EXCEPT ![d] = [Fresh EXCEPT !.has_evbit = some]]
    BY <1>2, <1>14 DEF SetBits, d
  <2>2. /\ \A some \in BOOLEAN : [Fresh EXCEPT !.has_evbit = some] \in DeviceType
        /\ [Fresh EXCEPT !.has_evbit = TRUE].has_evbit
    BY DEF Fresh, DeviceType
  <2>3. QED
    BY <1>1, <1>3, <1>4, <1>0, <2>1, <2>2 DEF d
<1>15. QED
  BY <1>5, <1>6, <1>7, <1>8, <1>9, <1>10, <1>11, <1>12, <1>13, <1>14 DEF DeviceStep

\* What a step leaves of the calls, whether it succeeds or fails.
LEMMA StepForm ==
  ASSUME WellTyped, NEW t \in Threads, DeviceStep(t)
  PROVE  /\ todo' \in [Threads -> Seq(Step)]
         /\ \A u \in Threads : Formed(todo'[u]) /\ (u # t => todo'[u] = todo[u] /\ Name(u)' = Name(u) /\ Dev(u)' = Dev(u))
         /\ \E k \in 2 .. Len(todo[t]) + 1 : Left(t, k)
         /\ failed' \in BOOLEAN
<1>1. todo[t] # << >> /\ (GoesOn(t) \/ Fails(t))
  BY StepEffect
<1>2. /\ todo' \in [Threads -> Seq(Step)]
      /\ \A u \in Threads : Formed(todo'[u]) /\ (u # t => todo'[u] = todo[u])
      /\ \E k \in 2 .. Len(todo[t]) + 1 : Left(t, k)
      /\ failed' \in BOOLEAN
  <2>1. CASE GoesOn(t)
    BY <1>1, <2>1, GoesOnForm DEF WellTyped, LifecycleTypeOK
  <2>2. CASE Fails(t)
    BY <1>1, <2>2, FailsForm DEF WellTyped, LifecycleTypeOK
  <2>3. QED
    BY <1>1, <2>1, <2>2
<1>3. \A u \in Threads : u # t => Name(u)' = Name(u) /\ Dev(u)' = Dev(u)
  BY <1>2 DEF Name, Dev
<1>4. QED
  BY <1>2, <1>3

-----------------------------------------------------------------------------
(* The lock, and the way back *)

\* Where a successful step leads to, by the names of the steps.
LEMMA NextNames ==
  ASSUME WellTyped, NEW t \in Threads, todo[t] # << >>, GoesOn(t)
  PROVE  /\ Name(t) = "disable"     => Name(t)' = "close_event" /\ Dev(t)' = Dev(t)
         /\ Name(t) = "close_event" => Name(t)' = "close" /\ Dev(t)' = Dev(t)
         /\ Name(t) = "close"       => \/ Name(t)' \in {"none", "disable"}
                                       \/ Name(t)' \in {"reset", "lock"} /\ Dev(t)' = Dev(t)
         /\ Name(t) = "lock"        => Name(t)' = "open" /\ Dev(t)' = Dev(t)
         /\ Name(t) = "open"        => Name(t)' = "create" /\ Dev(t)' = Dev(t)
         /\ Name(t) = "create"      => Name(t)' = "enter" /\ Dev(t)' = Dev(t)
         /\ Name(t) = "enter"       => Name(t)' = "search" /\ Dev(t)' = Dev(t)
         /\ Name(t) = "search"      => Name(t)' \in {"none", "disable"}
         /\ Name(t) \in {"reset", "set_bits"} => Name(t)' \in {"none", "set_bits", "disable"}
<1> DEFINE a == Head(todo[t])
           b == Head(todo[t])'
<1>1. /\ Name(t)' = "none" => Name(t) \in {"close", "search", "reset", "set_bits"}
      /\ Name(t)' # "none" => Follows(a, b)
  BY GoesOnForm
<1>2. Name(t) = a.do /\ Dev(t) = a.dev
  BY DEF Name, Dev
<1>3. Name(t)' # "none" => Name(t)' = b.do /\ Dev(t)' = b.dev
  BY DEF Name, Dev
<1> HIDE DEF a, b
<1>4. CASE Name(t)' = "none"
  BY <1>1, <1>4
<1>5. CASE Name(t)' # "none"
  BY <1>1, <1>2, <1>3, <1>5 DEF Follows
<1>6. QED
  BY <1>4, <1>5

\* Thread t does a step that is not under the lock, and none that gets it.
LEMMA OutsideLock ==
  ASSUME Guarded, NEW t \in Threads, lock # t, Name(t)' \notin LockedNames, lock' = lock,
         \A u \in Threads : u # t => Name(u)' = Name(u),
         UNCHANGED << cwd, wd, astray >>
  PROVE  Guarded'
<1>1. Name(t) # "search" /\ Name(t)' # "search"
  BY DEF Guarded, LockedNames
<1>2. \A u \in Threads : Name(u)' = "search" <=> Name(u) = "search"
  BY <1>1
<1>3. \A u \in Threads : lock' = u <=> Name(u)' \in LockedNames
  BY DEF Guarded
<1>4. ~ astray' => /\ cwd' = "home" \/ \E u \in Threads : Name(u)' = "search"
                   /\ \A u \in Threads : Name(u)' = "search" => wd'[u] = "home"
  BY <1>2 DEF Guarded
<1>5. QED
  BY <1>3, <1>4 DEF Guarded

\* Thread t has the lock: it keeps it and goes on under it, or it gives it back.
LEMMA InsideLock ==
  ASSUME Guarded, DevicesAssumption, NEW t \in Threads, lock = t,
         \/ lock' = t /\ Name(t)' \in LockedNames
         \/ lock' = NoThread /\ Name(t)' \notin LockedNames,
         \A u \in Threads : u # t => Name(u)' = Name(u),
         ~ astray' => /\ cwd' = "home" \/ Name(t)' = "search"
                      /\ Name(t)' = "search" => wd'[t] = "home"
  PROVE  Guarded'
<1>1. \A u \in Threads : u # t => Name(u) \notin LockedNames
  BY DEF Guarded
<1>2. \A u \in Threads : u # t => Name(u)' \notin LockedNames
  BY <1>1
<1>3. \A u \in Threads : lock' = u <=> Name(u)' \in LockedNames
  <2> TAKE u \in Threads
  <2>1. NoThread # u /\ NoThread # t
    BY DEF DevicesAssumption
  <2>2. QED
    BY <1>2, <2>1
<1>4. \A u \in Threads : u # t => Name(u)' # "search"
  BY <1>2 DEF LockedNames
<1>5. ~ astray' => /\ cwd' = "home" \/ \E u \in Threads : Name(u)' = "search"
                   /\ \A u \in Threads : Name(u)' = "search" => wd'[u] = "home"
  BY <1>4
<1>6. lock' \in Threads \union {NoThread}
  OBVIOUS
<1>7. QED
  BY <1>3, <1>5, <1>6 DEF Guarded

LEMMA StepGuarded ==
  ASSUME WellTyped, Guarded, NEW t \in Threads, DeviceStep(t)
  PROVE  Guarded'
<1>1. todo[t] # << >> /\ (GoesOn(t) \/ Fails(t))
  BY StepEffect
<1>2. Name(t) \in StepNames /\ \A name : At(t, name) <=> Name(t) = name
  BY <1>1, NameIsStep
<1>3. \A u \in Threads : u # t => Name(u)' = Name(u)
  BY StepForm
<1>4. Fails(t) => /\ Name(t)' \notin LockedNames
                  /\ lock' = IF lock = t THEN NoThread ELSE lock
  BY <1>1, FailsForm DEF LockedNames
<1>5. ASSUME Name(t) \notin LockedNames, UNCHANGED << cwd, wd, astray >>,
             Fails(t) \/ (GoesOn(t) /\ lock' = lock /\ Name(t)' \notin LockedNames)
      PROVE  Guarded'
  <2>1. lock # t
    BY <1>5 DEF Guarded
  <2>2. lock' = lock /\ Name(t)' \notin LockedNames
    BY <1>4, <1>5, <2>1
  <2>3. QED
    BY <1>3, <1>5, <2>1, <2>2, OutsideLock
<1>6. Name(t) \in LockedNames => lock = t
  BY DEF Guarded
<1>7. Name(t) \in LockedNames /\ ~ astray => cwd = "home" \/ Name(t) = "search"
  BY DEF Guarded, LockedNames
<1>8. CASE Disable(t)
  <2>1. Name(t) = "disable" /\ GoesOn(t) /\ UNCHANGED << lock, cwd, wd, astray >>
    BY <1>2, <1>8 DEF Disable
  <2>2. Name(t)' \notin LockedNames /\ Name(t) \notin LockedNames
    BY <1>1, <2>1, NextNames DEF LockedNames
  <2>3. QED
    BY <1>5, <2>1, <2>2
<1>9. CASE CloseEvent(t)
  <2>1. Name(t) = "close_event" /\ (Fails(t) \/ (GoesOn(t) /\ lock' = lock)) /\ UNCHANGED << cwd, wd, astray >>
    BY <1>2, <1>9 DEF CloseEvent, CloseField
  <2>2. (GoesOn(t) => Name(t)' \notin LockedNames) /\ Name(t) \notin LockedNames
    BY <1>1, <2>1, NextNames DEF LockedNames
  <2>3. QED
    BY <1>5, <2>1, <2>2
<1>10. CASE Close(t)
  <2>1. Name(t) = "close" /\ (Fails(t) \/ (GoesOn(t) /\ lock' = lock)) /\ UNCHANGED << cwd, wd, astray >>
    BY <1>2, <1>10 DEF Close, CloseField
  <2>2. (GoesOn(t) => Name(t)' \notin LockedNames) /\ Name(t) \notin LockedNames
    BY <1>1, <2>1, NextNames DEF LockedNames
  <2>3. QED
    BY <1>5, <2>1, <2>2
<1>11. CASE LockDevices(t)
  <2>1. /\ Name(t) = "lock" /\ UNCHANGED << cwd, wd, astray >>
        /\ (lock = NoThread /\ lock' = t /\ GoesOn(t)) \/ Fails(t)
    BY <1>2, <1>11 DEF LockDevices, MayLock
  <2>2. Name(t) \notin LockedNames
    BY <2>1 DEF LockedNames
  <2>3. CASE Fails(t)
    BY <1>5, <2>1, <2>2, <2>3
  <2>4. CASE lock = NoThread /\ lock' = t /\ GoesOn(t)
    <3>1. Name(t)' = "open"
      BY <1>1, <2>1, <2>4, NextNames
    <3>2. \A u \in Threads : Name(u) \notin LockedNames
      BY <2>4, DevicesAssumption DEF Guarded, DevicesAssumption
    <3>3. \A u \in Threads : Name(u) # "search" /\ Name(u)' # "search"
      BY <1>3, <3>1, <3>2 DEF LockedNames
    <3>4. \A u \in Threads : lock' = u <=> Name(u)' \in LockedNames
      BY <1>3, <2>4, <3>1, <3>2 DEF LockedNames
    <3>5. QED
      BY <2>1, <2>4, <3>3, <3>4 DEF Guarded
  <2>5. QED
    BY <2>1, <2>3, <2>4
<1>12. ASSUME Name(t) \in LockedNames, Fails(t), ~ astray' => cwd' = "home"
       PROVE  Guarded'
  <2>1. lock = t /\ lock' = NoThread /\ Name(t)' \notin LockedNames /\ Name(t)' # "search"
    BY <1>4, <1>6, <1>12 DEF LockedNames
  <2>2. QED
    BY <1>3, <1>12, <2>1, InsideLock, DevicesAssumption
<1>13. CASE Open(t)
  <2>1. /\ Name(t) = "open" /\ UNCHANGED << cwd, wd, astray >>
        /\ (lock' = lock /\ GoesOn(t)) \/ Fails(t)
    BY <1>2, <1>13 DEF Open
  <2>2. Name(t) \in LockedNames /\ (~ astray' => cwd' = "home")
    BY <1>7, <2>1 DEF LockedNames
  <2>3. CASE lock' = lock /\ GoesOn(t)
    <3>1. Name(t)' = "create" /\ lock = t
      BY <1>1, <1>6, <2>1, <2>2, <2>3, NextNames
    <3>2. Name(t)' \in LockedNames
      BY <3>1 DEF LockedNames
    <3>3. QED
      BY <1>3, <2>2, <2>3, <3>1, <3>2, InsideLock, DevicesAssumption
  <2>4. QED
    BY <1>12, <2>1, <2>2, <2>3
<1>14. CASE Create(t)
  <2>1. /\ Name(t) = "create" /\ UNCHANGED << cwd, wd, astray >>
        /\ (lock' = lock /\ GoesOn(t)) \/ Fails(t)
    BY <1>2, <1>14 DEF Create
  <2>2. Name(t) \in LockedNames /\ (~ astray' => cwd' = "home")
    BY <1>7, <2>1 DEF LockedNames
  <2>3. CASE lock' = lock /\ GoesOn(t)
    <3>1. Name(t)' = "enter" /\ lock = t
      BY <1>1, <1>6, <2>1, <2>2, <2>3, NextNames
    <3>2. Name(t)' \in LockedNames
      BY <3>1 DEF LockedNames
    <3>3. QED
      BY <1>3, <2>2, <2>3, <3>1, <3>2, InsideLock, DevicesAssumption
  <2>4. QED
    BY <1>12, <2>1, <2>2, <2>3
<1>15. CASE Enter(t)
  <2>1. /\ Name(t) = "enter" /\ astray' = astray
        /\ \/ wd' = [wd EXCEPT ![t] = cwd] /\ lock' = lock /\ GoesOn(t)
           \/ Fails(t) /\ UNCHANGED << wd, cwd >>
    BY <1>2, <1>15 DEF Enter
  <2>2. Name(t) \in LockedNames /\ (~ astray => cwd = "home")
    BY <1>7, <2>1 DEF LockedNames
  <2>3. CASE wd' = [wd EXCEPT ![t] = cwd] /\ lock' = lock /\ GoesOn(t)
    <3>1. Name(t)' = "search" /\ lock = t
      BY <1>1, <1>6, <2>1, <2>2, <2>3, NextNames
    <3>2. Name(t)' \in LockedNames /\ wd'[t] = cwd
      BY <2>3, <3>1 DEF LockedNames, WellTyped, LifecycleTypeOK
    <3>3. QED
      BY <1>3, <2>1, <2>2, <2>3, <3>1, <3>2, InsideLock, DevicesAssumption
  <2>4. QED
    BY <1>12, <2>1, <2>2, <2>3
<1>16. CASE Search(t)
  <2>1. /\ Name(t) = "search"
        /\ \/ cwd' = wd[t] /\ lock' = Unlocked(t) /\ GoesOn(t) /\ astray' = astray
           \/ astray' = TRUE /\ Fails(t)
    BY <1>2, <1>16 DEF Search
  <2>2. Name(t) \in LockedNames /\ (~ astray => wd[t] = "home")
    BY <2>1 DEF LockedNames, Guarded
  <2>3. CASE cwd' = wd[t] /\ lock' = Unlocked(t) /\ GoesOn(t) /\ astray' = astray
    <3>1. Name(t)' \in {"none", "disable"} /\ lock = t /\ lock' = NoThread
      BY <1>1, <1>6, <2>1, <2>2, <2>3, NextNames DEF Unlocked
    <3>2. Name(t)' \notin LockedNames /\ Name(t)' # "search"
      BY <3>1 DEF LockedNames
    <3>3. QED
      BY <1>3, <2>2, <2>3, <3>1, <3>2, InsideLock, DevicesAssumption
  <2>4. QED
    BY <1>12, <2>1, <2>2, <2>3
<1>17. CASE Reset(t)
  <2>1. Name(t) = "reset" /\ GoesOn(t) /\ UNCHANGED << lock, cwd, wd, astray >>
    BY <1>2, <1>17 DEF Reset
  <2>2. Name(t)' \notin LockedNames /\ Name(t) \notin LockedNames
    BY <1>1, <2>1, NextNames DEF LockedNames
  <2>3. QED
    BY <1>5, <2>1, <2>2
<1>18. CASE SetBits(t)
  <2>1. Name(t) = "set_bits" /\ (Fails(t) \/ (GoesOn(t) /\ lock' = lock)) /\ UNCHANGED << cwd, wd, astray >>
    BY <1>2, <1>18 DEF SetBits
  <2>2. (GoesOn(t) => Name(t)' \notin LockedNames) /\ Name(t) \notin LockedNames
    BY <1>1, <2>1, NextNames DEF LockedNames
  <2>3. QED
    BY <1>5, <2>1, <2>2
<1>19. QED
  BY <1>8, <1>9, <1>10, <1>11, <1>13, <1>14, <1>15, <1>16, <1>17, <1>18 DEF DeviceStep

-----------------------------------------------------------------------------
(* Devices of one thread each *)

\* The step of a thread keeps what its own device promises.
LEMMA OwnDevice ==
  ASSUME WellTyped, NEW t \in Threads, DeviceStep(t), CautiousOf(t),
         devices[Dev(t)].enabled => devices[Dev(t)].fd = "created"
  PROVE  /\ CautiousOf(t)'
         /\ devices'[Dev(t)].enabled => devices'[Dev(t)].fd = "created"
<1>1. todo[t] # << >> /\ (GoesOn(t) \/ Fails(t))
  BY StepEffect
<1>2. Dev(t) \in Devs /\ \A name : At(t, name) <=> Name(t) = name
  BY <1>1, NameIsStep
<1> DEFINE d == Dev(t)
<1> HIDE DEF d
<1>3. d \in Devs /\ devices \in [Devs -> DeviceType] /\ d = Dev(t)
  BY <1>2 DEF d, WellTyped, LifecycleTypeOK, DeviceType
<1>4. devices[d] \in DeviceType /\ (devices[d].enabled => devices[d].fd = "created")
  BY <1>3
<1>5. Fails(t) => /\ Name(t)' \in {"none", "reset"}
                  /\ Name(t)' = "reset" /\ Name(t) # "reset" => Name(t) \in Closing /\ Dev(t)' = d
  BY <1>1, <1>3, FailsForm
<1>6. Name(t)' \in {"none", "disable", "set_bits", "enter", "search"} => CautiousOf(t)'
  BY DEF CautiousOf
<1>7. CASE Disable(t)
  <2>1. /\ devices' = [devices EXCEPT ![d].enabled = FALSE] /\ GoesOn(t) /\ Name(t) = "disable"
    BY <1>2, <1>7 DEF Disable, d
  <2>2. ~ devices'[d].enabled
    BY <1>3, <1>4, <2>1 DEF DeviceType
  <2>3. Name(t)' = "close_event" /\ Dev(t)' = d
    BY <1>1, <1>3, <2>1, NextNames
  <2>4. QED
    BY <1>3, <2>2, <2>3 DEF CautiousOf
<1>8. CASE CloseEvent(t)
  <2>1. /\ Name(t) = "close_event"
        /\ \/ devices' = [devices EXCEPT ![d].event = "none"] /\ GoesOn(t)
           \/ devices' = devices /\ Fails(t) /\ clung' = clung \union {<< d, "event" >>}
    BY <1>2, <1>8 DEF CloseEvent, CloseField, d
  <2>2. ~ devices[d].enabled
    BY <1>3, <2>1 DEF CautiousOf
  <2>3. CASE devices' = [devices EXCEPT ![d].event = "none"] /\ GoesOn(t)
    <3>1. devices'[d].event = "none" /\ ~ devices'[d].enabled
      BY <1>3, <1>4, <2>2, <2>3 DEF DeviceType
    <3>2. Name(t)' = "close" /\ Dev(t)' = d
      BY <1>1, <1>3, <2>1, <2>3, NextNames
    <3>3. QED
      BY <1>3, <3>1, <3>2 DEF CautiousOf
  <2>4. CASE devices' = devices /\ Fails(t) /\ clung' = clung \union {<< d, "event" >>}
    <3>1. << d, "event" >> \in clung'
      BY <2>4
    <3>2. Name(t)' = "none" \/ (Name(t)' = "reset" /\ Dev(t)' = d)
      BY <1>5, <2>1, <2>4
    <3>3. QED
      BY <1>3, <2>2, <2>4, <3>1, <3>2 DEF CautiousOf
  <2>5. QED
    BY <2>1, <2>3, <2>4
<1>9. CASE Close(t)
  <2>1. /\ Name(t) = "close"
        /\ \/ devices' = [devices EXCEPT ![d].fd = "none"] /\ GoesOn(t) /\ clung' = clung
           \/ devices' = devices /\ Fails(t) /\ clung' = clung \union {<< d, "fd" >>}
    BY <1>2, <1>9 DEF Close, CloseField, d
  <2>2. ~ devices[d].enabled /\ devices[d].event = "none"
    BY <1>3, <2>1 DEF CautiousOf
  <2>3. CASE devices' = [devices EXCEPT ![d].fd = "none"] /\ GoesOn(t) /\ clung' = clung
    <3>1. devices'[d].fd = "none" /\ ~ devices'[d].enabled /\ devices'[d].event = "none"
      BY <1>3, <1>4, <2>2, <2>3 DEF DeviceType
    <3>2. Name(t)' \in {"none", "disable"} \/ (Name(t)' \in {"reset", "lock"} /\ Dev(t)' = d)
      BY <1>1, <1>3, <2>1, <2>3, NextNames
    <3>3. QED
      BY <1>3, <3>1, <3>2 DEF CautiousOf
  <2>4. CASE devices' = devices /\ Fails(t) /\ clung' = clung \union {<< d, "fd" >>}
    <3>1. << d, "fd" >> \in clung'
      BY <2>4
    <3>2. Name(t)' = "none" \/ (Name(t)' = "reset" /\ Dev(t)' = d)
      BY <1>5, <2>1, <2>4
    <3>3. QED
      BY <1>3, <2>2, <2>4, <3>1, <3>2 DEF CautiousOf
  <2>5. QED
    BY <2>1, <2>3, <2>4
<1>10. ASSUME Name(t) \notin Closing, Fails(t)
       PROVE  CautiousOf(t)'
  <2>1. Name(t)' = "none"
    BY <1>5, <1>10 DEF Closing
  <2>2. QED
    BY <1>6, <2>1
<1>11. CASE LockDevices(t)
  <2>1. Name(t) = "lock" /\ devices' = devices /\ (GoesOn(t) \/ Fails(t))
    BY <1>2, <1>11 DEF LockDevices
  <2>2. ~ devices[d].enabled
    BY <1>3, <2>1 DEF CautiousOf
  <2>3. CASE GoesOn(t)
    <3>1. Name(t)' = "open" /\ Dev(t)' = d
      BY <1>1, <1>3, <2>1, <2>3, NextNames
    <3>2. QED
      BY <1>3, <2>1, <2>2, <3>1 DEF CautiousOf
  <2>4. CASE Fails(t)
    <3>1. CautiousOf(t)'
      BY <1>10, <2>1, <2>4 DEF Closing
    <3>2. QED
      BY <1>3, <2>1, <2>2, <3>1
  <2>5. QED
    BY <2>1, <2>3, <2>4
<1>12. CASE Open(t)
  <2>1. /\ Name(t) = "open"
        /\ \/ devices' = [devices EXCEPT ![d].fd = "open"] /\ GoesOn(t)
           \/ \E fd \in {"none", "open", devices[d].fd} : devices' = [devices EXCEPT ![d].fd = fd] /\ Fails(t)
    BY <1>2, <1>12 DEF Open, d
  <2>2. ~ devices[d].enabled
    BY <1>3, <2>1 DEF CautiousOf
  <2>3. ~ devices'[d].enabled
    BY <1>3, <1>4, <2>1, <2>2 DEF DeviceType
  <2>4. CASE GoesOn(t)
    <3>1. Name(t)' = "create" /\ Dev(t)' = d
      BY <1>1, <1>3, <2>1, <2>4, NextNames
    <3>2. QED
      BY <1>3, <2>3, <3>1 DEF CautiousOf
  <2>5. CASE Fails(t)
    <3>1. CautiousOf(t)'
      BY <1>10, <2>1, <2>5 DEF Closing
    <3>2. QED
      BY <1>3, <2>3, <3>1
  <2>6. QED
    BY <2>1, <2>4, <2>5
<1>13. CASE Create(t)
  <2>1. /\ Name(t) = "create"
        /\ \/ devices' = [devices EXCEPT ![d].fd = "created", ![d].enabled = TRUE] /\ GoesOn(t)
           \/ devices' = devices /\ Fails(t)
    BY <1>2, <1>13 DEF Create, d
  <2>2. CASE devices' = [devices EXCEPT ![d].fd = "created", ![d].enabled = TRUE] /\ GoesOn(t)
    <3>1. devices'[d].fd = "created"
      BY <1>3, <1>4, <2>2 DEF DeviceType
    <3>2. Name(t)' = "enter"
      BY <1>1, <2>1, <2>2, NextNames
    <3>3. QED
      BY <1>3, <1>6, <3>1, <3>2
  <2>3. CASE devices' = devices /\ Fails(t)
    <3>1. CautiousOf(t)'
      BY <1>10, <2>1, <2>3 DEF Closing
    <3>2. QED
      BY <1>3, <1>4, <2>3, <3>1
  <2>4. QED
    BY <2>1, <2>2, <2>3
<1>14. CASE Enter(t)
  <2>1. Name(t) = "enter" /\ devices' = devices /\ (GoesOn(t) \/ Fails(t))
    BY <1>2, <1>14 DEF Enter
  <2>2. GoesOn(t) => Name(t)' = "search"
    BY <1>1, <2>1, NextNames
  <2>3. CautiousOf(t)'
    BY <1>6, <1>10, <2>1, <2>2 DEF Closing
  <2>4. QED
    BY <1>3, <1>4, <2>1, <2>3
<1>15. CASE Search(t)
  <2>1. /\ Name(t) = "search" /\ (GoesOn(t) \/ Fails(t))
        /\ \E event \in {"open", "none"} : devices' = [devices EXCEPT ![d].event = event]
    BY <1>2, <1>15 DEF Search, d
  <2>2. GoesOn(t) => Name(t)' \in {"none", "disable"}
    BY <1>1, <2>1, NextNames
  <2>3. CautiousOf(t)'
    BY <1>6, <1>10, <2>1, <2>2 DEF Closing
  <2>4. devices'[d].enabled = devices[d].enabled /\ devices'[d].fd = devices[d].fd
    BY <1>3, <1>4, <2>1 DEF DeviceType
  <2>5. QED
    BY <1>3, <1>4, <2>3, <2>4
<1>16. CASE Reset(t)
  <2>1. Name(t) = "reset" /\ devices' = [devices EXCEPT ![d] = Fresh] /\ GoesOn(t)
    BY <1>2, <1>16 DEF Reset, d
  <2>2. Name(t)' \in {"none", "set_bits", "disable"}
    BY <1>1, <2>1, NextNames
  <2>3. ~ devices'[d].enabled
    BY <1>3, <2>1 DEF Fresh
  <2>4. QED
    BY <1>3, <1>6, <2>2, <2>3
<1>17. CASE SetBits(t)
  <2>1. /\ Name(t) = "set_bits"
        /\ \/ devices' = [devices EXCEPT ![d] = [Fresh EXCEPT !.has_evbit = TRUE]] /\ GoesOn(t)
           \/ Fails(t) /\ \E some \in BOOLEAN : devices' = [devices EXCEPT ![d] = [Fresh EXCEPT !.has_evbit = some]]
    BY <1>2, <1>17 DEF SetBits, d
  <2>2. ~ devices'[d].enabled
    BY <1>3, <2>1 DEF Fresh
  <2>3. GoesOn(t) => Name(t)' \in {"none", "set_bits", "disable"}
    BY <1>1, <2>1, NextNames
  <2>4. CautiousOf(t)'
    BY <1>6, <1>10, <2>1, <2>3 DEF Closing
  <2>5. QED
    BY <1>3, <2>2, <2>4
<1>18. QED
  BY <1>7, <1>8, <1>9, <1>11, <1>12, <1>13, <1>14, <1>15, <1>16, <1>17 DEF DeviceStep

\* The steps of a call that goes on are steps it had.
LEMMA StepsRemain ==
  ASSUME WellTyped, NEW t \in Threads, DeviceStep(t)
  PROVE  \A i \in DOMAIN todo'[t] : \E j \in DOMAIN todo[t] : j > i /\ todo'[t][i] = todo[t][j]
<1>1. PICK k \in 2 .. Len(todo[t]) + 1 : Left(t, k)
  BY StepForm
<1>2. Rest(todo'[t], todo[t], k)
  BY <1>1 DEF Left
<1>3. \A i \in DOMAIN todo'[t] : i \in Int /\ k \in Int /\ k >= 2
  BY <1>2 DEF Rest, WellTyped, Formed
<1>4. \A i \in DOMAIN todo'[t] : i + k - 1 \in DOMAIN todo[t] /\ todo'[t][i] = todo[t][i + k - 1] /\ i + k - 1 > i
  BY <1>2, <1>3 DEF Rest
<1>5. QED
  BY <1>4

LEMMA StepApart ==
  ASSUME WellTyped, Apart, NEW t \in Threads, DeviceStep(t)
  PROVE  Apart'
<1>1. \A u \in Threads : \A i \in DOMAIN todo'[u] : \E j \in DOMAIN todo[u] : todo'[u][i] = todo[u][j]
  BY StepsRemain, StepForm
<1>2. QED
  BY <1>1 DEF Apart

LEMMA StepCautious ==
  ASSUME WellTyped, Apart, Cautious, EnabledCanWrite, NEW t \in Threads, DeviceStep(t)
  PROVE  Cautious' /\ EnabledCanWrite'
<1>1. \A u \in Threads : CautiousOf(u)
  BY DEF Cautious
<1>2. /\ todo[t] # << >>
      /\ \A d \in Devs : d # Dev(t) => devices'[d] = devices[d] /\ SameClung(d)
  BY StepEffect
<1>3. Dev(t) \in Devs
  BY <1>2, NameIsStep
<1>4. /\ CautiousOf(t)'
      /\ devices'[Dev(t)].enabled => devices'[Dev(t)].fd = "created"
  BY <1>1, <1>3, OwnDevice DEF EnabledCanWrite
<1>5. ASSUME NEW u \in Threads, u # t
      PROVE  CautiousOf(u)'
  <2>1. todo'[u] = todo[u] /\ Name(u)' = Name(u) /\ Dev(u)' = Dev(u)
    BY <1>5, StepForm
  <2>2. CASE Name(u) = "none"
    BY <2>1, <2>2 DEF CautiousOf
  <2>3. CASE todo[u] # << >>
    <3>1. /\ Dev(u) \in Devs /\ Dev(u) = todo[u][1].dev /\ 1 \in DOMAIN todo[u]
          /\ Dev(t) = todo[t][1].dev /\ 1 \in DOMAIN todo[t]
      BY <1>2, <2>3, NameIsStep DEF Dev
    <3>2. Dev(u) # Dev(t)
      BY <1>5, <3>1 DEF Apart
    <3>3. devices'[Dev(u)] = devices[Dev(u)] /\ SameClung(Dev(u))
      BY <1>2, <3>1, <3>2
    <3>4. CautiousOf(u)
      BY <1>1
    <3>5. QED
      BY <2>1, <3>3, <3>4 DEF CautiousOf, SameClung, Fields
  <2>4. QED
    BY <2>2, <2>3 DEF Name
<1>6. Cautious'
  BY <1>4, <1>5 DEF Cautious
<1>7. EnabledCanWrite'
  BY <1>2, <1>3, <1>4 DEF EnabledCanWrite
<1>8. QED
  BY <1>6, <1>7

-----------------------------------------------------------------------------
(* Steps of devices, and the contexts *)

LEMMA StepAlone ==
  ASSUME WellTyped, Alone, DevicesAssumption, NEW t \in Threads, DeviceStep(t), UNCHANGED lifeVars
  PROVE  /\ Alone' /\ Live' = Live
         /\ call # NoCall => t = App /\ call.do # "load"
         /\ call = NoCall => Live # {}
<1>1. /\ contexts' = contexts /\ call' = call /\ Live' = Live
      /\ App \in Threads
  BY DEF lifeVars, Live, DevicesAssumption
<1>2. todo[t] # << >>
  BY StepEffect
<1>3. /\ call # NoCall => t = App /\ call.do # "load"
      /\ call = NoCall => Live # {}
  BY <1>1, <1>2 DEF Alone, Idle
<1>4. call.do = "load" => call # NoCall
  BY DEF NoCall
<1>5. \A u \in Threads : u # t => todo'[u] = todo[u]
  BY StepForm
<1>6. Alone'
  BY <1>1, <1>3, <1>4, <1>5 DEF Alone, Idle
<1>7. QED
  BY <1>1, <1>3, <1>6

LEMMA StepReady ==
  ASSUME WellTyped, Alone, Ready, DevicesAssumption, NEW t \in Threads, DeviceStep(t), UNCHANGED lifeVars
  PROVE  Ready'
<1>1. /\ call' = call /\ broken' = broken /\ Live' = Live
      /\ call # NoCall => t = App /\ call.do # "load"
  BY StepAlone DEF lifeVars
<1>2. /\ todo[t] # << >> /\ (GoesOn(t) \/ Fails(t))
      /\ \A d \in Devs : d # Dev(t) => devices'[d] = devices[d]
      /\ Name(t) = "set_bits" => Fails(t) \/ (GoesOn(t) /\ devices'[Dev(t)].has_evbit)
      /\ Name(t) \notin {"reset", "set_bits"} => devices'[Dev(t)].has_evbit = devices[Dev(t)].has_evbit
  BY StepEffect
<1>3. /\ Dev(t) \in Devs /\ Head(todo[t]) = todo[t][1] /\ 1 \in DOMAIN todo[t]
      /\ \A name : At(t, name) <=> Name(t) = name
  BY <1>2, NameIsStep
<1>4. Name(t) = todo[t][1].do /\ Dev(t) = todo[t][1].dev
  BY <1>2, <1>3 DEF Name, Dev
<1>5. \A u \in Threads : \A i \in DOMAIN todo'[u] : \E j \in DOMAIN todo[u] : todo'[u][i] = todo[u][j]
  BY StepsRemain, StepForm
<1>6. \A i \in DOMAIN todo'[t] : \E j \in DOMAIN todo[t] : j > i /\ todo'[t][i] = todo[t][j]
  BY StepsRemain
<1>7. Gen \in Devs
  BY DEF Devs
<1>8. CASE call.do \in {"none", "load"}
  <2>1. \A u \in Threads : \A i \in DOMAIN todo[u] : ~ SetsUp(todo[u][i], Gen)
    BY <1>8 DEF Ready
  <2>2. \A u \in Threads : \A i \in DOMAIN todo'[u] : ~ SetsUp(todo'[u][i], Gen)
    BY <1>5, <2>1
  <2>3. ~ SetsUp(todo[t][1], Gen)
    BY <1>3, <2>1
  <2>4. Dev(t) = Gen => Name(t) \notin {"reset", "set_bits"}
    BY <1>4, <2>3 DEF SetsUp
  <2>5. devices'[Gen].has_evbit = devices[Gen].has_evbit
    BY <1>2, <1>7, <2>4
  <2>6. QED
    BY <1>1, <1>8, <2>2, <2>5 DEF Ready
<1>9. CASE call.do = "initialize"
  <2>1. t = App
    BY <1>1, <1>9 DEF NoCall
  <2>2. \A i \in DOMAIN todo[t] : todo[t][i].do # "reset"
    BY <1>9, <2>1 DEF Ready
  <2>3. \A i \in DOMAIN todo'[t] : todo'[t][i].do # "reset"
    BY <1>5, <2>2
  <2>4. CASE Fails(t)
    <3>1. Name(t)' \in {"none", "reset"}
      BY <1>2, <2>4, FailsForm
    <3>2. Name(t)' # "reset"
      <4>1. CASE todo'[t] = << >>
        BY <4>1 DEF Name
      <4>2. CASE todo'[t] # << >>
        <5>1. Formed(todo'[t])
          BY StepForm
        <5>2. Head(todo'[t]) = todo'[t][1] /\ 1 \in DOMAIN todo'[t]
          BY <4>2, <5>1 DEF Formed
        <5>3. Name(t)' = todo'[t][1].do
          BY <4>2, <5>2 DEF Name
        <5>4. QED
          BY <2>3, <5>2, <5>3
      <4>3. QED
        BY <4>1, <4>2
    <3>3. failed'
      BY <1>2, <2>1, <2>4, <3>1, <3>2, FailsForm
    <3>4. QED
      BY <1>1, <1>9, <2>1, <2>3, <3>3 DEF Ready
  <2>5. CASE GoesOn(t) /\ ~ Fails(t)
    <3>1. failed' = failed
      BY <2>5 DEF GoesOn
    <3>2. ASSUME ~ failed
          PROVE  /\ \A i \in DOMAIN todo'[t] : ~ SetsUp(todo'[t][i], Gen)
                 /\ devices'[Gen].has_evbit
      <4>1. /\ \A i \in DOMAIN todo[t] : SetsUp(todo[t][i], Gen) => i = 1
            /\ devices[Gen].has_evbit \/ (At(t, "set_bits") /\ Dev(t) = Gen)
        BY <1>9, <2>1, <3>2 DEF Ready
      <4>2. \A i \in DOMAIN todo'[t] : i >= 1
        BY StepForm DEF Formed
      <4>3. \A i \in DOMAIN todo'[t] : ~ SetsUp(todo'[t][i], Gen)
        <5> TAKE i \in DOMAIN todo'[t]
        <5>1. PICK j \in DOMAIN todo[t] : j > i /\ todo'[t][i] = todo[t][j]
          BY <1>6
        <5>2. j # 1
          <6>1. Formed(todo'[t])
            BY StepForm
          <6>2. i \in Nat /\ i >= 1
            BY <6>1 DEF Formed
          <6>3. QED
            BY <5>1, <6>2
        <5>3. QED
          BY <4>1, <5>1, <5>2
      <4>4. Name(t) # "reset"
        BY <1>3, <1>4, <2>2
      <4>5. Name(t) = "set_bits" => devices'[Dev(t)].has_evbit
        BY <1>2, <2>5
      <4>6. devices'[Gen].has_evbit
        BY <1>2, <1>3, <1>7, <4>1, <4>4, <4>5
      <4>7. QED
        BY <4>3, <4>6
    <3>3. QED
      BY <1>1, <1>9, <2>1, <2>3, <3>1, <3>2 DEF Ready
  <2>6. QED
    BY <1>2, <2>4, <2>5
<1>10. CASE call.do = "deinitialize"
  BY <1>1, <1>10 DEF Ready
<1>11. call.do \in {"none", "initialize", "load", "deinitialize"}
  BY DEF WellTyped, LifecycleTypeOK
<1>12. QED
  BY <1>8, <1>9, <1>10, <1>11

LEMMA StepGivenUp ==
  ASSUME WellTyped, Alone, GivenUp, DevicesAssumption, NEW t \in Threads, DeviceStep(t), UNCHANGED lifeVars
  PROVE  GivenUp'
<1>1. /\ call' = call /\ broken' = broken /\ Live' = Live
      /\ call # NoCall => t = App
      /\ call = NoCall => Live # {}
  BY StepAlone DEF lifeVars
<1>2. /\ todo[t] # << >>
      /\ \A d \in Devs : d # Dev(t) => devices'[d] = devices[d]
      /\ Name(t) = "reset" => GoesOn(t) /\ devices'[Dev(t)] = Fresh
  BY StepEffect
<1>3. /\ Head(todo[t]) = todo[t][1] /\ 1 \in DOMAIN todo[t] /\ Dev(t) \in Devs
      /\ DOMAIN todo[t] = 1 .. Len(todo[t])
  BY <1>2, NameIsStep
<1>4. Name(t) = todo[t][1].do /\ Dev(t) = todo[t][1].dev
  BY <1>2, <1>3 DEF Name, Dev
<1>5. \A i \in DOMAIN todo'[t] : \E j \in DOMAIN todo[t] : todo'[t][i] = todo[t][j]
  BY StepsRemain
<1>6. ASSUME call.do = "deinitialize", NEW d \in Devs
      PROVE  Removed(d)'
  <2>1. t = App /\ Removed(d)
    BY <1>1, <1>6 DEF GivenUp, NoCall
  <2>2. CASE devices[d] = Fresh /\ \A i \in DOMAIN todo[App] : todo[App][i].dev # d
    <3>1. Dev(t) # d
      BY <1>3, <1>4, <2>1, <2>2
    <3>2. devices'[d] = Fresh
      BY <1>2, <2>2, <3>1
    <3>3. \A i \in DOMAIN todo'[App] : todo'[App][i].dev # d
      BY <1>5, <2>1, <2>2
    <3>4. QED
      BY <3>2, <3>3 DEF Removed
  <2>3. ASSUME NEW i \in DOMAIN todo[t], todo[t][i] = [do |-> "reset", dev |-> d],
               \A j \in DOMAIN todo[t] : j > i => todo[t][j].dev # d
        PROVE  Removed(d)'
    <3>1. PICK k \in 2 .. Len(todo[t]) + 1 : Left(t, k)
      BY StepForm
    <3>2. /\ DOMAIN todo'[t] = 1 .. Len(todo[t]) - k + 1
          /\ \A j \in DOMAIN todo'[t] : j + k - 1 \in DOMAIN todo[t] /\ todo'[t][j] = todo[t][j + k - 1]
          /\ \A j \in 2 .. k - 1 : todo[t][j].do # "reset"
      BY <3>1 DEF Left, Rest
    <3>3. /\ Len(todo[t]) \in Nat /\ k \in Int /\ k >= 2 /\ i \in Int /\ i >= 1 /\ i <= Len(todo[t])
      BY <1>3, <3>1 DEF WellTyped, Formed
    <3>4. CASE i >= k
      <4> DEFINE n == i - k + 1
      <4>1. n \in DOMAIN todo'[t] /\ n + k - 1 = i
        BY <3>2, <3>3, <3>4
      <4>2. todo'[t][n] = [do |-> "reset", dev |-> d]
        BY <2>3, <3>2, <4>1
      <4>3. \A j \in DOMAIN todo'[t] : j > n => todo'[t][j].dev # d
        <5> TAKE j \in DOMAIN todo'[t]
        <5> HAVE j > n
        <5>1. j + k - 1 \in DOMAIN todo[t] /\ todo'[t][j] = todo[t][j + k - 1]
          BY <3>2
        <5>2. j \in Int
          BY <3>2
        <5>3. j + k - 1 > i
          BY <3>3, <5>2
        <5>4. QED
          BY <2>3, <5>1, <5>3
      <4>4. QED
        BY <2>1, <4>1, <4>2, <4>3 DEF Removed
    <3>5. CASE i < k
      <4>1. i = 1
        <5>1. i \notin 2 .. k - 1
          BY <2>3, <3>2
        <5>2. QED
          BY <3>3, <3>5, <5>1
      <4>2. Name(t) = "reset" /\ Dev(t) = d
        BY <1>4, <2>3, <4>1
      <4>3. GoesOn(t) /\ devices'[d] = Fresh
        BY <1>2, <4>2
      <4>4. \A j \in DOMAIN todo'[t] : todo'[t][j].dev # d
        <5> TAKE j \in DOMAIN todo'[t]
        <5>1. j + k - 1 \in DOMAIN todo[t] /\ todo'[t][j] = todo[t][j + k - 1]
          BY <3>2
        <5>2. j \in Int /\ j >= 1
          BY <3>2
        <5>3. j + k - 1 > i
          BY <3>3, <4>1, <5>2
        <5>4. QED
          BY <2>3, <5>1, <5>3
      <4>5. QED
        BY <2>1, <4>3, <4>4 DEF Removed
    <3>6. QED
      BY <3>3, <3>4, <3>5
  <2>4. QED
    BY <2>1, <2>2, <2>3 DEF Removed
<1>7. QED
  BY <1>1, <1>6 DEF GivenUp

LEMMA StepTyped ==
  ASSUME WellTyped, Guarded', NEW t \in Threads, DeviceStep(t), UNCHANGED lifeVars
  PROVE  WellTyped'
<1>1. /\ devices' \in [Devs -> DeviceType] /\ clung' \subseteq Devs \X Fields
      /\ todo' \in [Threads -> Seq(Step)] /\ failed' \in BOOLEAN
      /\ \A u \in Threads : Formed(todo'[u])
  BY StepEffect, StepForm
<1>2. lock' \in Threads \union {NoThread}
  BY DEF Guarded
<1>3. todo' \in [Threads -> Seq(Step)]
  BY <1>1
<1>4. /\ cwd \in {"home", "events"} /\ wd \in [Threads -> {"home", "events"}] /\ astray \in BOOLEAN
  BY DEF WellTyped, LifecycleTypeOK
<1>5. cwd' \in {"home", "events"} /\ wd' \in [Threads -> {"home", "events"}] /\ astray' \in BOOLEAN
  <2>1. CASE Enter(t)
    <3>1. astray' = astray /\ (wd' = wd \/ wd' = [wd EXCEPT ![t] = cwd]) /\ (cwd' = cwd \/ cwd' = "events")
      BY <2>1 DEF Enter
    <3>2. QED
      BY <1>4, <3>1
  <2>2. CASE Search(t)
    <3>1. /\ astray' \in {astray, TRUE} /\ cwd' \in {cwd, wd[t]}
          /\ wd' = [wd EXCEPT ![t] = "home"]
      BY <2>2 DEF Search
    <3>2. QED
      BY <1>4, <3>1
  <2>3. CASE ~ Enter(t) /\ ~ Search(t)
    <3>1. UNCHANGED << cwd, wd, astray >>
      BY <2>3 DEF DeviceStep, Disable, CloseEvent, Close, LockDevices, Open, Create, Reset, SetBits
    <3>2. QED
      BY <1>4, <3>1
  <2>4. QED
    BY <2>1, <2>2, <2>3
<1>6. /\ contexts' \in [Contexts -> {"none", "live"}] /\ broken' \in BOOLEAN
      /\ initialize_count' \in 0 .. Cardinality(Contexts) + 1
      /\ call' \in [do : {"none", "initialize", "load", "deinitialize"}, ctx : Contexts \union {NoContext}]
  BY DEF WellTyped, LifecycleTypeOK, lifeVars
<1>7. LifecycleTypeOK'
  BY <1>1, <1>2, <1>3, <1>5, <1>6 DEF LifecycleTypeOK, DeviceType, Fields
<1>8. QED
  BY <1>1, <1>7 DEF WellTyped

LEMMA GoesInv ==
  ASSUME LifeInv, DevicesAssumption, NEW t \in Threads, Goes(t)
  PROVE  LifeInv'
<1>1. WellTyped /\ Guarded /\ Alone /\ Ready /\ GivenUp /\ Counted /\ DeviceStep(t) /\ UNCHANGED lifeVars
  BY DEF LifeInv, WellTyped, Goes
<1>2. Guarded'
  BY <1>1, StepGuarded
<1>3. WellTyped'
  BY <1>1, <1>2, StepTyped
<1>4. ~ Shared => Apart' /\ Cautious' /\ EnabledCanWrite'
  BY <1>1, StepApart, StepCautious DEF LifeInv
<1>5. Alone' /\ Ready' /\ GivenUp'
  BY <1>1, StepAlone, StepReady, StepGivenUp
<1>6. Counted'
  BY <1>1 DEF Counted, lifeVars, Live
<1>7. QED
  BY <1>2, <1>3, <1>4, <1>5, <1>6 DEF LifeInv, WellTyped

-----------------------------------------------------------------------------
(* Calls, and the contexts they are for *)

DeviceTyped ==
  /\ devices \in [Devs -> DeviceType]
  /\ todo \in [Threads -> Seq(Step)]
  /\ lock \in Threads \union {NoThread}
  /\ cwd \in {"home", "events"} /\ wd \in [Threads -> {"home", "events"}]
  /\ astray \in BOOLEAN /\ clung \subseteq Devs \X Fields /\ failed \in BOOLEAN
  /\ \A t \in Threads : Formed(todo[t])

ContextTyped ==
  /\ contexts \in [Contexts -> {"none", "live"}] /\ broken \in BOOLEAN
  /\ call \in [do : {"none", "initialize", "load", "deinitialize"}, ctx : Contexts \union {NoContext}]

LEMMA TypedParts ==
  WellTyped <=> DeviceTyped /\ ContextTyped /\ initialize_count \in 0 .. Cardinality(Contexts) + 1
BY DEF WellTyped, LifecycleTypeOK, DeviceTyped, ContextTyped, DeviceType, Fields

LEMMA LiveFinite ==
  ASSUME ContextsAssumption
  PROVE  IsFiniteSet(Live) /\ Cardinality(Live) \in Nat /\ (Cardinality(Live) = 0 <=> Live = {})
<1>1. Live \in SUBSET Contexts
  BY DEF Live
<1>2. IsFiniteSet(Live)
  BY <1>1, FS_Subset DEF ContextsAssumption
<1>3. QED
  BY <1>2, FS_EmptySet, FS_CardinalityType

\* An idle thread starts a call.
LEMMA CallStarts ==
  ASSUME DeviceTyped, Guarded, NEW t \in Threads, Idle(t),
         NEW c, Formed(c), c # << >>, c[1].do \in {"disable", "set_bits"},
         todo' = [todo EXCEPT ![t] = c],
         UNCHANGED << devices, lock, cwd, wd, astray, clung >>, failed' \in BOOLEAN
  PROVE  /\ DeviceTyped' /\ Guarded'
         /\ todo'[t] = c /\ \A u \in Threads : u # t => todo'[u] = todo[u]
         /\ Cautious => Cautious'
         /\ EnabledCanWrite => EnabledCanWrite'
<1>1. c \in Seq(Step) /\ Head(c) = c[1]
  BY DEF Formed
<1>2. /\ todo'[t] = c /\ \A u \in Threads : u # t => todo'[u] = todo[u]
      /\ todo' \in [Threads -> Seq(Step)]
  BY <1>1 DEF DeviceTyped
<1>3. DeviceTyped'
  BY <1>2 DEF DeviceTyped
<1>4. Name(t) = "none" /\ Name(t)' \in {"disable", "set_bits"}
  BY <1>1, <1>2 DEF Idle, Name
<1>5. \A u \in Threads : u # t => Name(u)' = Name(u) /\ Dev(u)' = Dev(u)
  BY <1>2 DEF Name, Dev
<1>6. lock # t /\ Name(t)' \notin LockedNames
  BY <1>4 DEF Guarded, LockedNames
<1>7. Guarded'
  BY <1>5, <1>6, OutsideLock
<1>8. Cautious => Cautious'
  <2> HAVE Cautious
  <2>1. CautiousOf(t)'
    BY <1>4 DEF CautiousOf
  <2>2. \A u \in Threads : u # t => CautiousOf(u)'
    BY <1>5 DEF Cautious, CautiousOf
  <2>3. QED
    BY <2>1, <2>2 DEF Cautious
<1>9. QED
  BY <1>2, <1>3, <1>7, <1>8 DEF EnabledCanWrite

\* Nothing of the devices changes.
LEMMA DevicesStay ==
  ASSUME DeviceTyped, Guarded, UNCHANGED deviceVars
  PROVE  /\ DeviceTyped' /\ Guarded'
         /\ Apart => Apart'
         /\ Cautious => Cautious'
         /\ EnabledCanWrite => EnabledCanWrite'
BY DEF deviceVars, DeviceTyped, Guarded, Name, Dev, Apart, Cautious, CautiousOf, EnabledCanWrite

\* A call of one thread alone is apart.
LEMMA AloneIsApart ==
  ASSUME \A u \in Threads : u # App => todo[u] = << >>
  PROVE  Apart
<1>1. DOMAIN << >> = {}
  OBVIOUS
<1>2. \A u \in Threads : u # App => DOMAIN todo[u] = {}
  BY <1>1
<1>3. QED
  BY <1>2 DEF Apart

LEMMA ChangeInv ==
  ASSUME LifeInv, DevicesAssumption, NEW t \in Threads, ChangeDevices(t)
  PROVE  LifeInv'
<1>1. /\ WellTyped /\ DeviceTyped /\ ContextTyped /\ Guarded /\ Alone /\ Ready /\ GivenUp /\ Counted
      /\ initialize_count \in 0 .. Cardinality(Contexts) + 1
  BY TypedParts DEF LifeInv, WellTyped
<1>2. call = NoCall /\ Live # {} /\ UNCHANGED lifeVars
  BY DEF ChangeDevices
<1>3. \E c : /\ Formed(c) /\ c # << >> /\ c[1].do = "disable"
             /\ \A i \in DOMAIN c : ~ SetsUp(c[i], Gen)
             /\ Calls(t, c)
  <2>1. CASE EnableDevice(t)
    <3>1. PICK d \in Devs, on \in BOOLEAN : Calls(t, mcr_Device_enable(d, on))
      BY <2>1 DEF EnableDevice
    <3>2. /\ \E last \in {"close", "search"} : Program(mcr_Device_enable(d, on), d, "disable", last)
          /\ NoReset(mcr_Device_enable(d, on))
          /\ \A i \in DOMAIN mcr_Device_enable(d, on) : mcr_Device_enable(d, on)[i].do # "set_bits"
      BY EnableForm
    <3>3. QED
      BY <3>1, <3>2 DEF Program, NoReset, SetsUp
  <2>2. CASE EnableAll(t)
    <3>1. PICK on \in BOOLEAN : Calls(t, mcr_Device_enable_all(on))
      BY <2>2 DEF EnableAll
    <3>2. LET c == mcr_Device_enable_all(on)
          IN Formed(c) /\ c # << >> /\ c[1].do = "disable" /\ NoReset(c) /\ \A i \in DOMAIN c : c[i].do # "set_bits"
      BY EnableAllForm
    <3>3. QED
      BY <3>1, <3>2 DEF NoReset, SetsUp
  <2>3. CASE SetResolution(t)
    <3> DEFINE s == IF devices[Abs].enabled THEN Enabling(Abs) ELSE << >>
               c == mcr_Device_deinit(Abs) \o StepsOf(<< "set_bits" >>, Abs) \o s
    <3>1. Calls(t, c)
      BY <2>3 DEF SetResolution
    <3>2. s \in {<< >>, Enabling(Abs)}
      OBVIOUS
    <3> HIDE DEF s
    <3>3. Formed(c) /\ c # << >> /\ c[1].do = "disable" /\ \A i \in DOMAIN c : c[i].dev = Abs
      BY <3>2, SetResolutionForm
    <3> HIDE DEF c
    <3>4. \A i \in DOMAIN c : ~ SetsUp(c[i], Gen)
      BY <3>3, DevicesAssumption DEF SetsUp, DevicesAssumption
    <3>5. QED
      BY <3>1, <3>3, <3>4
  <2>4. QED
    BY <2>1, <2>2, <2>3 DEF ChangeDevices
<1>4. PICK c : /\ Formed(c) /\ c # << >> /\ c[1].do = "disable"
               /\ \A i \in DOMAIN c : ~ SetsUp(c[i], Gen)
               /\ Calls(t, c)
  BY <1>3
<1>5. /\ Idle(t) /\ (Shared \/ \A i \in DOMAIN c : ~ InUse(c[i].dev))
      /\ todo' = [todo EXCEPT ![t] = c]
      /\ UNCHANGED << devices, lock, cwd, wd, astray, clung >>
      /\ failed' \in BOOLEAN
  BY <1>1, <1>4 DEF Calls, DeviceTyped
<1>6. /\ DeviceTyped' /\ Guarded'
      /\ todo'[t] = c /\ \A u \in Threads : u # t => todo'[u] = todo[u]
      /\ Cautious => Cautious'
      /\ EnabledCanWrite => EnabledCanWrite'
  BY <1>1, <1>4, <1>5, CallStarts
<1>7. ASSUME ~ Shared
      PROVE  Apart'
  <2>1. \A u \in Threads : u # t => \A i \in DOMAIN c, j \in DOMAIN todo[u] : c[i].dev # todo[u][j].dev
    BY <1>5, <1>7 DEF InUse
  <2>2. Apart
    BY <1>7 DEF LifeInv
  <2>3. QED
    BY <1>6, <2>1, <2>2 DEF Apart
<1>8. call' = call /\ Live' = Live /\ broken' = broken /\ contexts' = contexts /\ initialize_count' = initialize_count
  BY <1>2 DEF lifeVars, Live
<1>9. WellTyped'
  <2>1. ContextTyped' /\ initialize_count' \in 0 .. Cardinality(Contexts) + 1
    BY <1>1, <1>8 DEF ContextTyped
  <2>2. QED
    BY <1>6, <2>1 DEF WellTyped, LifecycleTypeOK, DeviceTyped, ContextTyped, DeviceType, Fields
<1>10. Alone' /\ Counted'
  BY <1>1, <1>2, <1>8 DEF Alone, Counted, NoCall
<1>11. Ready'
  <2>1. call.do = "none"
    BY <1>2 DEF NoCall
  <2>2. \A u \in Threads : \A i \in DOMAIN todo'[u] : ~ SetsUp(todo'[u][i], Gen)
    BY <1>1, <1>4, <1>6, <2>1 DEF Ready
  <2>3. QED
    BY <1>1, <1>5, <1>8, <2>1, <2>2 DEF Ready
<1>12. GivenUp'
  BY <1>2, <1>8 DEF GivenUp, NoCall
<1>13. QED
  BY <1>6, <1>7, <1>9, <1>10, <1>11, <1>12 DEF LifeInv, WellTyped

\* What is left to show when a context is made or removed: no more contexts are counted
\* than there are, and one that failed.
LEMMA ContextInv ==
  ASSUME ContextsAssumption,
         DeviceTyped', Guarded', ~ Shared => Apart' /\ Cautious' /\ EnabledCanWrite',
         ContextTyped', Alone', Counted', Ready', GivenUp'
  PROVE  LifeInv'
<1>1. (initialize_count \in 0 .. Cardinality(Contexts) + 1)'
  <2>1. Live' \in SUBSET Contexts /\ IsFiniteSet(Contexts)
    BY DEF Live, ContextsAssumption
  <2>2. /\ Cardinality(Live') \in Nat /\ Cardinality(Contexts) \in Nat
        /\ Cardinality(Live') <= Cardinality(Contexts)
    BY <2>1, FS_Subset, FS_CardinalityType
  <2>3. CASE call'.do \in {"initialize", "load"}
    <3>1. call'.ctx \notin Live' /\ call'.ctx \in Contexts
      BY <2>3 DEF Alone, NoCall
    <3>2. Cardinality(Live') # Cardinality(Contexts)
      BY <2>1, <3>1, FS_Subset
    <3>3. initialize_count' = Cardinality(Live') + (IF broken' THEN 1 ELSE 0) + 1
      BY <2>3 DEF Counted
    <3>4. QED
      BY <2>2, <3>2, <3>3
  <2>4. CASE call'.do = "deinitialize"
    BY <2>2, <2>4 DEF Counted
  <2>5. CASE call'.do = "none"
    <3>1. initialize_count' = Cardinality(Live') + (IF broken' THEN 1 ELSE 0) + 0
      BY <2>5 DEF Counted
    <3>2. QED
      BY <2>2, <3>1
  <2>6. QED
    BY <2>3, <2>4, <2>5 DEF ContextTyped
<1>2. LifecycleTypeOK' /\ (\A t \in Threads : Formed(todo[t]))'
  BY <1>1 DEF LifecycleTypeOK, DeviceTyped, ContextTyped, DeviceType, Fields
<1>3. QED
  BY <1>2 DEF LifeInv

LEMMA AllocateNextInv ==
  ASSUME LifeInv, DevicesAssumption, ContextsAssumption, NEW c \in Contexts, AllocateNext(c)
  PROVE  LifeInv'
<1>1. /\ DeviceTyped /\ ContextTyped /\ Guarded /\ Alone /\ Ready /\ GivenUp /\ Counted
      /\ App \in Threads
  BY TypedParts DEF LifeInv, WellTyped, DevicesAssumption
<1>2. /\ call = NoCall /\ (\A t \in Threads : Idle(t)) /\ contexts[c] = "none" /\ initialize_count > 0
      /\ initialize_count' = initialize_count + 1
      /\ call' = [do |-> "load", ctx |-> c]
      /\ UNCHANGED deviceVars /\ contexts' = contexts /\ broken' = broken
  BY DEF AllocateNext, Quiet
<1>3. /\ DeviceTyped' /\ Guarded'
      /\ Apart => Apart'
      /\ Cautious => Cautious'
      /\ EnabledCanWrite => EnabledCanWrite'
  BY <1>1, <1>2, DevicesStay
<1>4. Live' = Live /\ c \notin Live
  BY <1>2 DEF Live
<1>5. call.do = "none" /\ call'.do = "load" /\ call'.ctx = c /\ call' # NoCall
  BY <1>2 DEF NoCall
<1>6. ContextTyped'
  BY <1>1, <1>2 DEF ContextTyped
<1>7. /\ todo' = todo /\ devices' = devices /\ failed' = failed
  BY <1>2 DEF deviceVars
<1>8. Alone'
  BY <1>1, <1>2, <1>4, <1>5, <1>7 DEF Alone, Idle
<1>9. initialize_count = Cardinality(Live) + (IF broken THEN 1 ELSE 0) + 0
  BY <1>1, <1>5 DEF Counted
<1>10. Counted'
  BY <1>2, <1>4, <1>5, <1>9, LiveFinite DEF Counted
<1>11. ~ broken => Live # {}
  BY <1>2, <1>9, LiveFinite
<1>12. Ready'
  BY <1>1, <1>2, <1>4, <1>5, <1>7, <1>11 DEF Ready
<1>13. GivenUp'
  BY <1>5 DEF GivenUp
<1>14. ~ Shared => Apart' /\ Cautious' /\ EnabledCanWrite'
  BY <1>3 DEF LifeInv
<1>15. QED
  BY <1>3, <1>6, <1>8, <1>10, <1>12, <1>13, <1>14, ContextInv

LEMMA AllocateFirstInv ==
  ASSUME LifeInv, DevicesAssumption, ContextsAssumption, NEW c \in Contexts, AllocateFirst(c)
  PROVE  LifeInv'
<1>1. /\ DeviceTyped /\ ContextTyped /\ Guarded /\ Alone /\ Ready /\ GivenUp /\ Counted
      /\ App \in Threads
  BY TypedParts DEF LifeInv, WellTyped, DevicesAssumption
<1>2. PICK s \in InitializingDevices :
        todo' = [todo EXCEPT ![App] = StepsOf(<< "set_bits" >>, Gen) \o StepsOf(<< "set_bits" >>, Abs) \o s]
  BY DEF AllocateFirst
<1>3. /\ call = NoCall /\ (\A t \in Threads : Idle(t)) /\ contexts[c] = "none" /\ initialize_count = 0
      /\ initialize_count' = 1
      /\ call' = [do |-> "initialize", ctx |-> c]
      /\ failed' = FALSE
      /\ UNCHANGED << devices, lock, cwd, wd, astray, clung >> /\ contexts' = contexts /\ broken' = broken
  BY DEF AllocateFirst, Quiet
<1> DEFINE p == StepsOf(<< "set_bits" >>, Gen) \o StepsOf(<< "set_bits" >>, Abs) \o s
<1>4. /\ Formed(p) /\ p # << >> /\ Head(p) = [do |-> "set_bits", dev |-> Gen]
      /\ NoReset(p) /\ \A i \in DOMAIN p : SetsUp(p[i], Gen) => i = 1
  BY InitializeForm
<1> HIDE DEF p
<1>5. p[1].do = "set_bits"
  BY <1>4 DEF Formed
<1>6. /\ DeviceTyped' /\ Guarded'
      /\ todo'[App] = p /\ \A u \in Threads : u # App => todo'[u] = todo[u]
      /\ Cautious => Cautious'
      /\ EnabledCanWrite => EnabledCanWrite'
  <2>1. todo' = [todo EXCEPT ![App] = p]
    BY <1>2 DEF p
  <2>2. Idle(App)
    BY <1>1, <1>3
  <2>3. UNCHANGED << devices, lock, cwd, wd, astray, clung >> /\ failed' \in BOOLEAN
    BY <1>3
  <2>4. QED
    BY <1>1, <1>4, <1>5, <2>1, <2>2, <2>3, CallStarts
<1>7. Apart'
  <2>1. \A u \in Threads : u # App => todo'[u] = << >>
    BY <1>3, <1>6 DEF Idle
  <2>2. DOMAIN << >> = {}
    OBVIOUS
  <2>3. QED
    BY <2>1, <2>2 DEF Apart
<1>8. Live' = Live /\ c \notin Live
  BY <1>3 DEF Live
<1>9. call.do = "none" /\ call'.do = "initialize" /\ call'.ctx = c /\ call' # NoCall
  BY <1>3 DEF NoCall
<1>10. ContextTyped'
  BY <1>1, <1>3 DEF ContextTyped
<1>11. Alone'
  BY <1>1, <1>3, <1>6, <1>8, <1>9 DEF Alone, Idle
<1>12. initialize_count = Cardinality(Live) + (IF broken THEN 1 ELSE 0) + 0
  BY <1>1, <1>9 DEF Counted
<1>13. Cardinality(Live) = 0 /\ Live = {} /\ ~ broken
  BY <1>3, <1>12, LiveFinite
<1>14. Counted'
  BY <1>3, <1>8, <1>9, <1>13 DEF Counted
<1>15. Ready'
  <2>1. At(App, "set_bits")' /\ Dev(App)' = Gen
    BY <1>4, <1>6 DEF At, Dev
  <2>2. QED
    BY <1>4, <1>6, <1>9, <2>1 DEF Ready, NoReset
<1>16. GivenUp'
  BY <1>9 DEF GivenUp
<1>17. ~ Shared => Apart' /\ Cautious' /\ EnabledCanWrite'
  BY <1>6, <1>7 DEF LifeInv
<1>18. QED
  BY <1>6, <1>7, <1>10, <1>11, <1>14, <1>15, <1>16, <1>17, ContextInv

LEMMA PlatformInitializedInv ==
  ASSUME LifeInv, DevicesAssumption, ContextsAssumption, PlatformInitialized
  PROVE  LifeInv'
<1>1. /\ DeviceTyped /\ ContextTyped /\ Guarded /\ Alone /\ Ready /\ GivenUp /\ Counted
      /\ App \in Threads
  BY TypedParts DEF LifeInv, WellTyped, DevicesAssumption
<1>2. /\ call.do = "initialize" /\ todo[App] = << >> /\ UNCHANGED deviceVars
      /\ initialize_count' = initialize_count
  BY DEF PlatformInitialized, Idle
<1>3. /\ DeviceTyped' /\ Guarded'
      /\ Apart => Apart'
      /\ Cautious => Cautious'
      /\ EnabledCanWrite => EnabledCanWrite'
  BY <1>1, <1>2, DevicesStay
<1>4. /\ todo' = todo /\ devices' = devices /\ failed' = failed
  BY <1>2 DEF deviceVars
<1>5. /\ \A t \in Threads : todo[t] = << >>
      /\ call.ctx \in Contexts /\ call.ctx \notin Live
  BY <1>1, <1>2 DEF Alone, Idle, NoCall
<1>6. \A t \in Threads : \A i \in DOMAIN todo[t] : FALSE
  <2>1. DOMAIN << >> = {}
    OBVIOUS
  <2>2. QED
    BY <1>5, <2>1
<1>7. initialize_count = Cardinality(Live) + (IF broken THEN 1 ELSE 0) + 1 /\ ~ broken /\ Live = {}
  BY <1>1, <1>2 DEF Counted
<1>8. initialize_count = 1 /\ Cardinality(Live) = 0
  BY <1>7, LiveFinite
<1>9. CASE ~ failed /\ call' = [call EXCEPT !.do = "load"] /\ UNCHANGED << contexts, broken >>
  <2>1. call'.do = "load" /\ call'.ctx = call.ctx /\ call' # NoCall /\ ContextTyped'
    BY <1>1, <1>9 DEF ContextTyped, NoCall
  <2>2. Live' = Live
    BY <1>9 DEF Live
  <2>3. Alone'
    BY <1>1, <1>4, <1>5, <2>1, <2>2 DEF Alone, Idle
  <2>4. Counted'
    BY <1>2, <1>7, <1>8, <1>9, <2>1, <2>2 DEF Counted
  <2>5. devices[Gen].has_evbit
    BY <1>1, <1>2, <1>9 DEF Ready, At
  <2>6. Ready'
    BY <1>4, <1>6, <2>1, <2>5 DEF Ready
  <2>7. GivenUp'
    BY <2>1 DEF GivenUp
  <2>8. ~ Shared => Apart' /\ Cautious' /\ EnabledCanWrite'
    BY <1>3 DEF LifeInv
  <2>9. QED
    BY <1>3, <2>1, <2>3, <2>4, <2>6, <2>7, <2>8, ContextInv
<1>10. CASE Ends(call.ctx, "none") /\ broken' = TRUE
  <2>1. contexts' = [contexts EXCEPT ![call.ctx] = "none"] /\ call' = NoCall
    BY <1>10 DEF Ends
  <2>2. call'.do = "none" /\ ContextTyped'
    BY <1>1, <1>5, <1>10, <2>1 DEF ContextTyped, NoCall
  <2>3. Live' = {}
    BY <1>1, <1>5, <1>7, <2>1 DEF Live, ContextTyped
  <2>4. Alone'
    BY <1>4, <1>5, <2>1, <2>2 DEF Alone, Idle
  <2>5. Counted'
    BY <1>2, <1>7, <1>8, <1>10, <2>2, <2>3 DEF Counted
  <2>6. Ready'
    BY <1>4, <1>6, <1>10, <2>2 DEF Ready
  <2>7. GivenUp'
    BY <1>10, <2>2 DEF GivenUp
  <2>8. ~ Shared => Apart' /\ Cautious' /\ EnabledCanWrite'
    BY <1>3 DEF LifeInv
  <2>9. QED
    BY <1>3, <2>2, <2>4, <2>5, <2>6, <2>7, <2>8, ContextInv
<1>11. QED
  BY <1>9, <1>10 DEF PlatformInitialized

LEMMA LoadedInv ==
  ASSUME LifeInv, DevicesAssumption, ContextsAssumption, Loaded
  PROVE  LifeInv'
<1>1. /\ DeviceTyped /\ ContextTyped /\ Guarded /\ Alone /\ Ready /\ GivenUp /\ Counted
      /\ App \in Threads
  BY TypedParts DEF LifeInv, WellTyped, DevicesAssumption
<1>2. /\ call.do = "load" /\ UNCHANGED deviceVars /\ broken' = broken
      /\ initialize_count' = initialize_count
      /\ contexts' = [contexts EXCEPT ![call.ctx] = "live"] /\ call' = NoCall
  BY DEF Loaded, Ends
<1>3. /\ DeviceTyped' /\ Guarded'
      /\ Apart => Apart'
      /\ Cautious => Cautious'
      /\ EnabledCanWrite => EnabledCanWrite'
  BY <1>1, <1>2, DevicesStay
<1>4. /\ todo' = todo /\ devices' = devices
  BY <1>2 DEF deviceVars
<1>5. call.ctx \in Contexts /\ call.ctx \notin Live
  BY <1>1, <1>2 DEF Alone, NoCall
<1>6. Live' = Live \union {call.ctx}
  BY <1>1, <1>2, <1>5 DEF Live, ContextTyped
<1>7. Cardinality(Live') = Cardinality(Live) + 1
  BY <1>5, <1>6, FS_AddElement, LiveFinite
<1>8. call'.do = "none" /\ ContextTyped'
  BY <1>1, <1>2, <1>5 DEF ContextTyped, NoCall
<1>9. Alone'
  BY <1>2, <1>6, <1>8 DEF Alone
<1>10. Counted'
  <2>1. initialize_count = Cardinality(Live) + (IF broken THEN 1 ELSE 0) + 1
    BY <1>1, <1>2 DEF Counted
  <2>2. initialize_count' = Cardinality(Live') + (IF broken' THEN 1 ELSE 0) + 0
    BY <1>2, <1>7, <2>1, LiveFinite
  <2>3. QED
    BY <1>8, <2>2 DEF Counted
<1>11. Ready'
  BY <1>1, <1>2, <1>4, <1>8 DEF Ready
<1>12. GivenUp'
  BY <1>6, <1>8 DEF GivenUp
<1>13. ~ Shared => Apart' /\ Cautious' /\ EnabledCanWrite'
  BY <1>3 DEF LifeInv
<1>14. QED
  BY <1>3, <1>8, <1>9, <1>10, <1>11, <1>12, <1>13, ContextInv

\* The platform is given up for the last context only, whether that was made or not.
LEMMA DeinitializePlatformInv ==
  ASSUME LifeInv, DevicesAssumption, ContextsAssumption, NEW c \in Contexts, DeinitializePlatform(c),
         \A t \in Threads : Idle(t),
         \/ call = NoCall /\ contexts[c] = "live"
         \/ call.do = "load" /\ call.ctx = c
  PROVE  LifeInv'
<1>1. /\ DeviceTyped /\ ContextTyped /\ Guarded /\ Alone /\ Ready /\ GivenUp /\ Counted
      /\ App \in Threads
  BY TypedParts DEF LifeInv, WellTyped, DevicesAssumption
<1>2. /\ initialize_count' = initialize_count - 1
      /\ UNCHANGED << devices, lock, cwd, wd, astray, clung, failed >> /\ broken' = broken
  BY DEF DeinitializePlatform
<1>3. \A t \in Threads : \A i \in DOMAIN todo[t] : FALSE
  <2>1. DOMAIN << >> = {}
    OBVIOUS
  <2>2. QED
    BY <2>1 DEF Idle
<1>4. call.do = "load" => c \notin Live
  BY <1>1 DEF Alone, NoCall
<1>5. initialize_count = Cardinality(Live \ {c}) + (IF broken THEN 1 ELSE 0) + 1
  <2>1. CASE call = NoCall /\ contexts[c] = "live"
    <3>1. c \in Live /\ call.do = "none"
      BY <2>1 DEF Live, NoCall
    <3>2. Cardinality(Live \ {c}) = Cardinality(Live) - 1
      BY <3>1, FS_RemoveElement, LiveFinite
    <3>3. initialize_count = Cardinality(Live) + (IF broken THEN 1 ELSE 0) + 0
      BY <1>1, <3>1 DEF Counted
    <3>4. QED
      BY <3>2, <3>3, LiveFinite
  <2>2. CASE call.do = "load" /\ call.ctx = c
    <3>1. Live \ {c} = Live
      BY <1>4, <2>2
    <3>2. initialize_count = Cardinality(Live) + (IF broken THEN 1 ELSE 0) + 1
      BY <1>1, <2>2 DEF Counted
    <3>3. QED
      BY <3>1, <3>2
  <2>3. QED
    BY <2>1, <2>2
<1>6. /\ IsFiniteSet(Live \ {c}) /\ Cardinality(Live \ {c}) \in Nat
      /\ Cardinality(Live \ {c}) = 0 <=> Live \ {c} = {}
  BY LiveFinite, FS_RemoveElement, FS_EmptySet, FS_CardinalityType
<1>7. CASE initialize_count = 1
  <2> DEFINE p == mcr_Device_deinit(Gen) \o mcr_Device_deinit(Abs)
  <2>1. /\ todo' = [todo EXCEPT ![App] = p]
        /\ call' = [do |-> "deinitialize", ctx |-> c] /\ contexts' = contexts
    BY <1>7 DEF DeinitializePlatform, IsLast
  <2>2. /\ Formed(p) /\ p # << >> /\ p[1].do = "disable"
        /\ \A d \in Devs : \E i \in DOMAIN p : /\ p[i] = [do |-> "reset", dev |-> d]
                                               /\ \A j \in DOMAIN p : j > i => p[j].dev # d
    BY DeinitializeForm
  <2> HIDE DEF p
  <2>3. /\ DeviceTyped' /\ Guarded'
        /\ todo'[App] = p /\ \A u \in Threads : u # App => todo'[u] = todo[u]
        /\ Cautious => Cautious'
        /\ EnabledCanWrite => EnabledCanWrite'
    <3>1. Idle(App) /\ failed' \in BOOLEAN /\ UNCHANGED << devices, lock, cwd, wd, astray, clung >>
      BY <1>1, <1>2 DEF DeviceTyped
    <3>2. QED
      BY <1>1, <2>1, <2>2, <3>1, CallStarts
  <2>4. Apart'
    <3>1. \A u \in Threads : u # App => \A i \in DOMAIN todo'[u] : FALSE
      BY <1>3, <2>3
    <3>2. QED
      BY <3>1 DEF Apart
  <2>5. call'.do = "deinitialize" /\ call'.ctx = c /\ call' # NoCall /\ ContextTyped'
    BY <1>1, <1>2, <2>1 DEF ContextTyped, NoCall
  <2>6. Live' = Live
    BY <2>1 DEF Live
  <2>7. Alone'
    BY <2>3, <2>5 DEF Alone, Idle
  <2>8. Live \subseteq {c} /\ ~ broken
    BY <1>5, <1>6, <1>7
  <2>9. Counted'
    BY <1>2, <1>7, <2>5, <2>6, <2>8 DEF Counted
  <2>10. Ready'
    BY <2>5 DEF Ready
  <2>11. GivenUp'
    BY <2>2, <2>3, <2>5 DEF GivenUp, Removed
  <2>12. ~ Shared => Apart' /\ Cautious' /\ EnabledCanWrite'
    BY <2>3, <2>4 DEF LifeInv
  <2>13. QED
    BY <2>3, <2>4, <2>5, <2>7, <2>9, <2>10, <2>11, <2>12, ContextInv
<1>8. CASE initialize_count # 1
  <2>1. contexts' = [contexts EXCEPT ![c] = "none"] /\ call' = NoCall /\ todo' = todo
    BY <1>8 DEF DeinitializePlatform, IsLast, Ends
  <2>2. UNCHANGED deviceVars
    BY <1>2, <2>1 DEF deviceVars
  <2>3. /\ DeviceTyped' /\ Guarded'
        /\ Apart => Apart'
        /\ Cautious => Cautious'
        /\ EnabledCanWrite => EnabledCanWrite'
    BY <1>1, <2>2, DevicesStay
  <2>4. call'.do = "none" /\ ContextTyped'
    BY <1>1, <1>2, <2>1 DEF ContextTyped, NoCall
  <2>5. Live' = Live \ {c}
    BY <1>1, <2>1 DEF Live, ContextTyped
  <2>6. Alone'
    BY <2>1, <2>4 DEF Alone, Idle
  <2>7. Counted'
    <3>1. initialize_count' = Cardinality(Live') + (IF broken' THEN 1 ELSE 0) + 0
      BY <1>2, <1>5, <1>6, <2>5
    <3>2. QED
      BY <2>4, <3>1 DEF Counted
  <2>8. ~ broken => Live' # {}
    BY <1>5, <1>6, <1>8, <2>5
  <2>9. Ready'
    <3>1. ~ broken => devices[Gen].has_evbit
      <4>1. call.do \in {"none", "load"} /\ (Live # {} \/ call.do = "load")
        BY DEF NoCall, Live
      <4>2. QED
        BY <1>1, <4>1 DEF Ready
    <3>2. QED
      BY <1>2, <1>3, <2>1, <2>4, <3>1 DEF Ready
  <2>10. GivenUp'
    BY <1>2, <2>4, <2>8 DEF GivenUp
  <2>11. ~ Shared => Apart' /\ Cautious' /\ EnabledCanWrite'
    BY <2>3 DEF LifeInv
  <2>12. QED
    BY <2>3, <2>4, <2>6, <2>7, <2>9, <2>10, <2>11, ContextInv
<1>9. QED
  BY <1>7, <1>8

LEMMA PlatformDeinitializedInv ==
  ASSUME LifeInv, DevicesAssumption, ContextsAssumption, PlatformDeinitialized
  PROVE  LifeInv'
<1>1. /\ DeviceTyped /\ ContextTyped /\ Guarded /\ Alone /\ Ready /\ GivenUp /\ Counted
      /\ App \in Threads
  BY TypedParts DEF LifeInv, WellTyped, DevicesAssumption
<1>2. /\ call.do = "deinitialize" /\ todo[App] = << >> /\ UNCHANGED deviceVars
      /\ initialize_count' = initialize_count /\ broken' = broken
      /\ contexts' = [contexts EXCEPT ![call.ctx] = "none"] /\ call' = NoCall
  BY DEF PlatformDeinitialized, Idle, Ends
<1>3. /\ DeviceTyped' /\ Guarded'
      /\ Apart => Apart'
      /\ Cautious => Cautious'
      /\ EnabledCanWrite => EnabledCanWrite'
  BY <1>1, <1>2, DevicesStay
<1>4. /\ todo' = todo /\ devices' = devices
  BY <1>2 DEF deviceVars
<1>5. (\A t \in Threads : todo[t] = << >>) /\ call.ctx \in Contexts
  BY <1>1, <1>2 DEF Alone, Idle, NoCall
<1>6. \A t \in Threads : \A i \in DOMAIN todo[t] : FALSE
  <2>1. DOMAIN << >> = {}
    OBVIOUS
  <2>2. QED
    BY <1>5, <2>1
<1>7. initialize_count = 0 /\ ~ broken /\ Live \subseteq {call.ctx}
  BY <1>1, <1>2 DEF Counted
<1>8. Live' = {}
  BY <1>1, <1>2, <1>5, <1>7 DEF Live, ContextTyped
<1>9. call'.do = "none" /\ ContextTyped'
  BY <1>1, <1>2, <1>5 DEF ContextTyped, NoCall
<1>10. Alone'
  BY <1>2, <1>4, <1>5, <1>9 DEF Alone, Idle
<1>11. Cardinality({}) = 0
  BY FS_EmptySet
<1>12. Counted'
  BY <1>2, <1>7, <1>8, <1>9, <1>11 DEF Counted
<1>13. Ready'
  BY <1>4, <1>6, <1>8, <1>9 DEF Ready
<1>14. GivenUp'
  <2>1. \A d \in Devs : devices[d] = Fresh
    BY <1>1, <1>2, <1>6 DEF GivenUp, Removed
  <2>2. QED
    BY <1>4, <1>9, <2>1 DEF GivenUp
<1>15. ~ Shared => Apart' /\ Cautious' /\ EnabledCanWrite'
  BY <1>3 DEF LifeInv
<1>16. QED
  BY <1>3, <1>9, <1>10, <1>12, <1>13, <1>14, <1>15, ContextInv

-----------------------------------------------------------------------------
(* The invariant *)

LEMMA LifeStart ==
  ASSUME LifecycleInit, DevicesAssumption, ContextsAssumption
  PROVE  LifeInv
<1>1. DOMAIN << >> = {} /\ Formed(<< >>)
  BY DEF Formed, ResetsOwn
<1>2. /\ devices = [d \in Devs |-> Fresh] /\ todo = [t \in Threads |-> << >>] /\ failed = FALSE
      /\ lock = NoThread /\ cwd = "home" /\ wd = [t \in Threads |-> "home"] /\ astray = FALSE
      /\ clung = {} /\ contexts = [c \in Contexts |-> "none"] /\ initialize_count = 0
      /\ call = NoCall /\ broken = FALSE
  BY DEF LifecycleInit, DeviceInit
<1>3. Live = {} /\ Cardinality({}) = 0 /\ call.do = "none" /\ App \in Threads
  BY <1>2, FS_EmptySet DEF Live, NoCall, DevicesAssumption
<1>4. \A t \in Threads : todo[t] = << >> /\ Name(t) = "none" /\ \A i \in DOMAIN todo[t] : FALSE
  BY <1>1, <1>2 DEF Name
<1>5. Fresh \in DeviceType
  BY DEF Fresh, DeviceType
<1>6. DeviceTyped
  BY <1>1, <1>2, <1>4, <1>5 DEF DeviceTyped, Formed
<1>7. ContextTyped
  BY <1>2 DEF ContextTyped, NoCall
<1>8. initialize_count \in 0 .. Cardinality(Contexts) + 1
  BY <1>2, FS_CardinalityType DEF ContextsAssumption
<1>9. WellTyped
  BY <1>6, <1>7, <1>8, TypedParts
<1>10. Guarded
  BY <1>2, <1>4 DEF Guarded, LockedNames, DevicesAssumption
<1>11. Apart /\ Cautious /\ EnabledCanWrite
  BY <1>2, <1>4 DEF Apart, Cautious, CautiousOf, EnabledCanWrite, Fresh
<1>12. Alone /\ Counted
  BY <1>2, <1>3, <1>4 DEF Alone, Counted, Idle
<1>13. Ready
  BY <1>2, <1>3, <1>4 DEF Ready
<1>14. GivenUp
  BY <1>2, <1>3 DEF GivenUp
<1>15. QED
  BY <1>9, <1>10, <1>11, <1>12, <1>13, <1>14 DEF LifeInv, WellTyped

LEMMA LifeStep ==
  ASSUME LifeInv, DevicesAssumption, ContextsAssumption, [LifecycleNext]_linuxVars
  PROVE  LifeInv'
<1>1. ASSUME NEW c \in Contexts, Allocate(c)
      PROVE  LifeInv'
  BY <1>1, AllocateNextInv, AllocateFirstInv DEF Allocate
<1>2. ASSUME NEW c \in Contexts, Deallocate(c)
      PROVE  LifeInv'
  <2>1. /\ call = NoCall /\ contexts[c] = "live" /\ DeinitializePlatform(c)
        /\ \A t \in Threads : Idle(t)
    BY <1>2 DEF Deallocate, Quiet
  <2>2. \/ call = NoCall /\ contexts[c] = "live"
        \/ call.do = "load" /\ call.ctx = c
    BY <2>1
  <2>3. c \in Contexts
    BY <1>2
  <2>4. QED
    BY <2>1, <2>2, <2>3, DeinitializePlatformInv, Zenon
<1>3. CASE PlatformInitialized
  BY <1>3, PlatformInitializedInv
<1>4. CASE Loaded
  BY <1>4, LoadedInv
<1>5. CASE LoadFails
  <2>1. call.do = "load" /\ DeinitializePlatform(call.ctx)
    BY <1>5 DEF LoadFails
  <2>2. call.ctx \in Contexts /\ \A t \in Threads : Idle(t)
    BY <2>1 DEF LifeInv, Alone, NoCall
  <2>3. QED
    BY <2>1, <2>2, DeinitializePlatformInv
<1>6. CASE PlatformDeinitialized
  BY <1>6, PlatformDeinitializedInv
<1>7. ASSUME NEW t \in Threads, ChangeDevices(t) \/ Goes(t)
      PROVE  LifeInv'
  BY <1>7, ChangeInv, GoesInv
<1>8. CASE UNCHANGED linuxVars
  <2>1. DeviceTyped /\ ContextTyped /\ Guarded /\ Alone /\ Counted /\ Ready /\ GivenUp
    BY TypedParts DEF LifeInv, WellTyped
  <2>2. UNCHANGED deviceVars /\ UNCHANGED << contexts, initialize_count, call, broken >>
    BY <1>8 DEF linuxVars, lifeVars
  <2>3. /\ DeviceTyped' /\ Guarded'
        /\ Apart => Apart'
        /\ Cautious => Cautious'
        /\ EnabledCanWrite => EnabledCanWrite'
    BY <2>1, <2>2, DevicesStay
  <2>4. todo' = todo /\ devices' = devices /\ failed' = failed /\ Live' = Live
    BY <2>2 DEF deviceVars, Live
  <2>5. ContextTyped' /\ Alone' /\ Counted'
    BY <2>1, <2>2, <2>4 DEF ContextTyped, Alone, Counted, Idle
  <2>6. Ready' /\ GivenUp'
    BY <2>1, <2>2, <2>4 DEF Ready, GivenUp, Removed, At, Dev
  <2>7. ~ Shared => Apart' /\ Cautious' /\ EnabledCanWrite'
    BY <2>3 DEF LifeInv
  <2>8. QED
    BY <2>3, <2>5, <2>6, <2>7, ContextInv
<1>9. QED
  BY <1>1, <1>2, <1>3, <1>4, <1>5, <1>6, <1>7, <1>8 DEF LifecycleNext

LEMMA LinuxSteps == [Next]_vars => [LifecycleNext]_linuxVars
BY DEF Next, vars

LEMMA LifeAlways == Spec => []LifeInv
<1>1. Init => LifeInv
  BY LifeStart, DevicesAssumption, ContextsAssumption DEF Init
<1>2. LifeInv /\ [Next]_vars => LifeInv'
  BY LifeStep, LinuxSteps, DevicesAssumption, ContextsAssumption
<1>3. QED
  BY <1>1, <1>2, PTL DEF Spec

-----------------------------------------------------------------------------
(* What is promised *)

\* The variables of both systems keep their types (device_t and the counters of
\* p_standard.c, and the grabbers of Windows).
THEOREM PlatformTyped == Spec => []TypeOK
<1>1. LifeInv => LifecycleTypeOK
  BY DEF LifeInv
<1>2. GrabberInv => GrabberTypeOK
  BY DEF GrabberInv, Typed
<1> DEFINE S == system \in {"linux", "windows"}
<1>3. Init => S
  BY DEF Init
<1>4. S /\ [Next]_vars => S'
  BY DEF Next, vars
<1>5. S /\ LifecycleTypeOK /\ GrabberTypeOK => TypeOK
  BY DEF TypeOK
<1>6. Spec => []S
  <2> HIDE DEF S
  <2>1. QED
    BY <1>3, <1>4, PTL DEF Spec
<1> HIDE DEF S
<1>7. QED
  BY <1>1, <1>2, <1>5, <1>6, LifeAlways, GrabberAlways, PTL

\* _deviceLock is held exactly where a device is opened, created or looked for, by one
\* thread, whatever system calls fail; and the working directory of the process is
\* left when nobody holds it.
THEOREM LockIsHeldWhereNeeded == Spec => []LockProtects
<1>1. LifeInv => LockProtects
  <2> HAVE LifeInv
  <2>1. Guarded
    BY DEF LifeInv
  <2>2. \A t \in Threads : Name(t) \in LockedNames
                             <=> todo[t] # << >> /\ Head(todo[t]).do \in {"open", "create", "enter", "search"}
    BY DEF Name, LockedNames
  <2>3. lock = NoThread => \A t \in Threads : Name(t) # "search"
    BY <2>1, DevicesAssumption DEF Guarded, LockedNames, DevicesAssumption
  <2>4. QED
    BY <2>1, <2>2, <2>3 DEF LockProtects, Guarded
<1>2. QED
  BY <1>1, LifeAlways, PTL

\* However contexts come and go, and whichever of their steps fail, _initialize_count
\* counts them, the devices are set up while there is one, and reset after the last.
THEOREM DevicesAreReady == Spec => []ReadyWhileUsed
<1>1. LifeInv => ReadyWhileUsed
  <2> SUFFICES ASSUME LifeInv, call = NoCall
               PROVE  /\ initialize_count = Cardinality(Live) + (IF broken THEN 1 ELSE 0)
                      /\ Live # {} /\ ~ broken => devices[Gen].has_evbit
                      /\ Live = {} /\ ~ broken => \A d \in Devs : devices[d] = Fresh
    BY DEF ReadyWhileUsed
  <2>1. call.do = "none"
    BY DEF NoCall
  <2>2. initialize_count = Cardinality(Live) + (IF broken THEN 1 ELSE 0) + 0
    BY <2>1 DEF LifeInv, Counted
  <2>3. Live # {} /\ ~ broken => devices[Gen].has_evbit
    BY <2>1 DEF LifeInv, Ready
  <2>4. Live = {} /\ ~ broken => \A d \in Devs : devices[d] = Fresh
    BY DEF LifeInv, GivenUp
  <2>5. QED
    BY <2>2, <2>3, <2>4, LiveFinite, ContextsAssumption
<1>2. QED
  BY <1>1, LifeAlways, PTL

\* An enabled device was created and is open, whatever failed on the way, as long as
\* no two threads change one device at once.
THEOREM EnabledIsWritable ==
  ASSUME ~ Shared
  PROVE  Spec => []EnabledCanWrite
<1>1. LifeInv => EnabledCanWrite
  BY DEF LifeInv
<1>2. QED
  BY <1>1, LifeAlways, PTL

\* The event file of a device that is reset was closed, or could not be, and its uinput
\* file too, unless the event file could not be; as long as no two threads change one
\* device at once.
THEOREM ClosedBeforeReset ==
  ASSUME ~ Shared
  PROVE  Spec => []NothingForgotten
<1>1. LifeInv => NothingForgotten
  <2> SUFFICES ASSUME LifeInv, NEW t \in Threads, At(t, "reset")
               PROVE  /\ devices[Dev(t)].event # "none" => << Dev(t), "event" >> \in clung
                      /\ devices[Dev(t)].fd # "none" =>
                           << Dev(t), "fd" >> \in clung \/ << Dev(t), "event" >> \in clung
    BY DEF NothingForgotten
  <2>1. CautiousOf(t) /\ Name(t) = "reset"
    BY DEF LifeInv, Cautious, At, Name
  <2>2. QED
    BY <2>1 DEF CautiousOf
<1>2. QED
  BY <1>1, LifeAlways, PTL
=============================================================================
