--------------------------- MODULE InterceptProofs ---------------------------
(***************************************************************************)
(* Proofs about interception on Linux: for any number of enabling and      *)
(* reading threads, devices and descriptors, whatever fails, and in every  *)
(* order of the calls. The heart is that memory, the list of contexts and  *)
(* the threads agree, and that a descriptor a reader still finds in its    *)
(* context is the one it polls.                                            *)
(***************************************************************************)
EXTENDS InterceptProperties, TLAPS

\* A thread that grabs has the mutex, and whoever frees the platform holds none.
Locked ==
  /\ \A e \in Enablers : pc[e] = "grab" => lock = e
  /\ freed => lock = NoOne

\* A reading thread has a context, even if that has been freed, and reads a descriptor.
Housed ==
  /\ \A t \in Running : gc[t] \in Contexts
  /\ \A t \in Threads : tpc[t] = "read" => pollfd[t] \in Fds

\* What is allocated is listed.
Listed == ~ freed => \A k \in Contexts : memory[k] # Free => k \in contexts

\* Reading threads have contexts of their own, and the list has theirs.
Apart ==
  "freed" \notin broken =>
    /\ \A t \in Running : gc[t] \in Contexts /\ memory[gc[t]] # Free
    /\ \A t, u \in Running : gc[t] = gc[u] => t = u
    /\ ~ freed => contexts = {gc[t] : t \in Running}

\* The descriptor in a context is open for its device, and in no other context.
OwnFiles ==
  "freed" \notin broken =>
    \A t \in Running : LET f == memory[gc[t]].fd IN f # Closed =>
      /\ file[f] # NoFile /\ file[f].path = memory[gc[t]].path
      /\ \A u \in Running : memory[gc[u]].fd = f => u = t

\* A reader polls what its context has, until that is closed: it never comes back.
OwnEvents ==
  "freed" \notin broken =>
    \A t \in Threads : LET k == memory[gc[t]] IN
      /\ tpc[t] \in {"poll", "read", "check", "dispatch"} => k.fd \in {Closed, pollfd[t]}
      /\ tpc[t] = "check" => k.fd = Closed \/ got[t] \in {Failure, k.path}
      /\ tpc[t] = "dispatch" => got[t] = k.path

\* Deinitialization that began when nobody enabled is alone, and goes on when the list is empty.
Ending ==
  /\ freed => pc[App] = "gone"
  /\ "early" \notin broken =>
       /\ pc[App] \in {"clear", "disable", "patience", "freeAll", "free", "gone"} =>
            \A e \in Enablers : pc[e] = "idle"
       /\ pc[App] \in {"free", "gone"} => contexts = {}
       /\ freed /\ "freed" \notin broken => Running = {}

\* What relates memory, the list, the open files and the threads' contexts.
Data == NoDangling /\ Listed /\ NoLeak /\ Apart /\ OwnFiles

InterceptInv == TypeOK /\ Locked /\ Housed /\ Data /\ OwnEvents /\ Ending
\* What a thread finds in its context is a descriptor or none.
LEMMA SeenAreFds ==
  ASSUME TypeOK, Housed, NEW t \in Running
  PROVE  SeenFds(t) \subseteq Fds \cup {Closed}
<1>1. memory[gc[t]] \in Context \cup {Free}
  BY DEF TypeOK, Housed
<1> QED BY <1>1 DEF SeenFds, Context

\* The steps of the reading threads keep the types.
LEMMA ReaderTypes ==
  ASSUME TypeOK, Housed, NEW t \in Threads, intercept_start(t)
  PROVE  TypeOK' /\ Housed'
<1> USE DEF vars, platform, devices, enablers, readers, history, TGo, ReaderPoints
<1>r. ASSUME NEW f \in Fds \cup {Closed}, Release(t, f), t \in Running PROVE TypeOK' /\ Housed'
  <2>1. file' \in [Fds -> File \cup {NoFile}]
    BY <1>r DEF Release, TypeOK
  <2>2. contexts' \subseteq Contexts /\ memory' \in [Contexts -> Context \cup {Free}]
    BY <1>r DEF Release, Delisted, TypeOK
  <2>3. /\ tpc' \in [Threads -> ReaderPoints] /\ gc' \in [Threads -> Contexts \cup {NoOne}]
        /\ pollfd' \in [Threads -> Fds \cup {Closed}] /\ got' \in [Threads -> Paths \cup {Failure}]
    BY <1>r DEF Release, TypeOK
  <2>4. TypeOK'
    BY <1>r, <2>1, <2>2, <2>3 DEF Release, TypeOK
  <2>5. Housed'
    BY <1>r DEF Release, TypeOK, Housed, Running
  <2> QED BY <2>4, <2>5
<1>1. CASE Start(t)
  <2>1. t \in Running /\ gc[t] \in Contexts
    BY <1>1 DEF Start, Running, Housed
  <2>2. CASE memory[gc[t]] # Free /\ Open(gc[t]) /\ TGo(t, "start", "begin")
             /\ UNCHANGED <<platform, enablers, gc, pollfd, got, history>>
    <3>1. memory[gc[t]] \in Context
      BY <2>1, <2>2 DEF TypeOK
    <3>2. PICK f \in Fds : /\ memory' = [memory EXCEPT ![gc[t]].fd = f]
                           /\ file' = [file EXCEPT ![f] = [path |-> memory[gc[t]].path,
                                                           exclusive |-> memory[gc[t]].blocking]]
      BY <2>2 DEF Open
    <3>3. [memory[gc[t]] EXCEPT !.fd = f] \in Context
      BY <3>1 DEF Context
    <3>4. memory' \in [Contexts -> Context \cup {Free}]
      BY <3>2, <3>3, <2>1 DEF TypeOK
    <3>5. [path |-> memory[gc[t]].path, exclusive |-> memory[gc[t]].blocking] \in File
      BY <3>1 DEF Context, File
    <3>6. file' \in [Fds -> File \cup {NoFile}]
      BY <3>2, <3>5 DEF TypeOK
    <3>7. tpc' \in [Threads -> ReaderPoints]
      BY <2>2 DEF TypeOK
    <3> QED BY <2>1, <2>2, <3>4, <3>6, <3>7 DEF TypeOK, Housed, Running
  <2>3. CASE TGo(t, "start", "begin") /\ UNCHANGED <<platform, devices, enablers, gc, pollfd, got, history>>
    BY <2>3 DEF TypeOK, Housed, Running
  <2>4. CASE Release(t, Closed)
    BY <2>1, <2>4, <1>r
  <2> QED BY <1>1, <2>2, <2>3, <2>4 DEF Start
<1>2. CASE ReadBegin(t)
  <2>1. t \in Running
    BY <1>2 DEF ReadBegin, Running
  <2>2. PICK f \in SeenFds(t) : pollfd' = [pollfd EXCEPT ![t] = f]
    BY <1>2 DEF ReadBegin
  <2>3. pollfd' \in [Threads -> Fds \cup {Closed}]
    BY <2>1, <2>2, SeenAreFds DEF TypeOK
  <2> QED BY <1>2, <2>3 DEF ReadBegin, TypeOK, Housed, Running
<1>3. CASE Poll(t)
  BY <1>3 DEF Poll, TypeOK, Housed, Running
<1>4. CASE Read(t)
  <2>1. got' \in [Threads -> Paths \cup {Failure}]
    <3>1. CASE file[pollfd[t]] # NoFile /\ got' = [got EXCEPT ![t] = file[pollfd[t]].path]
      BY <1>4, <3>1 DEF Read, Housed, TypeOK, File
    <3>2. CASE got' = [got EXCEPT ![t] = Failure]
      BY <3>2 DEF TypeOK
    <3> QED BY <1>4, <3>1, <3>2 DEF Read
  <2> QED BY <1>4, <2>1 DEF Read, TypeOK, Housed, Running
<1>5. CASE Check(t)
  BY <1>5 DEF Check, TypeOK, Housed, Running
<1>6. CASE Dispatch(t)
  BY <1>6 DEF Dispatch, TypeOK, Housed, Running
<1>7. CASE Leave(t)
  <2>1. t \in Running
    BY <1>7 DEF Leave, Running
  <2> QED BY <1>7, <2>1, <1>r, SeenAreFds DEF Leave
<1> QED BY <1>1, <1>2, <1>3, <1>4, <1>5, <1>6, <1>7 DEF intercept_start
\* The steps of clear_grabbers keep the types.
LEMMA ClearTypes ==
  ASSUME TypeOK, Housed, NoDangling, NEW p \in Callers, clear_grabbers(p)
  PROVE  TypeOK' /\ Housed'
<1> USE DEF vars, platform, devices, enablers, readers, history, Go, CallerPoints
<1>1. CASE ClearCheck(p)
  <2>1. tries' \in [Callers -> 0 .. MaxTries]
    BY <1>1, InterceptAssumption DEF ClearCheck, TriesLeft, TypeOK
  <2> QED BY <1>1, <2>1 DEF ClearCheck, TypeOK, Housed, Running
<1>2. CASE ClearDisable(p)
  <2>1. memory' \in [Contexts -> Context \cup {Free}]
    <3>1. \A k \in contexts : [memory[k] EXCEPT !.fd = Closed] \in Context \cup {Free}
      <4> SUFFICES ASSUME NEW k \in contexts PROVE [memory[k] EXCEPT !.fd = Closed] \in Context
        OBVIOUS
      <4>1. memory[k] \in Context
        BY DEF TypeOK, NoDangling
      <4> QED BY <4>1 DEF Context
    <3> QED BY <1>2, <3>1 DEF ClearDisable, ClosedMemory, TypeOK
  <2>2. file' \in [Fds -> File \cup {NoFile}]
    BY <1>2 DEF ClearDisable, ClosedFiles, TypeOK
  <2> QED BY <1>2, <2>1, <2>2 DEF ClearDisable, TypeOK, Housed, Running
<1>3. CASE ClearPatience(p)
  BY <1>3 DEF ClearPatience, Cleared, TypeOK, Housed, Running
<1>4. CASE ClearFree(p)
  <2>1. memory' \in [Contexts -> Context \cup {Free}]
    BY <1>4 DEF ClearFree, TypeOK
  <2>2. file' \in [Fds -> File \cup {NoFile}]
    BY <1>4 DEF ClearFree, ClosedFiles, TypeOK
  <2> QED BY <1>4, <2>1, <2>2 DEF ClearFree, Emptied, Cleared, TypeOK, Housed, Running
<1> QED BY <1>1, <1>2, <1>3, <1>4 DEF clear_grabbers

\* The steps of the enabling threads keep the types.
LEMMA EnablerTypes ==
  ASSUME TypeOK, Housed, NoDangling, NEW e \in Enablers, thread_enable(e)
  PROVE  TypeOK' /\ Housed'
<1> USE DEF vars, platform, devices, enablers, readers, history, Go, CallerPoints
<1>1. CASE EnableBegin(e)
  BY <1>1 DEF EnableBegin, TypeOK, Housed, Running
<1>2. CASE EnableUsed(e)
  <2>1. MaxTries \in 0 .. MaxTries
    BY InterceptAssumption
  <2>2. tries' \in [Callers -> 0 .. MaxTries]
    BY <1>2, <2>1 DEF EnableUsed, TypeOK
  <2>3. pc' \in [Callers -> CallerPoints]
    BY <1>2 DEF EnableUsed, Cleared, TypeOK
  <2> QED BY <1>2, <2>2, <2>3 DEF EnableUsed, TypeOK, Housed, Running
<1>3. CASE EnableLock(e)
  BY <1>3 DEF EnableLock, TypeOK, Housed, Running
<1>4. CASE Grab(e)
  <2>1. CASE \E next \in todo[e], k \in Contexts \ Allocated, t \in Threads :
          /\ TGo(t, "none", "start")
          /\ gc' = [gc EXCEPT ![t] = k]
          /\ \E path \in Found(e, next) :
               memory' = [memory EXCEPT ![k] = NewContext(path)]
          /\ contexts' = contexts \cup {k}
          /\ todo' = [todo EXCEPT ![e] = @ \ {next}]
          /\ broken' = IF fresh[e] THEN broken ELSE broken \cup {"stale"}
    <3>1. PICK next \in todo[e], k \in Contexts \ Allocated, t \in Threads :
          /\ TGo(t, "none", "start")
          /\ gc' = [gc EXCEPT ![t] = k]
          /\ \E path \in Found(e, next) :
               memory' = [memory EXCEPT ![k] = NewContext(path)]
          /\ contexts' = contexts \cup {k}
          /\ todo' = [todo EXCEPT ![e] = @ \ {next}]
          /\ broken' = IF fresh[e] THEN broken ELSE broken \cup {"stale"}
      BY <2>1
    <3>2. PICK path \in Paths : memory' = [memory EXCEPT ![k] = NewContext(path)]
      BY <3>1 DEF Found, TypeOK
    <3>3. NewContext(path) \in Context
      BY DEF NewContext, Context, TypeOK
    <3>4. memory' \in [Contexts -> Context \cup {Free}]
      BY <3>2, <3>3 DEF TypeOK
    <3>5. todo' \in [Enablers -> SUBSET Paths]
      BY <3>1 DEF TypeOK
    <3>6. tpc' \in [Threads -> ReaderPoints] /\ gc' \in [Threads -> Contexts \cup {NoOne}]
      BY <3>1 DEF TypeOK, TGo, ReaderPoints
    <3>7. TypeOK'
      BY <1>4, <3>1, <3>4, <3>5, <3>6 DEF Grab, TypeOK
    <3>8. Housed'
      BY <1>4, <3>1 DEF Grab, TypeOK, Housed, Running, TGo
    <3> QED BY <3>7, <3>8
  <2>2. CASE todo' = [todo EXCEPT ![e] = {}] /\ UNCHANGED <<tpc, gc, memory, contexts, broken>>
    BY <1>4, <2>2 DEF Grab, TypeOK, Housed, Running
  <2> QED BY <1>4, <2>1, <2>2 DEF Grab
<1>5. CASE EnableUnlock(e)
  BY <1>5 DEF EnableUnlock, TypeOK, Housed, Running
<1>6. CASE clear_grabbers(e)
  BY <1>6, ClearTypes DEF Callers
<1> QED BY <1>1, <1>2, <1>3, <1>4, <1>5, <1>6 DEF thread_enable

\* The calls of the application keep the types.
LEMMA AppTypes ==
  ASSUME TypeOK, Housed, NoDangling, AppStep
  PROVE  TypeOK' /\ Housed'
<1> USE DEF vars, platform, devices, enablers, readers, history, Go, CallerPoints
<1>1. ASSUME NEW r, Call(r) PROVE calls' \in 0 .. Budget
  BY <1>1, InterceptAssumption DEF Call, TypeOK
<1>2. ASSUME NEW b \in BOOLEAN, NEW from, NEW to \in {"idle", "resetOn"}, SetEnabled(b, from, to),
             calls' \in 0 .. Budget
      PROVE  TypeOK' /\ Housed'
  <2>1. pc' \in [Callers -> CallerPoints] /\ enable' \in [Enablers -> BOOLEAN]
    BY <1>2 DEF SetEnabled, TypeOK, Callers
  <2>2. asked' \in {"none", "on", "off", "reset"}
    BY <1>2 DEF SetEnabled, TypeOK
  <2> QED BY <1>2, <2>1, <2>2 DEF SetEnabled, TypeOK, Housed, Running
<1>3. CASE mcr_intercept_set_enabled
  BY <1>1, <1>2, <1>3 DEF mcr_intercept_set_enabled
<1>4. CASE ResetBegin
  BY <1>1, <1>4 DEF ResetBegin, TypeOK, Housed, Running
<1>5. CASE ResetOff
  BY <1>2, <1>5 DEF ResetOff, TypeOK
<1>6. CASE ResetOn
  BY <1>2, <1>6 DEF ResetOn, TypeOK
<1>7. CASE SetGrabs
  BY <1>1, <1>7 DEF SetGrabs, TypeOK, Housed, Running
<1>8. CASE SetBlockable
  BY <1>1, <1>8 DEF SetBlockable, TypeOK, Housed, Running
<1>9. CASE DeinitBegin
  <2>1. MaxTries \in 0 .. MaxTries
    BY InterceptAssumption
  <2>2. tries' \in [Callers -> 0 .. MaxTries]
    BY <1>9, <2>1 DEF DeinitBegin, TypeOK
  <2>3. broken' \subseteq {"freed", "stale", "early"}
    BY <1>9 DEF DeinitBegin, TypeOK
  <2> QED BY <1>1, <1>9, <2>2, <2>3 DEF DeinitBegin, TypeOK, Housed, Running
<1>10. CASE DeinitFree
  BY <1>10 DEF DeinitFree, TypeOK, Housed, Running
<1>11. CASE clear_grabbers(App)
  BY <1>11, ClearTypes DEF Callers
<1> QED BY <1>3, <1>4, <1>5, <1>6, <1>7, <1>8, <1>9, <1>10, <1>11
        DEF AppStep, mcr_intercept_reset, mcr_intercept_deinitialize
\* Steps that leave memory, files and contexts alone keep what relates them.
LEMMA DataKept ==
  ASSUME InterceptInv, UNCHANGED <<memory, file, contexts, freed, gc>>, Running' = Running,
         "freed" \in broken <=> "freed" \in broken'
  PROVE  Data'
<1> USE DEF InterceptInv, Data
<1>1. NoDangling' /\ Listed' /\ NoLeak'
  BY DEF NoDangling, Listed, NoLeak
<1>2. Apart'
  BY DEF Apart
<1>3. OwnFiles'
  BY DEF OwnFiles
<1> QED BY <1>1, <1>2, <1>3

\* A reading thread that ends takes with it its context and its descriptor, and no more.
LEMMA ReleaseKeeps ==
  ASSUME InterceptInv, Enter, NEW t \in Running, NEW f \in SeenFds(t), Release(t, f)
  PROVE  Data' /\ OwnEvents'
<1> USE DEF InterceptInv, Data
<1>1. /\ contexts' = contexts \ {gc[t]} /\ memory' = [memory EXCEPT ![gc[t]] = Free]
      /\ gc' = [gc EXCEPT ![t] = NoOne] /\ tpc' = [tpc EXCEPT ![t] = "none"]
      /\ freed' = freed /\ broken' = broken /\ ~ freed
  BY DEF Release, Delisted, TGo, platform, history, Enter
<1>2. gc[t] \in Contexts /\ t \in Threads
  BY DEF Housed, Running
<1>3. /\ \A k \in Contexts : memory'[k] = IF k = gc[t] THEN Free ELSE memory[k]
      /\ \A u \in Threads : u # t => tpc'[u] = tpc[u] /\ gc'[u] = gc[u]
      /\ tpc'[t] = "none"
  <2>1. \A k \in Contexts : memory'[k] = IF k = gc[t] THEN Free ELSE memory[k]
    BY <1>1 DEF TypeOK
  <2>2. \A u \in Threads : u # t => tpc'[u] = tpc[u] /\ gc'[u] = gc[u]
    BY <1>1 DEF TypeOK
  <2>3. tpc'[t] = "none"
    BY <1>1, <1>2 DEF TypeOK
  <2> QED BY <2>1, <2>2, <2>3
<1>4. \A g \in Fds : file'[g] = IF g = f THEN NoFile ELSE file[g]
  BY InterceptAssumption DEF Release, TypeOK
<1>5. Running' = Running \ {t}
  BY <1>2, <1>3 DEF Running
<1>6. NoDangling' /\ Listed'
  BY <1>1, <1>3 DEF NoDangling, Listed, TypeOK
<1>7. NoLeak'
  <2> SUFFICES ASSUME NEW g \in Fds, file'[g] # NoFile
               PROVE  \E k \in contexts' : memory'[k].fd = g
    BY DEF NoLeak
  <2>1. g # f /\ file[g] # NoFile
    BY <1>4
  <2>2. PICK k \in contexts : memory[k].fd = g
    BY <1>1, <2>1 DEF NoLeak
  <2>3. k # gc[t]
    BY <2>1, <2>2 DEF SeenFds, NoDangling
  <2> QED BY <1>1, <1>3, <2>2, <2>3 DEF TypeOK
<1>8. CASE "freed" \in broken
  BY <1>1, <1>6, <1>7, <1>8 DEF Apart, OwnFiles, OwnEvents
<1>9. CASE "freed" \notin broken
  <2>1. memory[gc[t]] # Free /\ f = memory[gc[t]].fd
    BY <1>9 DEF Apart, SeenFds
  <2>2. \A u \in Running' : /\ u \in Running /\ u # t /\ gc'[u] = gc[u] /\ gc[u] # gc[t]
                            /\ gc[u] \in Contexts /\ memory'[gc'[u]] = memory[gc[u]]
    BY <1>3, <1>5, <1>9 DEF Apart, Running
  <2>3. Apart'
    <3>1. contexts = {gc[u] : u \in Running}
      BY <1>1, <1>9 DEF Apart
    <3>2. contexts' = {gc'[u] : u \in Running'}
      BY <1>1, <1>5, <2>2, <3>1
    <3> QED BY <1>1, <1>9, <2>2, <3>2 DEF Apart
  <2>4. OwnFiles'
    <3> SUFFICES ASSUME NEW u \in Running', memory'[gc'[u]].fd # Closed
                 PROVE  LET g == memory'[gc'[u]].fd IN
                        /\ file'[g] # NoFile /\ file'[g].path = memory'[gc'[u]].path
                        /\ \A v \in Running' : memory'[gc'[v]].fd = g => v = u
      BY DEF OwnFiles
    <3>1. memory[gc[u]] \in Context
      BY <1>9, <2>2 DEF Apart, TypeOK
    <3>2. memory[gc[u]].fd \in Fds
      BY <2>2, <3>1 DEF Context
    <3>3. memory[gc[u]].fd # f
      BY <1>9, <2>1, <2>2 DEF OwnFiles
    <3>4. file'[memory[gc[u]].fd] = file[memory[gc[u]].fd]
      BY <1>4, <3>2, <3>3
    <3> QED BY <1>9, <2>2, <3>4 DEF OwnFiles
  <2>5. OwnEvents'
    <3> SUFFICES ASSUME NEW u \in Threads
                 PROVE  LET k == memory'[gc'[u]] IN
                   /\ tpc'[u] \in {"poll", "read", "check", "dispatch"} => k.fd \in {Closed, pollfd'[u]}
                   /\ tpc'[u] = "check" => k.fd = Closed \/ got'[u] \in {Failure, k.path}
                   /\ tpc'[u] = "dispatch" => got'[u] = k.path
      BY <1>1 DEF OwnEvents
    <3>1. CASE u = t
      BY <1>3, <3>1
    <3>2. CASE u # t /\ tpc[u] # "none"
      <4>1. u \in Running'
        BY <1>5, <3>2 DEF Running
      <4>2. tpc'[u] = tpc[u] /\ pollfd'[u] = pollfd[u] /\ got'[u] = got[u]
        BY <1>3, <3>2 DEF Release, TypeOK
      <4> QED BY <1>9, <2>2, <4>1, <4>2 DEF OwnEvents
    <3>3. CASE u # t /\ tpc[u] = "none"
      BY <1>3, <3>3
    <3> QED BY <3>1, <3>2, <3>3
  <2> QED BY <1>6, <1>7, <2>3, <2>4, <2>5
<1> QED BY <1>8, <1>9

\* A reading thread that opens its device gets a descriptor nobody else has.
LEMMA OpenKeeps ==
  ASSUME InterceptInv, Enter, NEW t \in Threads, memory[gc[t]] # Free, Open(gc[t]),
         TGo(t, "start", "begin"), UNCHANGED <<platform, enablers, gc, pollfd, got, history>>
  PROVE  Data' /\ OwnEvents'
<1> USE DEF InterceptInv, Data
<1> DEFINE k == gc[t]
<1>1. /\ tpc' = [tpc EXCEPT ![t] = "begin"] /\ tpc[t] = "start"
      /\ UNCHANGED <<contexts, freed, broken, gc, pollfd, got>> /\ ~ freed
  BY DEF TGo, platform, history, Enter
<1>2. t \in Running /\ k \in Contexts /\ memory[k] \in Context /\ Running' = Running
  BY <1>1 DEF Running, Housed, TypeOK
<1>3. PICK f \in Fds : /\ Lowest(f) /\ memory' = [memory EXCEPT ![k].fd = f]
                       /\ file' = [file EXCEPT ![f] = [path |-> memory[k].path,
                                                       exclusive |-> memory[k].blocking]]
  BY DEF Open
<1>4. memory[k].fd = Closed /\ f # Closed /\ file[f] = NoFile
  BY <1>3, InterceptAssumption DEF Open, Lowest
<1>5. [memory[k] EXCEPT !.fd = f] # Free
  <2>1. [memory[k] EXCEPT !.fd = f] \in Context
    BY <1>2 DEF Context
  <2> QED BY <2>1, OutsideAssumption
<1>6. /\ \A j \in Contexts : j # k => memory'[j] = memory[j]
      /\ memory'[k] # Free /\ memory'[k].fd = f /\ memory'[k].path = memory[k].path
  BY <1>2, <1>3, <1>5 DEF TypeOK, Context
<1>7. file'[f] # NoFile /\ file'[f].path = memory[k].path
  <2>1. [path |-> memory[k].path, exclusive |-> memory[k].blocking] \in File
    BY <1>2 DEF Context, File
  <2> QED BY <1>3, <2>1, OutsideAssumption DEF TypeOK
<1>8. \A g \in Fds : g # f => file'[g] = file[g]
  BY <1>3 DEF TypeOK
<1>9. k \in contexts
  BY <1>1, <1>2 DEF Listed
<1>10. NoDangling' /\ Listed'
  BY <1>1, <1>6, <1>9 DEF NoDangling, Listed, TypeOK
<1>11. NoLeak'
  <2> SUFFICES ASSUME NEW g \in Fds, file'[g] # NoFile
               PROVE  \E j \in contexts : memory'[j].fd = g
    BY <1>1 DEF NoLeak
  <2>1. CASE g = f
    BY <1>6, <1>9, <2>1
  <2>2. CASE g # f
    <3>1. PICK j \in contexts : memory[j].fd = g
      BY <1>1, <1>8, <2>2 DEF NoLeak
    <3>2. j # k /\ j \in Contexts
      BY <1>4, <3>1, InterceptAssumption DEF TypeOK
    <3> QED BY <1>6, <3>1, <3>2
  <2> QED BY <2>1, <2>2
<1>12. CASE "freed" \in broken
  BY <1>1, <1>10, <1>11, <1>12 DEF Apart, OwnFiles, OwnEvents
<1>13. CASE "freed" \notin broken
  <2>1. \A u \in Running : u # t => gc[u] \in Contexts /\ gc[u] # k /\ memory'[gc[u]] = memory[gc[u]]
    BY <1>2, <1>6, <1>13 DEF Apart
  <2>2. Apart'
    BY <1>1, <1>2, <1>6, <1>13, <2>1 DEF Apart
  <2>3. \A u \in Running : u # t => memory[gc[u]].fd # f
    BY <1>4, <1>13 DEF OwnFiles
  <2>4. OwnFiles'
    <3> SUFFICES ASSUME NEW u \in Running, memory'[gc[u]].fd # Closed
                 PROVE  LET g == memory'[gc[u]].fd IN
                        /\ file'[g] # NoFile /\ file'[g].path = memory'[gc[u]].path
                        /\ \A v \in Running : memory'[gc[v]].fd = g => v = u
      BY <1>1, <1>2 DEF OwnFiles
    <3>1. CASE u = t
      BY <1>6, <1>7, <2>1, <2>3, <3>1
    <3>2. CASE u # t
      <4>1. memory'[gc[u]] = memory[gc[u]] /\ memory[gc[u]] \in Context
        BY <1>13, <2>1, <3>2 DEF Apart, TypeOK
      <4>2. memory[gc[u]].fd \in Fds /\ memory[gc[u]].fd # f
        BY <2>3, <3>2, <4>1 DEF Context
      <4>3. file'[memory[gc[u]].fd] = file[memory[gc[u]].fd]
        BY <1>8, <4>2
      <4> QED BY <1>6, <1>13, <2>1, <4>1, <4>2, <4>3 DEF OwnFiles
    <3> QED BY <3>1, <3>2
  <2>5. OwnEvents'
    <3> SUFFICES ASSUME NEW u \in Threads
                 PROVE  LET c == memory'[gc[u]] IN
                   /\ tpc'[u] \in {"poll", "read", "check", "dispatch"} => c.fd \in {Closed, pollfd[u]}
                   /\ tpc'[u] = "check" => c.fd = Closed \/ got[u] \in {Failure, c.path}
                   /\ tpc'[u] = "dispatch" => got[u] = c.path
      BY <1>1 DEF OwnEvents
    <3>1. CASE u = t \/ tpc[u] = "none"
      BY <1>1, <3>1 DEF TypeOK
    <3>2. CASE u # t /\ tpc[u] # "none"
      <4>1. tpc'[u] = tpc[u] /\ memory'[gc[u]] = memory[gc[u]]
        BY <1>1, <2>1, <3>2 DEF TypeOK, Running
      <4> QED BY <1>13, <4>1 DEF OwnEvents
    <3> QED BY <3>1, <3>2
  <2> QED BY <1>10, <1>11, <2>2, <2>4, <2>5
<1> QED BY <1>12, <1>13
\* The steps of a reading thread keep what relates the data, and what a reader knows.
LEMMA ReaderKeeps ==
  ASSUME InterceptInv, NEW t \in Threads, intercept_start(t)
  PROVE  Data' /\ OwnEvents'
<1> USE DEF platform, devices, enablers, readers, history, TGo
<1> USE DEF InterceptInv
<1>1. CASE Start(t)
  <2>1. Enter /\ tpc[t] = "start" /\ t \in Running
    BY <1>1 DEF Start, Running
  <2>2. CASE memory[gc[t]] # Free /\ Open(gc[t]) /\ TGo(t, "start", "begin")
             /\ UNCHANGED <<platform, enablers, gc, pollfd, got, history>>
    BY <2>1, <2>2, OpenKeeps
  <2>3. CASE TGo(t, "start", "begin") /\ UNCHANGED <<platform, devices, enablers, gc, pollfd, got, history>>
    <3>1. Running' = Running
      BY <2>3 DEF Running, TypeOK
    <3>2. Data'
      BY <2>3, <3>1, DataKept
    <3>3. OwnEvents'
      BY <2>3 DEF OwnEvents, TypeOK
    <3> QED BY <3>2, <3>3
  <2>4. CASE Closed \in SeenFds(t) /\ Release(t, Closed)
    BY <2>1, <2>4, ReleaseKeeps
  <2> QED BY <1>1, <2>2, <2>3, <2>4 DEF Start
<1>2. ASSUME Running' = Running, UNCHANGED <<platform, devices, gc, history>> PROVE Data'
  BY <1>2, DataKept
<1>3. CASE ReadBegin(t)
  <2>1. Data'
    BY <1>2, <1>3 DEF ReadBegin, Running, TypeOK
  <2>2. PICK f \in SeenFds(t) : pollfd' = [pollfd EXCEPT ![t] = f]
    BY <1>3 DEF ReadBegin
  <2>3. "freed" \notin broken => f = memory[gc[t]].fd
    BY <1>3, <2>2 DEF ReadBegin, SeenFds, Apart, Running, Data
  <2>4. OwnEvents'
    BY <1>3, <2>2, <2>3 DEF ReadBegin, OwnEvents, TypeOK
  <2> QED BY <2>1, <2>4
<1>4. CASE Poll(t)
  <2>1. Data'
    BY <1>2, <1>4 DEF Poll, Running, TypeOK
  <2>2. OwnEvents'
    BY <1>4 DEF Poll, OwnEvents, TypeOK
  <2> QED BY <2>1, <2>2
<1>5. CASE Read(t)
  <2>1. Data'
    BY <1>2, <1>5 DEF Read, Running, TypeOK
  <2>2. "freed" \notin broken /\ memory[gc[t]].fd # Closed => got'[t] \in {Failure, memory[gc[t]].path}
    <3>1. tpc[t] = "read" /\ t \in Running
      BY <1>5 DEF Read, Running
    <3>2. "freed" \notin broken /\ memory[gc[t]].fd # Closed =>
            memory[gc[t]].fd = pollfd[t] /\ file[pollfd[t]].path = memory[gc[t]].path
      BY <3>1 DEF OwnEvents, OwnFiles, Data
    <3> QED BY <1>5, <3>2 DEF Read, TypeOK
  <2>3. OwnEvents'
    BY <1>5, <2>2 DEF Read, OwnEvents, TypeOK
  <2> QED BY <2>1, <2>3
<1>6. CASE Check(t)
  <2>1. Data'
    BY <1>2, <1>6 DEF Check, Running, TypeOK
  <2>2. "freed" \notin broken /\ tpc'[t] = "dispatch" => got[t] = memory[gc[t]].path
    <3>1. t \in Running /\ tpc[t] = "check"
      BY <1>6 DEF Check, Running
    <3>2. "freed" \notin broken => memory[gc[t]] # Free
      BY <3>1 DEF Apart, Data
    <3>3. "freed" \notin broken /\ tpc'[t] = "dispatch" =>
            memory[gc[t]].fd # Closed /\ got[t] # Failure
      BY <1>6, <3>2 DEF Check, ClosedMeanwhile, SeenFds, TypeOK
    <3> QED BY <3>1, <3>3 DEF OwnEvents
  <2>3. OwnEvents'
    BY <1>6, <2>2 DEF Check, OwnEvents, TypeOK
  <2> QED BY <2>1, <2>3
<1>7. CASE Dispatch(t)
  <2>1. Data'
    BY <1>2, <1>7 DEF Dispatch, Running, TypeOK
  <2>2. OwnEvents'
    BY <1>7 DEF Dispatch, OwnEvents, TypeOK
  <2> QED BY <2>1, <2>2
<1>8. CASE Leave(t)
  <2>1. Enter /\ t \in Running
    BY <1>8 DEF Leave, Running
  <2> QED BY <1>8, <2>1, ReleaseKeeps DEF Leave
<1> QED BY <1>1, <1>3, <1>4, <1>5, <1>6, <1>7, <1>8 DEF intercept_start

\* No file is open any more when the grabbers of the whole list are closed.
LEMMA AllClosed ==
  ASSUME TypeOK, NoLeak, Enter
  PROVE  \A f \in Fds : ClosedFiles(contexts)[f] = NoFile
BY DEF ClosedFiles, NoLeak, Enter

\* The steps of clear_grabbers keep what relates the data, and what a reader knows.
LEMMA ClearKeeps ==
  ASSUME InterceptInv, NEW p \in Callers, clear_grabbers(p)
  PROVE  Data' /\ OwnEvents'
<1> USE DEF platform, devices, enablers, readers, history, Go
<1> USE DEF InterceptInv
<1>1. ASSUME UNCHANGED <<platform, devices, readers, history>> PROVE Data' /\ OwnEvents'
  <2>1. Running' = Running
    BY <1>1 DEF Running
  <2>2. Data'
    BY <1>1, <2>1, DataKept
  <2>3. OwnEvents'
    BY <1>1 DEF OwnEvents
  <2> QED BY <2>2, <2>3
<1>2. CASE ClearDisable(p)
  <2>1. /\ Enter /\ ~ freed /\ memory' = ClosedMemory(contexts) /\ file' = ClosedFiles(contexts)
        /\ UNCHANGED <<platform, readers, history>>
    BY <1>2 DEF ClearDisable, Enter
  <2>2. \A k \in Contexts : /\ k \notin contexts => memory'[k] = memory[k]
                            /\ k \in contexts => memory'[k] # Free /\ memory'[k].fd = Closed
    <3>1. \A k \in contexts : memory[k] \in Context
      BY DEF TypeOK, Data, NoDangling
    <3>2. \A k \in contexts : [memory[k] EXCEPT !.fd = Closed] \in Context
                              /\ [memory[k] EXCEPT !.fd = Closed].fd = Closed
      BY <3>1 DEF Context
    <3> QED BY <2>1, <3>2, OutsideAssumption DEF ClosedMemory
  <2>3. NoDangling' /\ Listed'
    BY <2>1, <2>2 DEF NoDangling, Listed, TypeOK, Data
  <2>4. NoLeak'
    BY <2>1, AllClosed DEF NoLeak, Data
  <2>5. Running' = Running
    BY <2>1 DEF Running
  <2>6. "freed" \notin broken => \A t \in Running : gc[t] \in contexts
    BY <2>1 DEF Apart, Data
  <2>7. "freed" \notin broken => \A t \in Running : memory'[gc[t]] # Free /\ memory'[gc[t]].fd = Closed
    BY <2>2, <2>6 DEF TypeOK
  <2>8. Apart' /\ OwnFiles'
    BY <2>1, <2>5, <2>7 DEF Apart, OwnFiles, Data
  <2>9. OwnEvents'
    <3>1. \A t \in Running : gc[t] \in contexts =>
             memory'[gc[t]].path = memory[gc[t]].path
      <4> SUFFICES ASSUME NEW k \in contexts PROVE memory'[k].path = memory[k].path
        OBVIOUS
      <4>1. memory[k] \in Context /\ memory'[k] = [memory[k] EXCEPT !.fd = Closed]
        BY <2>1 DEF TypeOK, Data, NoDangling, ClosedMemory
      <4> QED BY <4>1 DEF Context
    <3>2. \A t \in Threads : tpc[t] \in {"poll", "read", "check", "dispatch"} => t \in Running
      BY DEF Running
    <3> QED BY <2>1, <2>6, <2>7, <3>1, <3>2 DEF OwnEvents
  <2> QED BY <2>3, <2>4, <2>8, <2>9 DEF Data
<1>3. CASE ClearFree(p)
  <2>1. /\ Enter /\ ~ freed /\ contexts' = {} /\ file' = ClosedFiles(contexts)
        /\ memory' = [k \in Contexts |-> IF k \in contexts THEN Free ELSE memory[k]]
        /\ broken' = IF contexts = {} THEN broken ELSE broken \cup {"freed"}
        /\ UNCHANGED <<freed, readers>>
    BY <1>3 DEF ClearFree, Enter, Emptied
  <2>2. NoDangling' /\ Listed'
    BY <2>1 DEF NoDangling, Listed, TypeOK, Data
  <2>3. NoLeak'
    BY <2>1, AllClosed DEF NoLeak, Data
  <2>4. CASE contexts # {}
    BY <2>1, <2>2, <2>3, <2>4 DEF Data, Apart, OwnFiles, OwnEvents
  <2>5. CASE contexts = {}
    <3>1. memory' = memory /\ file' = file
      BY <2>1, <2>5 DEF ClosedFiles, TypeOK
    <3>2. Running' = Running /\ broken' = broken /\ contexts' = contexts
      BY <2>1, <2>5 DEF Running
    <3>3. Data'
      BY <2>1, <3>1, <3>2, DataKept
    <3>4. OwnEvents'
      BY <2>1, <3>1, <3>2 DEF OwnEvents
    <3> QED BY <3>3, <3>4
  <2> QED BY <2>4, <2>5
<1>4. CASE ClearCheck(p) \/ ClearPatience(p)
  BY <1>1, <1>4 DEF ClearCheck, ClearPatience
<1> QED BY <1>2, <1>3, <1>4 DEF clear_grabbers
\* A step that touches no context keeps what relates the data, and what a reader knows.
LEMMA QuietKeeps ==
  ASSUME InterceptInv, UNCHANGED <<contexts, freed, devices, readers>>,
         "freed" \in broken <=> "freed" \in broken'
  PROVE  Data' /\ OwnEvents'
<1>1. Running' = Running
  BY DEF Running, readers
<1>2. Data'
  BY <1>1, DataKept DEF devices, readers
<1>3. OwnEvents'
  BY DEF OwnEvents, devices, readers, InterceptInv
<1> QED BY <1>2, <1>3

\* Grabbing gives a new reading thread a context that was free.
LEMMA GrabKeeps ==
  ASSUME InterceptInv, NEW e \in Enablers, Grab(e)
  PROVE  Data' /\ OwnEvents'
<1> USE DEF InterceptInv, Data
<1>1. ~ freed /\ freed' = freed /\ file' = file /\ pollfd' = pollfd /\ got' = got
  BY InterceptAssumption DEF Grab, Locked
<1>2. CASE UNCHANGED <<tpc, gc, memory, contexts, broken>>
  BY <1>1, <1>2, QuietKeeps DEF devices, readers
<1>3. CASE \E next \in todo[e], k \in Contexts \ Allocated, t \in Threads :
          /\ TGo(t, "none", "start")
          /\ gc' = [gc EXCEPT ![t] = k]
          /\ \E path \in Found(e, next) :
               memory' = [memory EXCEPT ![k] = NewContext(path)]
          /\ contexts' = contexts \cup {k}
          /\ todo' = [todo EXCEPT ![e] = @ \ {next}]
          /\ broken' = IF fresh[e] THEN broken ELSE broken \cup {"stale"}
  <2>1. PICK next \in todo[e], k \in Contexts \ Allocated, t \in Threads :
          /\ TGo(t, "none", "start")
          /\ gc' = [gc EXCEPT ![t] = k]
          /\ \E path \in Found(e, next) :
               memory' = [memory EXCEPT ![k] = NewContext(path)]
          /\ contexts' = contexts \cup {k}
          /\ todo' = [todo EXCEPT ![e] = @ \ {next}]
          /\ broken' = IF fresh[e] THEN broken ELSE broken \cup {"stale"}
    BY <1>3
  <2>2. PICK path \in Paths : memory' = [memory EXCEPT ![k] = NewContext(path)]
    BY <2>1 DEF Found, TypeOK
  <2>3. NewContext(path) # Free /\ NewContext(path).fd = Closed
    <3>1. NewContext(path) \in Context
      BY DEF NewContext, Context, TypeOK
    <3> QED BY <3>1, OutsideAssumption DEF NewContext
  <2>4. memory[k] = Free /\ k \notin contexts
    BY DEF Allocated, NoDangling
  <2>5. /\ memory'[k] # Free /\ memory'[k].fd = Closed
        /\ \A j \in Contexts : j # k => memory'[j] = memory[j]
    BY <2>2, <2>3 DEF TypeOK
  <2>6. /\ Running' = Running \cup {t} /\ t \notin Running
        /\ gc'[t] = k /\ \A u \in Threads : u # t => gc'[u] = gc[u] /\ tpc'[u] = tpc[u]
        /\ tpc'[t] = "start"
    <3>1. tpc[t] = "none" /\ tpc' = [tpc EXCEPT ![t] = "start"] /\ gc' = [gc EXCEPT ![t] = k]
      BY <2>1 DEF TGo
    <3>2. /\ tpc'[t] = "start" /\ gc'[t] = k
          /\ \A u \in Threads : u # t => gc'[u] = gc[u] /\ tpc'[u] = tpc[u]
      BY <3>1 DEF TypeOK
    <3> QED BY <3>1, <3>2 DEF Running
  <2>7. NoDangling' /\ Listed'
    BY <1>1, <2>1, <2>5 DEF NoDangling, Listed, TypeOK
  <2>8. NoLeak'
    <3> SUFFICES ASSUME NEW f \in Fds, file[f] # NoFile PROVE \E j \in contexts' : memory'[j].fd = f
      BY <1>1 DEF NoLeak
    <3>1. PICK j \in contexts : memory[j].fd = f
      BY <1>1 DEF NoLeak
    <3> QED BY <2>1, <2>4, <2>5, <3>1 DEF TypeOK
  <2>9. "freed" \in broken' <=> "freed" \in broken
    BY <2>1
  <2>10. CASE "freed" \in broken
    BY <2>7, <2>8, <2>9, <2>10 DEF Apart, OwnFiles, OwnEvents
  <2>11. CASE "freed" \notin broken
    <3>1. \A u \in Running : /\ u \in Threads /\ u # t /\ gc'[u] = gc[u] /\ gc[u] # k
                             /\ gc[u] \in Contexts /\ memory'[gc[u]] = memory[gc[u]]
      BY <2>4, <2>5, <2>6, <2>11 DEF Apart, Running
    <3>2. Apart'
      <4>1. contexts' = {gc'[u] : u \in Running'}
        BY <1>1, <2>1, <2>6, <2>11, <3>1 DEF Apart
      <4>2. \A u \in Running' : gc'[u] \in Contexts /\ memory'[gc'[u]] # Free
        BY <2>5, <2>6, <2>11, <3>1 DEF Apart
      <4>3. \A u, v \in Running' : gc'[u] = gc'[v] => u = v
        BY <2>6, <2>11, <3>1 DEF Apart
      <4> QED BY <4>1, <4>2, <4>3 DEF Apart
    <3>3. OwnFiles'
      BY <1>1, <2>5, <2>6, <2>11, <3>1 DEF OwnFiles
    <3>4. OwnEvents'
      <4> SUFFICES ASSUME NEW u \in Threads
                   PROVE  LET c == memory'[gc'[u]] IN
                     /\ tpc'[u] \in {"poll", "read", "check", "dispatch"} => c.fd \in {Closed, pollfd[u]}
                     /\ tpc'[u] = "check" => c.fd = Closed \/ got[u] \in {Failure, c.path}
                     /\ tpc'[u] = "dispatch" => got[u] = c.path
        BY <1>1 DEF OwnEvents
      <4>1. CASE u = t \/ tpc[u] = "none"
        BY <2>6, <4>1
      <4>2. CASE u # t /\ tpc[u] # "none"
        BY <2>6, <2>11, <3>1, <4>2 DEF OwnEvents, Running
      <4> QED BY <4>1, <4>2
    <3> QED BY <2>7, <2>8, <3>2, <3>3, <3>4
  <2> QED BY <2>10, <2>11
<1> QED BY <1>2, <1>3 DEF Grab

\* The calls of the application keep what relates the data, and what a reader knows.
LEMMA AppKeeps ==
  ASSUME InterceptInv, AppStep
  PROVE  Data' /\ OwnEvents'
<1> USE DEF platform, devices, enablers, readers, history, Go
<1>1. ASSUME NEW b, NEW from, NEW to, SetEnabled(b, from, to) PROVE Data' /\ OwnEvents'
  BY <1>1, QuietKeeps DEF SetEnabled
<1>2. CASE DeinitFree
  <2>1. contexts' = {} /\ freed' /\ Enter /\ UNCHANGED <<devices, readers, history>>
    BY <1>2 DEF DeinitFree
  <2>2. Running' = Running
    BY <2>1 DEF Running
  <2>3. NoDangling' /\ Listed' /\ NoLeak'
    BY <2>1 DEF NoDangling, Listed, NoLeak
  <2>4. Apart' /\ OwnFiles' /\ OwnEvents'
    BY <2>1, <2>2 DEF InterceptInv, Data, Apart, OwnFiles, OwnEvents
  <2> QED BY <2>3, <2>4 DEF Data
<1>3. CASE ResetBegin \/ SetGrabs \/ SetBlockable
  BY <1>3, QuietKeeps DEF ResetBegin, SetGrabs, SetBlockable
<1>4. CASE DeinitBegin
  <2>1. "freed" \in broken <=> "freed" \in broken'
    BY <1>4 DEF DeinitBegin
  <2> QED BY <1>4, <2>1, QuietKeeps DEF DeinitBegin
<1>5. CASE clear_grabbers(App)
  BY <1>5, ClearKeeps DEF Callers
<1> QED BY <1>1, <1>2, <1>3, <1>4, <1>5
        DEF AppStep, mcr_intercept_set_enabled, mcr_intercept_reset, ResetOff, ResetOn,
            mcr_intercept_deinitialize

\* Every step keeps what relates the data, and what a reader knows.
LEMMA StepKeepsData ==
  ASSUME InterceptInv, [Next]_vars
  PROVE  Data' /\ OwnEvents'
<1>1. CASE UNCHANGED vars
  <2>1. UNCHANGED <<contexts, freed, devices, readers, broken>>
    BY <1>1 DEF vars, platform, history
  <2> QED BY <2>1, QuietKeeps
<1>2. ASSUME NEW e \in Enablers, thread_enable(e) PROVE Data' /\ OwnEvents'
  <2>1. CASE EnableBegin(e) \/ EnableUsed(e) \/ EnableLock(e) \/ EnableUnlock(e)
    <3>1. UNCHANGED <<contexts, freed, devices, readers, broken>>
      BY <2>1 DEF EnableBegin, EnableUsed, EnableLock, EnableUnlock, platform, history
    <3> QED BY <3>1, QuietKeeps
  <2>2. CASE clear_grabbers(e)
    BY <2>2, ClearKeeps DEF Callers
  <2> QED BY <1>2, <2>1, <2>2, GrabKeeps DEF thread_enable
<1> QED BY <1>1, <1>2, ReaderKeeps, AppKeeps DEF Next, Done
\* Reading threads leave the mutex, the callers and the end to the others.
LEMMA ReaderLeaves ==
  ASSUME InterceptInv, NEW t \in Threads, intercept_start(t)
  PROVE  Locked' /\ Ending'
<1> USE DEF platform, devices, enablers, readers, history, TGo
<1>1. /\ UNCHANGED <<lock, freed, pc, broken>> /\ contexts' \subseteq contexts
      /\ Running' \subseteq Running
  <2>1. ASSUME NEW f, Release(t, f) PROVE /\ UNCHANGED <<lock, freed, pc, broken>>
                                          /\ contexts' \subseteq contexts /\ Running' \subseteq Running
    BY <2>1 DEF Release, Delisted, Running, InterceptInv, TypeOK
  <2>2. CASE Start(t)
    BY <2>1, <2>2 DEF Start, Running, InterceptInv, TypeOK
  <2>3. CASE Leave(t)
    BY <2>1, <2>3 DEF Leave
  <2>4. CASE ReadBegin(t) \/ Poll(t) \/ Read(t) \/ Check(t) \/ Dispatch(t)
    BY <2>4 DEF ReadBegin, Poll, Read, Check, Dispatch, Running, InterceptInv, TypeOK
  <2> QED BY <2>2, <2>3, <2>4 DEF intercept_start
<1> QED BY <1>1 DEF InterceptInv, Locked, Ending

\* clear_grabbers ends where its caller goes on, with an empty list.
LEMMA ClearLeaves ==
  ASSUME InterceptInv, NEW p \in Callers, clear_grabbers(p)
  PROVE  Locked' /\ Ending'
<1> USE DEF platform, devices, enablers, readers, history, Go
<1>1. UNCHANGED <<lock, freed, tpc>> /\ Running' = Running
  BY DEF clear_grabbers, ClearCheck, ClearDisable, ClearPatience, ClearFree, Running
<1>2. /\ pc[p] \in {"clear", "disable", "patience", "freeAll"}
      /\ \E q \in {"clear", "disable", "patience", "freeAll", "lock", "idle", "free"} :
           /\ pc' = [pc EXCEPT ![p] = q]
           /\ q = "free" => contexts' = {}
           /\ q \in {"lock", "idle"} => p # App
      /\ contexts' \subseteq contexts
      /\ broken \subseteq broken' /\ ("early" \in broken' => "early" \in broken)
  BY DEF clear_grabbers, ClearCheck, ClearDisable, ClearPatience, ClearFree, Cleared, LeftOver,
         Emptied
<1>3. PICK q \in {"clear", "disable", "patience", "freeAll", "lock", "idle", "free"} :
        /\ pc' = [pc EXCEPT ![p] = q]
        /\ q = "free" => contexts' = {}
        /\ q \in {"lock", "idle"} => p # App
  BY <1>2
<1>4. \A r \in Callers : pc'[r] = IF r = p THEN q ELSE pc[r]
  BY <1>3 DEF InterceptInv, TypeOK
<1>5. Locked'
  BY <1>1, <1>4 DEF InterceptInv, Locked, Callers
<1>6. CASE p = App
  <2>1. \A e \in Enablers : pc'[e] = pc[e]
    BY <1>4, <1>6, InterceptAssumption DEF Callers
  <2>2. ~ freed
    BY <1>2, <1>6 DEF InterceptInv, Ending
  <2> QED BY <1>1, <1>2, <1>3, <1>4, <1>5, <1>6, <2>1, <2>2 DEF InterceptInv, Ending, Callers
<1>7. CASE p # App
  <2>1. pc'[App] = pc[App] /\ p \in Enablers
    BY <1>4, <1>7 DEF Callers
  <2>2. "early" \notin broken => pc[App] \notin {"clear", "disable", "patience", "freeAll", "free", "gone"}
    BY <1>2, <2>1 DEF InterceptInv, Ending
  <2> QED BY <1>1, <1>2, <1>5, <2>1, <2>2 DEF InterceptInv, Ending
<1> QED BY <1>5, <1>6, <1>7

\* An enabling thread holds the mutex while it grabs, and does nothing while the
\* platform is deinitialized.
LEMMA EnablerLeaves ==
  ASSUME InterceptInv, NEW e \in Enablers, thread_enable(e)
  PROVE  Locked' /\ Ending'
<1> USE DEF platform, devices, enablers, readers, history, Go
<1>1. CASE clear_grabbers(e)
  BY <1>1, ClearLeaves DEF Callers
<1>2. CASE EnableBegin(e) \/ EnableUsed(e) \/ EnableLock(e) \/ Grab(e) \/ EnableUnlock(e)
  <2>1. /\ pc[e] # "idle" /\ freed' = freed
        /\ broken \subseteq broken' /\ ("early" \in broken' => "early" \in broken)
        /\ \A r \in Callers : r # e => pc'[r] = pc[r]
        /\ lock' \in {lock, e, NoOne}
    BY <1>2 DEF EnableBegin, EnableUsed, EnableLock, Grab, EnableUnlock, InterceptInv, TypeOK
  <2>2. pc'[App] = pc[App]
    BY <2>1, InterceptAssumption DEF Callers
  <2>3. Locked'
    <3>1. CASE EnableBegin(e) \/ EnableUsed(e)
      BY <3>1 DEF EnableBegin, EnableUsed, Cleared, InterceptInv, TypeOK, Locked, Callers
    <3>2. CASE EnableLock(e)
      BY <3>2, InterceptAssumption DEF EnableLock, Enter, InterceptInv, TypeOK, Locked, Callers
    <3>3. CASE Grab(e)
      BY <3>3 DEF Grab, InterceptInv, Locked
    <3>4. CASE EnableUnlock(e)
      <4>1. lock = e /\ pc'[e] = "idle" /\ lock' = NoOne
        BY <3>4 DEF EnableUnlock, InterceptInv, TypeOK, Locked, Callers
      <4> QED BY <2>1, <4>1 DEF InterceptInv, Locked, Callers
    <3> QED BY <1>2, <3>1, <3>2, <3>3, <3>4
  <2>4. "early" \notin broken => pc[App] \notin {"clear", "disable", "patience", "freeAll", "free", "gone"}
    BY <2>1 DEF InterceptInv, Ending
  <2> QED BY <2>1, <2>2, <2>3, <2>4 DEF InterceptInv, Ending
<1> QED BY <1>1, <1>2 DEF thread_enable

\* The platform is freed last, and after that the application calls nothing.
LEMMA AppLeaves ==
  ASSUME InterceptInv, AppStep
  PROVE  Locked' /\ Ending'
<1> USE DEF platform, devices, enablers, readers, history, Go
<1>1. ASSUME NEW b, NEW from \in {"idle", "resetOff", "resetOn"}, NEW to \in {"idle", "resetOn"},
             SetEnabled(b, from, to)
      PROVE  Locked' /\ Ending'
  <2>1. ~ freed /\ UNCHANGED <<lock, freed, broken>>
    BY <1>1 DEF SetEnabled, Enter
  <2>2. pc'[App] \in {"idle", "resetOn"}
    BY <1>1, InterceptAssumption DEF SetEnabled, InterceptInv, TypeOK, Callers
  <2>3. \A e \in Enablers : pc'[e] \in {pc[e], "start"}
    BY <1>1, InterceptAssumption DEF SetEnabled, InterceptInv, TypeOK, Callers
  <2> QED BY <2>1, <2>2, <2>3 DEF InterceptInv, Locked, Ending
<1>2. CASE mcr_intercept_set_enabled \/ ResetOff \/ ResetOn
  BY <1>1, <1>2 DEF mcr_intercept_set_enabled, ResetOff, ResetOn
<1>3. CASE SetGrabs \/ SetBlockable
  <2>1. UNCHANGED <<lock, freed, pc, broken, contexts, tpc>>
    BY <1>3 DEF SetGrabs, SetBlockable
  <2> QED BY <2>1 DEF InterceptInv, Locked, Ending, Running
<1>4. CASE ResetBegin
  <2>1. ~ freed /\ UNCHANGED <<lock, freed, broken>> /\ pc' = [pc EXCEPT ![App] = "resetOff"]
    BY <1>4 DEF ResetBegin, Call, Enter
  <2>2. pc'[App] = "resetOff" /\ \A e \in Enablers : pc'[e] = pc[e]
    BY <2>1, InterceptAssumption DEF InterceptInv, TypeOK, Callers
  <2> QED BY <2>1, <2>2 DEF InterceptInv, Locked, Ending
<1>5. CASE DeinitBegin
  <2>1. ~ freed /\ UNCHANGED <<lock, freed>> /\ pc' = [pc EXCEPT ![App] = "clear"]
        /\ ("early" \notin broken' => \A e \in Enablers : pc[e] = "idle")
    BY <1>5 DEF DeinitBegin, Call, Enter, Callers
  <2>2. pc'[App] = "clear" /\ \A e \in Enablers : pc'[e] = pc[e]
    BY <2>1, InterceptAssumption DEF InterceptInv, TypeOK, Callers
  <2> QED BY <2>1, <2>2 DEF InterceptInv, Locked, Ending
<1>6. CASE DeinitFree
  <2>1. /\ ~ freed /\ lock = NoOne /\ UNCHANGED <<lock, broken, tpc>> /\ contexts' = {}
        /\ pc[App] = "free" /\ pc' = [pc EXCEPT ![App] = "gone"]
    BY <1>6 DEF DeinitFree, Enter
  <2>2. pc'[App] = "gone" /\ \A e \in Enablers : pc'[e] = pc[e]
    BY <2>1, InterceptAssumption DEF InterceptInv, TypeOK, Callers
  <2>3. "early" \notin broken => contexts = {} /\ \A e \in Enablers : pc[e] = "idle"
    BY <2>1 DEF InterceptInv, Ending
  <2>4. "early" \notin broken /\ "freed" \notin broken => Running = {}
    BY <2>1, <2>3 DEF InterceptInv, Data, Apart
  <2>5. Running' = Running
    BY <2>1 DEF Running
  <2>6. Locked'
    BY <2>1, <2>2 DEF InterceptInv, Locked
  <2>7. Ending'
    BY <2>1, <2>2, <2>3, <2>4, <2>5 DEF Ending
  <2> QED BY <2>6, <2>7
<1>7. CASE clear_grabbers(App)
  BY <1>7, ClearLeaves DEF Callers
<1> QED BY <1>2, <1>3, <1>4, <1>5, <1>6, <1>7
        DEF AppStep, mcr_intercept_reset, mcr_intercept_deinitialize

\* The invariant holds at first.
LEMMA InterceptInit == Init => InterceptInv
<1> SUFFICES ASSUME Init PROVE InterceptInv
  OBVIOUS
<1>1. TypeOK
  <2>1. 0 \in 0 .. MaxTries /\ 0 \in 0 .. Budget
    BY InterceptAssumption
  <2> QED BY <2>1 DEF Init, TypeOK, CallerPoints, ReaderPoints
<1>2. Running = {}
  BY DEF Init, Running
<1>3. Locked /\ Housed /\ Data
  <2>1. Locked
    BY DEF Init, Locked, Callers
  <2>2. Housed
    BY <1>2 DEF Init, Housed
  <2>3. NoDangling /\ Listed /\ NoLeak
    BY DEF Init, NoDangling, Listed, NoLeak
  <2>4. Apart /\ OwnFiles
    <3>1. {gc[t] : t \in Running} = {}
      BY <1>2
    <3> QED BY <1>2, <3>1 DEF Init, Apart, OwnFiles
  <2> QED BY <2>1, <2>2, <2>3, <2>4 DEF Data
<1>4. OwnEvents
  BY DEF Init, OwnEvents
<1>5. Ending
  BY <1>2 DEF Init, Ending, Callers
<1> QED BY <1>1, <1>3, <1>4, <1>5 DEF InterceptInv

\* Every step keeps the invariant.
LEMMA InterceptStep == InterceptInv /\ [Next]_vars => InterceptInv'
<1> SUFFICES ASSUME InterceptInv, [Next]_vars PROVE InterceptInv'
  OBVIOUS
<1>1. TypeOK /\ Housed /\ NoDangling
  BY DEF InterceptInv, Data
<1>2. CASE UNCHANGED vars
  <2>1. TypeOK' /\ Housed' /\ Locked' /\ Ending'
    BY <1>2 DEF InterceptInv, vars, platform, devices, enablers, readers, history, TypeOK,
                Housed, Locked, Ending, Running
  <2> QED BY <2>1, StepKeepsData DEF InterceptInv
<1>3. CASE \E t \in Threads : intercept_start(t)
  BY <1>1, <1>3, ReaderTypes, ReaderLeaves, StepKeepsData DEF InterceptInv
<1>4. CASE \E e \in Enablers : thread_enable(e)
  BY <1>1, <1>4, EnablerTypes, EnablerLeaves, StepKeepsData DEF InterceptInv
<1>5. CASE AppStep
  BY <1>1, <1>5, AppTypes, AppLeaves, StepKeepsData DEF InterceptInv
<1> QED BY <1>2, <1>3, <1>4, <1>5 DEF Next, Done

\* In every behaviour, memory, the list of contexts, the files and the threads agree.
THEOREM InterceptInvariant == Spec => []InterceptInv
BY InterceptInit, InterceptStep, PTL DEF Spec

\* Interception keeps its variables' types, whatever the calls and the failures.
THEOREM InterceptTypes == Spec => []TypeOK
BY InterceptInvariant, PTL DEF InterceptInv

\* Until a free-all, each reading thread (intercept_start) has a listed context of its own.
THEOREM EachHasItsContext == Spec => []OneThreadEach
<1>1. InterceptInv => OneThreadEach
  BY DEF InterceptInv, Data, Apart, OneThreadEach
<1> QED BY <1>1, InterceptInvariant, PTL

\* What grab_contexts lists has not been freed, and what is open is listed, even after a
\* free-all (clear_grabbers): no device stays grabbed for ever.
THEOREM ListedIsOwned == Spec => []OwnsContexts
<1>1. InterceptInv => OwnsContexts
  BY DEF InterceptInv, Data, OwnsContexts
<1> QED BY <1>1, InterceptInvariant, PTL

\* Although descriptors are closed under a reader and used again for other devices, the
\* check after the read (read_grabber_loop) lets only events of its own device through.
THEOREM OwnEventsDispatched == Spec => []DispatchesOwn
<1>1. InterceptInv => DispatchesOwn
  BY DEF InterceptInv, OwnEvents, DispatchesOwn
<1> QED BY <1>1, InterceptInvariant, PTL

\* Deinitialization that begins when no enabling thread runs, and that needs no free-all,
\* frees the platform when no reading thread is left.
THEOREM DeinitializedAlone == Spec => []NobodyLeft
<1>1. InterceptInv => NobodyLeft
  BY DEF InterceptInv, Ending, NobodyLeft
<1> QED BY <1>1, InterceptInvariant, PTL

-----------------------------------------------------------------------------
(* Devices that are grabbed once.                                          *)

\* Enabling and disabling threads do not overlap: the application waits for one to end
\* before it calls again.
OneAtATime == \A d, e \in Enablers : pc[d] # "idle" /\ pc[e] # "idle" => d = e

\* Only a thread that enables goes on to grab.
Enabling == \A e \in Enablers : pc[e] \in {"lock", "grab"} => enable[e]

\* Contexts have paths of their own, which are not to be grabbed again; a thread grabs
\* when the list has been cleared; and a platform that is freed has no device open.
GrabbedApart ==
  broken = {} =>
    /\ \A k, l \in Allocated : memory[k].path = memory[l].path => k = l
    /\ \A e \in Enablers : pc[e] = "lock" => contexts = {}
    /\ \A e \in Enablers : pc[e] = "grab" => \A k \in Allocated : memory[k].path \notin todo[e]
    /\ freed => \A f \in Fds : file[f] = NoFile

\* A step that grabs nothing.
Shrinks ==
  /\ contexts' \subseteq contexts
  /\ \A k \in Contexts : memory'[k] # Free => memory[k] # Free /\ memory'[k].path = memory[k].path
  /\ broken \subseteq broken'
  /\ freed => file' = file
  /\ freed' /\ ~ freed => file' = file /\ pc[App] = "free"

\* How a thread that enables goes on.
Course(e) ==
  /\ pc'[e] = "lock" => pc[e] = "lock" \/ contexts' = {}
  /\ pc'[e] = "grab" => \/ pc[e] = "grab" /\ todo'[e] \subseteq todo[e]
                        \/ pc[e] = "lock" /\ ~ freed /\ memory' = memory
  /\ pc'[e] \in {"lock", "grab"} => enable'[e]
  /\ ~ enable[e] /\ pc[e] # "idle" /\ pc'[e] = "idle" => contexts' = {}

\* A thread that takes no step stays where it is.
LEMMA OthersStay ==
  ASSUME Enabling, NEW e \in Enablers,
         pc'[e] \in {pc[e], "start"}, pc[e] # "idle" => pc'[e] = pc[e] /\ enable'[e] = enable[e],
         todo'[e] \subseteq todo[e]
  PROVE  Course(e)
BY DEF Enabling, Course

\* Reading threads grab nothing.
LEMMA ReaderShrinks ==
  ASSUME InterceptInv, NEW t \in Threads, intercept_start(t)
  PROVE  Shrinks /\ UNCHANGED enablers
<1> USE DEF platform, devices, readers, history, TGo
<1>1. ASSUME NEW f, Release(t, f), Enter PROVE Shrinks /\ UNCHANGED enablers
  BY <1>1 DEF Release, Enter, Delisted, Shrinks, InterceptInv, TypeOK
<1>2. ASSUME Enter, Open(gc[t]), memory[gc[t]] # Free, tpc[t] = "start",
             UNCHANGED <<platform, enablers, history>>
      PROVE  Shrinks /\ UNCHANGED enablers
  <2>1. gc[t] \in Contexts
    BY <1>2 DEF InterceptInv, Housed, Running
  <2>2. memory[gc[t]] \in Context
    BY <1>2, <2>1 DEF InterceptInv, TypeOK
  <2>3. PICK f \in Fds : memory' = [memory EXCEPT ![gc[t]].fd = f]
    BY <1>2 DEF Open
  <2>4. \A k \in Contexts : k # gc[t] => memory'[k] = memory[k]
    BY <2>3 DEF InterceptInv, TypeOK
  <2>5. memory'[gc[t]] = [memory[gc[t]] EXCEPT !.fd = f]
    BY <2>1, <2>3 DEF InterceptInv, TypeOK
  <2>6. memory'[gc[t]].path = memory[gc[t]].path
    BY <2>2, <2>5 DEF Context
  <2> QED BY <1>2, <2>4, <2>6 DEF Shrinks, Enter
<1>3. CASE Start(t)
  BY <1>1, <1>2, <1>3 DEF Start, Shrinks
<1>4. CASE Leave(t)
  BY <1>1, <1>4 DEF Leave
<1>5. CASE ReadBegin(t) \/ Poll(t) \/ Read(t) \/ Check(t) \/ Dispatch(t)
  BY <1>5 DEF ReadBegin, Poll, Read, Check, Dispatch, Shrinks
<1> QED BY <1>3, <1>4, <1>5 DEF intercept_start

\* clear_grabbers closes and frees, and returns with an empty list.
LEMMA ClearShrinks ==
  ASSUME InterceptInv, NEW p \in Callers, clear_grabbers(p)
  PROVE  /\ Shrinks /\ UNCHANGED <<enable, todo>> /\ pc[p] \in {"clear", "disable", "patience", "freeAll"}
         /\ \E q \in CallerPoints : /\ pc' = [pc EXCEPT ![p] = q] /\ q # "grab"
                                    /\ q \in {"lock", "idle"} => contexts' = {} /\ q = Cleared(p)
<1> USE DEF platform, devices, enablers, readers, history, Go
<1>1. CASE ClearDisable(p)
  <2>1. \A k \in Contexts : memory'[k] # Free => memory[k] # Free /\ memory'[k].path = memory[k].path
    <3> SUFFICES ASSUME NEW k \in Contexts, memory'[k] # Free
                 PROVE  memory[k] # Free /\ memory'[k].path = memory[k].path
      OBVIOUS
    <3>1. CASE k \notin contexts
      BY <1>1, <3>1 DEF ClearDisable, ClosedMemory
    <3>2. CASE k \in contexts
      <4>1. memory[k] \in Context /\ memory'[k] = [memory[k] EXCEPT !.fd = Closed] /\ memory[k] # Free
        BY <1>1, <3>2 DEF ClearDisable, ClosedMemory, InterceptInv, TypeOK, Data, NoDangling
      <4> QED BY <4>1 DEF Context
    <3> QED BY <3>1, <3>2
  <2> QED BY <1>1, <2>1 DEF ClearDisable, Shrinks, CallerPoints, Enter
<1>2. CASE ClearFree(p)
  BY <1>2 DEF ClearFree, Shrinks, CallerPoints, Cleared, Emptied, Enter
<1>3. CASE ClearCheck(p)
  BY <1>3 DEF ClearCheck, Shrinks, CallerPoints
<1>4. CASE ClearPatience(p)
  BY <1>4 DEF ClearPatience, LeftOver, Shrinks, CallerPoints, Cleared
<1> QED BY <1>1, <1>2, <1>3, <1>4 DEF clear_grabbers

\* The calls of the application grab nothing themselves.
LEMMA AppShrinks ==
  ASSUME InterceptInv, AppStep
  PROVE  /\ Shrinks /\ todo' = todo
         /\ \A e \in Enablers : /\ pc'[e] \in {pc[e], "start"}
                                /\ pc[e] # "idle" => pc'[e] = pc[e] /\ enable'[e] = enable[e]
<1> USE DEF platform, devices, enablers, readers, history, Go
<1>1. ASSUME NEW b, NEW from, NEW to, SetEnabled(b, from, to)
      PROVE  /\ Shrinks /\ todo' = todo
             /\ \A e \in Enablers : /\ pc'[e] \in {pc[e], "start"}
                                    /\ pc[e] # "idle" => pc'[e] = pc[e] /\ enable'[e] = enable[e]
  <2>1. Shrinks /\ todo' = todo
    BY <1>1 DEF SetEnabled, Shrinks
  <2>2. \A e \in Enablers : /\ pc'[e] \in {pc[e], "start"}
                            /\ pc[e] # "idle" => pc'[e] = pc[e] /\ enable'[e] = enable[e]
    BY <1>1, InterceptAssumption DEF SetEnabled, InterceptInv, TypeOK, Callers
  <2> QED BY <2>1, <2>2
<1>2. ASSUME ResetBegin \/ SetGrabs \/ SetBlockable \/ DeinitBegin \/ DeinitFree
      PROVE  Shrinks /\ todo' = todo /\ enable' = enable /\ \A e \in Enablers : pc'[e] = pc[e]
  <2>1. Shrinks /\ todo' = todo /\ enable' = enable
    BY <1>2 DEF ResetBegin, SetGrabs, SetBlockable, DeinitBegin, DeinitFree, Shrinks
  <2>2. \A e \in Enablers : pc'[e] = pc[e]
    BY <1>2, InterceptAssumption
       DEF ResetBegin, SetGrabs, SetBlockable, DeinitBegin, DeinitFree, InterceptInv, TypeOK, Callers
  <2> QED BY <2>1, <2>2
<1>3. CASE clear_grabbers(App)
  <2>1. /\ Shrinks /\ UNCHANGED <<enable, todo>>
        /\ \E q \in CallerPoints : pc' = [pc EXCEPT ![App] = q]
    BY <1>3, ClearShrinks DEF Callers
  <2>2. \A e \in Enablers : pc'[e] = pc[e]
    BY <2>1, InterceptAssumption DEF InterceptInv, TypeOK, Callers
  <2> QED BY <2>1, <2>2
<1> QED BY <1>1, <1>2, <1>3
        DEF AppStep, mcr_intercept_set_enabled, mcr_intercept_reset, ResetOff, ResetOn,
            mcr_intercept_deinitialize

\* A thread that enables or disables grabs nothing but in Grab, and clears before it does.
LEMMA EnablerCourse ==
  ASSUME InterceptInv, Enabling, NEW d \in Enablers, thread_enable(d)
  PROVE  /\ Grab(d) \/ Shrinks
         /\ \A e \in Enablers : Course(e)
<1> USE DEF platform, devices, enablers, readers, history, Go
<1>1. CASE clear_grabbers(d)
  <2>1. /\ Shrinks /\ UNCHANGED <<enable, todo>> /\ pc[d] \in {"clear", "disable", "patience", "freeAll"}
        /\ \E q \in CallerPoints : /\ pc' = [pc EXCEPT ![d] = q] /\ q # "grab"
                                   /\ q \in {"lock", "idle"} => contexts' = {} /\ q = Cleared(d)
    BY <1>1, ClearShrinks DEF Callers
  <2>2. PICK q \in CallerPoints : /\ pc' = [pc EXCEPT ![d] = q] /\ q # "grab"
                                  /\ q \in {"lock", "idle"} => contexts' = {} /\ q = Cleared(d)
    BY <2>1
  <2>3. pc'[d] = q /\ \A e \in Enablers : e # d => pc'[e] = pc[e]
    BY <2>2 DEF InterceptInv, TypeOK, Callers
  <2>4. Course(d)
    BY <2>1, <2>2, <2>3, InterceptAssumption DEF Course, Cleared
  <2>5. \A e \in Enablers : e # d => Course(e)
    BY <2>1, <2>3, OthersStay DEF Shrinks
  <2> QED BY <2>1, <2>4, <2>5
<1>2. CASE EnableBegin(d) \/ EnableUsed(d) \/ EnableLock(d) \/ EnableUnlock(d)
  <2>1. /\ UNCHANGED <<contexts, freed, memory, file, broken, enable>>
        /\ \A e \in Enablers : e # d => pc'[e] = pc[e] /\ todo'[e] = todo[e]
    BY <1>2 DEF EnableBegin, EnableUsed, EnableLock, EnableUnlock, InterceptInv, TypeOK, Callers
  <2>2. Shrinks
    BY <2>1 DEF Shrinks
  <2>3. Course(d)
    <3>1. CASE EnableBegin(d)
      BY <3>1 DEF EnableBegin, Course, InterceptInv, TypeOK, Callers
    <3>2. CASE EnableUsed(d)
      BY <2>1, <3>2, InterceptAssumption DEF EnableUsed, Clears, Cleared, Course, InterceptInv, TypeOK, Callers
    <3>3. CASE EnableLock(d)
      BY <2>1, <3>3 DEF EnableLock, Enter, Enabling, Course, InterceptInv, TypeOK, Callers
    <3>4. CASE EnableUnlock(d)
      BY <2>1, <3>4 DEF EnableUnlock, Enabling, Course, InterceptInv, TypeOK, Callers
    <3> QED BY <1>2, <3>1, <3>2, <3>3, <3>4
  <2>4. \A e \in Enablers : e # d => Course(e)
    BY <2>1, OthersStay
  <2> QED BY <2>2, <2>3, <2>4
<1>3. CASE Grab(d)
  <2>1. UNCHANGED <<pc, enable>> /\ pc[d] = "grab"
    BY <1>3 DEF Grab
  <2>2. \A e \in Enablers : todo'[e] \subseteq todo[e]
    BY <1>3 DEF Grab, InterceptInv, TypeOK
  <2>3. \A e \in Enablers : Course(e)
    BY <2>1, <2>2 DEF Course, Enabling
  <2> QED BY <1>3, <2>3
<1> QED BY <1>1, <1>2, <1>3 DEF thread_enable

\* So does every step.
LEMMA StepCourse ==
  ASSUME InterceptInv, Enabling, [Next]_vars
  PROVE  /\ Shrinks \/ \E e \in Enablers : Grab(e)
         /\ \A e \in Enablers : Course(e)
<1>1. CASE UNCHANGED vars
  BY <1>1, OthersStay DEF vars, platform, devices, enablers, history, Shrinks
<1>2. CASE \E t \in Threads : intercept_start(t)
  <2>1. Shrinks /\ UNCHANGED <<pc, enable, todo>>
    BY <1>2, ReaderShrinks DEF enablers
  <2> QED BY <2>1, OthersStay DEF Shrinks
<1>3. CASE \E e \in Enablers : thread_enable(e)
  BY <1>3, EnablerCourse
<1>4. CASE AppStep
  <2>1. /\ Shrinks /\ todo' = todo
        /\ \A e \in Enablers : /\ pc'[e] \in {pc[e], "start"}
                               /\ pc[e] # "idle" => pc'[e] = pc[e] /\ enable'[e] = enable[e]
    BY <1>4, AppShrinks
  <2> QED BY <2>1, OthersStay DEF Shrinks
<1> QED BY <1>1, <1>2, <1>3, <1>4 DEF Next, Done

\* The path a thread grabs is taken off its list, and nobody else grabs meanwhile.
LEMMA GrabApart ==
  ASSUME InterceptInv, OneAtATime, GrabbedApart, NEW e \in Enablers, Grab(e)
  PROVE  GrabbedApart'
<1> SUFFICES ASSUME broken' = {} PROVE GrabbedApart'
  BY DEF GrabbedApart
<1>1. pc[e] = "grab" /\ ~ freed /\ UNCHANGED <<pc, freed, file>>
  BY InterceptAssumption DEF Grab, InterceptInv, Locked
<1>2. \A d \in Enablers : pc[d] \in {"lock", "grab"} => d = e
  BY <1>1 DEF OneAtATime
<1>3. broken = {}
  BY DEF Grab
<1>4. \A d \in Enablers : pc'[d] # "lock"
  BY <1>1, <1>2
<1>5. CASE UNCHANGED <<tpc, gc, memory, contexts, broken>> /\ todo' = [todo EXCEPT ![e] = {}]
  <2>1. Allocated' = Allocated /\ todo'[e] = {}
    BY <1>5 DEF Allocated, InterceptInv, TypeOK
  <2> QED BY <1>1, <1>2, <1>3, <1>4, <1>5, <2>1 DEF GrabbedApart
<1>6. CASE \E next \in todo[e], k \in Contexts \ Allocated :
             /\ \E path \in Found(e, next) : memory' = [memory EXCEPT ![k] = NewContext(path)]
             /\ todo' = [todo EXCEPT ![e] = @ \ {next}]
             /\ broken' = IF fresh[e] THEN broken ELSE broken \cup {"stale"}
  <2>1. PICK next \in todo[e], k \in Contexts \ Allocated :
             /\ memory' = [memory EXCEPT ![k] = NewContext(next)]
             /\ todo' = [todo EXCEPT ![e] = @ \ {next}]
    BY <1>6 DEF Found
  <2>2. todo'[e] = todo[e] \ {next}
    BY <2>1 DEF InterceptInv, TypeOK
  <2>3. memory'[k].path = next /\ \A l \in Contexts : l # k => memory'[l] = memory[l]
    BY <2>1 DEF InterceptInv, TypeOK, NewContext
  <2>4. \A l \in Allocated' : l = k \/ (l \in Allocated /\ memory'[l].path = memory[l].path)
    BY <2>3 DEF Allocated
  <2>5. \A l \in Allocated : memory[l].path \notin todo[e]
    BY <1>1, <1>3 DEF GrabbedApart
  <2>6. \A l, m \in Allocated' : memory'[l].path = memory'[m].path => l = m
    BY <1>3, <2>1, <2>3, <2>4, <2>5 DEF GrabbedApart
  <2>7. \A l \in Allocated' : memory'[l].path \notin todo'[e]
    BY <2>2, <2>3, <2>4, <2>5
  <2> QED BY <1>1, <1>2, <1>4, <2>6, <2>7 DEF GrabbedApart
<1> QED BY <1>5, <1>6 DEF Grab

\* Steps that grab nothing keep the paths apart.
LEMMA ShrinkApart ==
  ASSUME InterceptInv, GrabbedApart, Shrinks, \A e \in Enablers : Course(e)
  PROVE  GrabbedApart'
<1> SUFFICES ASSUME broken' = {} PROVE GrabbedApart'
  BY DEF GrabbedApart
<1>1. broken = {}
  BY DEF Shrinks
<1>2. \A k \in Allocated' : k \in Allocated /\ memory'[k].path = memory[k].path
  BY DEF Shrinks, Allocated
<1>3. \A e \in Enablers : pc'[e] = "lock" => contexts' = {}
  BY <1>1 DEF Shrinks, Course, GrabbedApart
<1>4. ASSUME NEW e \in Enablers, pc'[e] = "grab", NEW k \in Allocated'
      PROVE  memory'[k].path \notin todo'[e]
  <2>1. CASE pc[e] = "grab" /\ todo'[e] \subseteq todo[e]
    BY <1>1, <1>2, <2>1 DEF GrabbedApart
  <2>2. CASE pc[e] = "lock" /\ ~ freed
    BY <1>1, <1>2, <2>2 DEF GrabbedApart, Allocated, InterceptInv, Data, Listed
  <2> QED BY <1>4, <2>1, <2>2 DEF Course
<1>5. freed' => \A f \in Fds : file'[f] = NoFile
  <2>1. CASE freed
    BY <1>1, <2>1 DEF Shrinks, GrabbedApart
  <2>2. CASE ~ freed /\ freed'
    <3>1. contexts = {} /\ file' = file
      BY <1>1, <2>2 DEF Shrinks, InterceptInv, Ending
    <3> QED BY <2>2, <3>1 DEF InterceptInv, Data, NoLeak
  <2> QED BY <2>1, <2>2
<1>6. \A k, l \in Allocated' : memory'[k].path = memory'[l].path => k = l
  BY <1>1, <1>2 DEF GrabbedApart
<1> QED BY <1>3, <1>4, <1>5, <1>6 DEF GrabbedApart

\* Only enabling threads grab, in every behaviour.
LEMMA OnlyEnabling == Spec => []Enabling
<1>1. Init => Enabling
  BY DEF Init, Enabling, Callers
<1>2. InterceptInv /\ Enabling /\ [Next]_vars => Enabling'
  BY StepCourse DEF Course, Enabling
<1> QED BY <1>1, <1>2, InterceptInvariant, PTL DEF Spec

\* "Do not grab what is already grabbed" (thread_enable): as long as enabling and
\* disabling threads do not overlap, clear_grabbers needs no free-all, and the set of
\* grabs does not change under a thread that reads it, no device is open twice.
THEOREM GrabbedOnce == Spec /\ []OneAtATime => []NoDoubleGrab
<1>1. Init => GrabbedApart
  BY DEF Init, GrabbedApart, Allocated, Callers
<1>2. InterceptInv /\ Enabling /\ OneAtATime /\ GrabbedApart /\ [Next]_vars => GrabbedApart'
  BY StepCourse, GrabApart, ShrinkApart
<1>3. InterceptInv /\ GrabbedApart => NoDoubleGrab
  <2> SUFFICES ASSUME InterceptInv, GrabbedApart, broken = {}, NEW f \in Fds, NEW g \in Fds,
                      f # g, file[f] # NoFile, file[g] # NoFile
               PROVE  file[f].path # file[g].path
    BY DEF NoDoubleGrab
  <2>1. ~ freed
    BY DEF GrabbedApart
  <2>2. PICK k \in contexts, l \in contexts : memory[k].fd = f /\ memory[l].fd = g
    BY <2>1 DEF InterceptInv, Data, NoLeak
  <2>3. k # l /\ k \in Allocated /\ l \in Allocated
    BY <2>2 DEF InterceptInv, TypeOK, Data, NoDangling, Allocated
  <2>4. memory[k].path # memory[l].path
    BY <2>3 DEF GrabbedApart
  <2>5. \A c \in contexts : \E t \in Running : gc[t] = c
    BY <2>1 DEF InterceptInv, Data, Apart
  <2>6. file[f].path = memory[k].path /\ file[g].path = memory[l].path
    BY <2>2, <2>5, InterceptAssumption DEF InterceptInv, Data, OwnFiles
  <2> QED BY <2>4, <2>6
<1> QED BY <1>1, <1>2, <1>3, OnlyEnabling, InterceptInvariant, PTL DEF Spec

\* When a thread that disables ends, whichever other threads enable meanwhile, the list of
\* contexts is empty in that moment (thread_enable, clear_grabbers).
THEOREM DisablesAll == Spec => DisableComplete
<1>1. ASSUME InterceptInv, Enabling, [Next]_vars
      PROVE  [\A e \in Enablers : ~ enable[e] /\ pc[e] # "idle" /\ pc'[e] = "idle" => contexts' = {}]_vars
  BY <1>1, StepCourse DEF Course
<1> QED BY <1>1, OnlyEnabling, InterceptInvariant, PTL DEF Spec, DisableComplete
=============================================================================
