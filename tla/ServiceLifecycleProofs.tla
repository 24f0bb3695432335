----------------------- MODULE ServiceLifecycleProofs -----------------------
(***************************************************************************)
(* Proofs about ServiceLifecycle, for any number of starts.                *)
(***************************************************************************)
EXTENDS ServiceLifecycle, TLAPS

\* A start that was begun may still create its loop.
StartsLeft == host = "begin" => starts < MaxStarts

TypeInv == TypeOK /\ StartsLeft

\* Type correctness of the initial states ...
LEMMA InitTypeInv == Init => TypeInv
<1> SUFFICES ASSUME Init PROVE TypeInv
  OBVIOUS
<1>1. impl \in BOOLEAN /\ twice \in BOOLEAN /\ exit \in BOOLEAN /\ missed \in BOOLEAN
      /\ wild \in BOOLEAN /\ observer \in BOOLEAN
  BY Zenon DEF Init
<1> QED
  BY <1>1, MaxStartsAssumption DEF Init, TypeInv, TypeOK, StartsLeft

\* ... and of one step.
LEMMA TypeInvInductive == TypeInv /\ [Next]_vars => TypeInv'
<1> SUFFICES ASSUME TypeInv, [Next]_vars PROVE TypeInv'
  OBVIOUS
<1> USE MaxStartsAssumption DEF TypeInv, TypeOK, StartsLeft, loopVars, threadVars
<1>1. CASE GetInstance
  <2>1. impl' \in BOOLEAN
    BY <1>1, Zenon DEF GetInstance
  <2> QED
    BY <1>1, <2>1 DEF GetInstance
<1>2. CASE DestroyInstance
  BY <1>2 DEF DestroyInstance
<1>3. CASE StartFailsEarly
  BY <1>3 DEF StartFailsEarly
<1>4. CASE StartLoop
  BY <1>4 DEF StartLoop
<1>5. ASSUME NEW p \in Port, Listen(p) PROVE TypeInv'
  <2>1. host' \in {"ssdp", "local", "install", "stop"}
    BY <1>5 DEF Listen, Port
  <2>2. ports' \in [Port -> {"free", "new", "served", "leaked", "taken"}]
    BY <1>5 DEF Listen
  <2> QED
    BY <1>5, <2>1, <2>2 DEF Listen
<1>6. CASE Install
  BY <1>6 DEF Install
<1>7. ASSUME NEW created \in SUBSET Thread, NEW garbage \in SUBSET (Thread \ created),
             CreateThreads(created, garbage)
      PROVE  TypeInv'
  <2>1. twice' \in BOOLEAN
    <3>1. CASE twice' = twice
      BY <3>1
    <3>2. CASE twice' = TRUE
      BY <3>2, Zenon
    <3> QED
      BY <1>7, <3>1, <3>2 DEF CreateThreads
  <2>2. handle' \in [Thread -> {"zero", "set", "garbage"}]
    BY <1>7 DEF CreateThreads
  <2>3. thread' \in [Thread -> {"none", "created", "running", "tail", "ended"}]
    BY <1>7 DEF CreateThreads
  <2> QED
    BY <1>7, <2>1, <2>2, <2>3 DEF CreateThreads
<1>8. CASE TellExit
  <2>1. exit' \in BOOLEAN
    BY <1>8, Zenon DEF TellExit
  <2> QED
    BY <1>8, <2>1 DEF TellExit
<1>9. CASE QuitLoop
  <2>1. missed' \in BOOLEAN /\ quit' \subseteq 1..MaxStarts
    BY <1>9 DEF QuitLoop
  <2> QED
    BY <1>9, <2>1 DEF QuitLoop
<1>10. CASE JoinTest
  <2>1. host' \in {"wait", "test", "release"} /\ target' \in 1..3
    BY <1>10 DEF JoinTest, NextJoin
  <2> QED
    BY <1>10, <2>1 DEF JoinTest
<1>11. CASE JoinWait
  <2>1. host' \in {"wait", "test", "release"} /\ target' \in 1..3
    BY <1>11 DEF JoinWait, NextJoin
  <2>2. handle' \in [Thread -> {"zero", "set", "garbage"}]
    BY <1>11 DEF JoinWait
  <2>3. wild' \in BOOLEAN
    <3>1. CASE wild' = wild
      BY <3>1
    <3>2. CASE wild' = TRUE
      BY <3>2, Zenon
    <3> QED
      BY <1>11, <3>1, <3>2 DEF JoinWait
  <2> QED
    BY <1>11, <2>1, <2>2, <2>3 DEF JoinWait
<1>12. CASE Release
  <2>1. twice' \in BOOLEAN
    BY <1>12, Zenon DEF Release
  <2> QED
    BY <1>12, <2>1 DEF Release
<1>13. CASE DeleteImpl
  <2>1. impl' \in BOOLEAN /\ exit' \in BOOLEAN /\ observer' \in BOOLEAN
    BY <1>13, Zenon DEF DeleteImpl
  <2> QED
    BY <1>13, <2>1 DEF DeleteImpl
<1>14. CASE MainEnters
  BY <1>14 DEF MainEnters
<1>15. ASSUME NEW t \in Thread, LeaveLoop(t) PROVE TypeInv'
  BY <1>15 DEF LeaveLoop
<1>16. ASSUME NEW t \in Thread, EndThread(t) PROVE TypeInv'
  <2>1. wild' \in BOOLEAN
    <3>1. CASE wild' = wild
      BY <3>1
    <3>2. CASE wild' = TRUE
      BY <3>2, Zenon
    <3> QED
      BY <1>16, <3>1, <3>2 DEF EndThread
  <2> QED
    BY <1>16, <2>1 DEF EndThread
<1>17. ASSUME NEW t \in Thread, StragglerEnds(t) PROVE TypeInv'
  <2>1. wild' \in BOOLEAN
    <3>1. CASE wild' = wild
      BY <3>1
    <3>2. CASE wild' = TRUE
      BY <3>2, Zenon
    <3> QED
      BY <1>17, <3>1, <3>2 DEF StragglerEnds
  <2> QED
    BY <1>17, <2>1 DEF StragglerEnds
<1>18. ASSUME NEW p \in Port, OtherProcess(p) PROVE TypeInv'
  BY <1>18 DEF OtherProcess
<1>20. CASE SetService
  <2>1. observer' \in BOOLEAN
    BY <1>20, Zenon DEF SetService
  <2> QED
    BY <1>20, <2>1 DEF SetService
<1>19. CASE UNCHANGED vars
  BY <1>19 DEF vars
<1> QED
  BY <1>1, <1>2, <1>3, <1>4, <1>5, <1>6, <1>7, <1>8, <1>9, <1>10, <1>11, <1>12, <1>13,
     <1>14, <1>15, <1>16, <1>17, <1>18, <1>19, <1>20 DEF Next, HostRuns, ThreadRuns

\* Type correctness: no start, failure, stop or thread leaves a variable of the
\* life cycle ill typed, and never more loops are created than starts allow.
THEOREM LifecycleTypeCorrect == Spec => []TypeOK
<1>1. TypeInv => TypeOK
  BY DEF TypeInv
<1> QED
  BY <1>1, InitTypeInv, TypeInvInductive, PTL DEF Spec

-----------------------------------------------------------------------------
(***************************************************************************)
(* What a start has achieved at each of its places: the loop is a new one  *)
(* that nobody has told to quit, the ports are held one after the other,   *)
(* and the threads are not told to exit.  A second start of a running      *)
(* service cannot get past the first port, which the service holds itself. *)
(***************************************************************************)
LoopIsNew ==
  /\ mainLoop <= starts
  /\ \A l \in quit : l <= starts
  /\ host \in {"rest", "ssdp", "local", "install", "create", "started"} =>
       mainLoop # 0 /\ mainLoop \notin quit
PortsInOrder ==
  /\ host \in {"ssdp", "local", "install"} => ports["rest"] = "new"
  /\ host \in {"local", "install"} => ports["ssdp"] = "new"
  /\ host = "install" => ports["local"] = "new"
  /\ host = "create" => \A p \in Port : ports[p] = "served"
NotToldToExit ==
  host \in {"idle", "begin", "rest", "ssdp", "local", "install", "create", "started"} => ~exit
RunsTheLoop == impl /\ host \in {"started", "idle"} /\ thread["main"] = "running" => runs = mainLoop

UpInv ==
  /\ LoopIsNew
  /\ PortsInOrder
  /\ NotToldToExit
  /\ RunsTheLoop
  /\ UpMeansServing

\* UpInv is inductive, relative to TypeInv.
LEMMA UpInductive == TypeInv /\ UpInv /\ [Next]_vars => UpInv'
<1> SUFFICES ASSUME TypeInv, UpInv, [Next]_vars PROVE UpInv'
  OBVIOUS
<1> USE MaxStartsAssumption DEF TypeInv, TypeOK, UpInv, LoopIsNew, PortsInOrder,
        NotToldToExit, RunsTheLoop, UpMeansServing, Alive, loopVars, threadVars
<1>0. ASSUME UNCHANGED <<loopVars, exit, ports>>,
             host' \in {"stop", "test", "wait", "release"}
      PROVE  UpInv'
  BY <1>0
<1>1. CASE GetInstance
  BY <1>1 DEF GetInstance
<1>2. CASE DestroyInstance
  BY <1>2, <1>0 DEF DestroyInstance
<1>3. CASE StartFailsEarly
  BY <1>3, <1>0 DEF StartFailsEarly
<1>4. CASE StartLoop
  BY <1>4 DEF StartLoop
<1>5. ASSUME NEW p \in Port, Listen(p) PROVE UpInv'
  <2>1. CASE ports[p] = "free"
    BY <1>5, <2>1 DEF Listen, Port
  <2>2. CASE ports[p] # "free"
    BY <1>5, <2>2 DEF Listen, Port
  <2> QED
    BY <2>1, <2>2
<1>6. CASE Install
  BY <1>6 DEF Install, Port
<1>7. ASSUME NEW created \in SUBSET Thread, NEW garbage \in SUBSET (Thread \ created),
             CreateThreads(created, garbage)
      PROVE  UpInv'
  <2>1. CASE created \cup garbage = Thread
    BY <1>7, <2>1 DEF CreateThreads, Thread
  <2>2. CASE created \cup garbage # Thread
    BY <1>7, <2>2, <1>0 DEF CreateThreads
  <2> QED
    BY <2>1, <2>2
<1>8. CASE TellExit
  BY <1>8 DEF TellExit
<1>9. CASE QuitLoop
  BY <1>9 DEF QuitLoop
<1>10. CASE JoinTest
  BY <1>10, <1>0 DEF JoinTest, NextJoin
<1>11. CASE JoinWait
  BY <1>11, <1>0 DEF JoinWait, NextJoin
<1>12. CASE Release
  BY <1>12 DEF Release
<1>13. CASE DeleteImpl
  BY <1>13 DEF DeleteImpl
<1>14. CASE MainEnters
  BY <1>14 DEF MainEnters, Thread
<1>15. ASSUME NEW t \in Thread, LeaveLoop(t) PROVE UpInv'
  <2>1. ~(impl /\ host \in {"started", "idle"})
    BY <1>15 DEF LeaveLoop, Thread
  <2> QED
    BY <1>15, <2>1 DEF LeaveLoop
<1>16. ASSUME NEW t \in Thread, EndThread(t) PROVE UpInv'
  BY <1>16 DEF EndThread
<1>17. ASSUME NEW t \in Thread, StragglerEnds(t) PROVE UpInv'
  BY <1>17 DEF StragglerEnds
<1>18. ASSUME NEW p \in Port, OtherProcess(p) PROVE UpInv'
  BY <1>18 DEF OtherProcess, Port
<1>20. CASE SetService
  BY <1>20 DEF SetService
<1>19. CASE UNCHANGED vars
  BY <1>19 DEF vars
<1> QED
  BY <1>1, <1>2, <1>3, <1>4, <1>5, <1>6, <1>7, <1>8, <1>9, <1>10, <1>11, <1>12, <1>13,
     <1>14, <1>15, <1>16, <1>17, <1>18, <1>19, <1>20 DEF Next, HostRuns, ThreadRuns

\* A service that is up holds its ports, and its threads are alive, have their
\* handles and were not told to leave, whatever starts failed before; a thread
\* that is missing is one that pthread_create failed to create, and whose handle
\* is not 0.
THEOREM UpServes == Spec => []UpMeansServing
<1>1. Init => UpInv
  BY DEF Init, UpInv, LoopIsNew, PortsInOrder, NotToldToExit, RunsTheLoop, UpMeansServing
<1>2. UpInv => UpMeansServing
  BY DEF UpInv
<1> QED
  BY <1>1, <1>2, InitTypeInv, TypeInvInductive, UpInductive, PTL DEF Spec

-----------------------------------------------------------------------------
(***************************************************************************)
(* The stop.  A thread clears its handle when it leaves its loop and not   *)
(* before, so that the threads up to the one being joined have left theirs *)
(* whether they were joined or passed over.                                *)
(***************************************************************************)
AliveHasHandle == \A t \in Thread : Alive(t) => handle[t] = "set"
GarbageOfNone == \A t \in Thread : handle[t] = "garbage" => thread[t] = "none"
JoinedHaveLeft ==
  host \in {"test", "wait"} => \A i \in 1..3 : i < target => ~Alive(Order[i])
NoneIsIdle == ~impl => host = "idle"

StopInv ==
  AliveHasHandle /\ GarbageOfNone /\ JoinedHaveLeft /\ NoneIsIdle /\ ReleasedAfterTheLoops

\* The thread at which the host is does not run: on to the next one.
LEMMA JoinedOne ==
  ASSUME TypeInv, StopInv, host \in {"test", "wait"}, NextJoin, ~Alive(Order[target]),
         UNCHANGED <<impl, ports, thread>>, AliveHasHandle', GarbageOfNone'
  PROVE  StopInv'
<1> USE DEF TypeInv, TypeOK, StopInv, JoinedHaveLeft, NoneIsIdle, ReleasedAfterTheLoops, Alive,
            Order
<1>1. CASE target < 3
  <2>1. host' = "test" /\ target' = target + 1
    BY <1>1 DEF NextJoin
  <2> QED
    BY <1>1, <2>1
<1>2. CASE target = 3
  <2>1. host' = "release"
    BY <1>2 DEF NextJoin
  <2>2. \A t \in Thread : ~Alive(t)
    BY <1>2 DEF Thread
  <2> QED
    BY <2>1, <2>2
<1> QED
  BY <1>1, <1>2

\* StopInv is inductive, relative to TypeInv.
LEMMA StopInductive == TypeInv /\ StopInv /\ [Next]_vars => StopInv'
<1> SUFFICES ASSUME TypeInv, StopInv, [Next]_vars PROVE StopInv'
  OBVIOUS
<1> USE DEF TypeInv, TypeOK, StopInv, AliveHasHandle, GarbageOfNone, JoinedHaveLeft, NoneIsIdle,
        ReleasedAfterTheLoops, Alive, loopVars, threadVars
<1>21. \A i \in 1..3 : Order[i] \in Thread
  BY DEF Order, Thread
<1>1. CASE GetInstance
  BY <1>1 DEF GetInstance
<1>2. CASE DestroyInstance
  BY <1>2 DEF DestroyInstance
<1>3. CASE StartFailsEarly
  BY <1>3 DEF StartFailsEarly
<1>4. CASE StartLoop
  BY <1>4 DEF StartLoop
<1>5. ASSUME NEW p \in Port, Listen(p) PROVE StopInv'
  <2>1. host' \in {"ssdp", "local", "install", "stop"} /\ host # "idle"
    BY <1>5 DEF Listen, Port
  <2> QED
    BY <1>5, <2>1 DEF Listen
<1>6. CASE Install
  BY <1>6 DEF Install
<1>7. ASSUME NEW created \in SUBSET Thread, NEW garbage \in SUBSET (Thread \ created),
             CreateThreads(created, garbage)
      PROVE  StopInv'
  BY <1>7 DEF CreateThreads
<1>8. CASE TellExit
  BY <1>8 DEF TellExit
<1>9. CASE QuitLoop
  BY <1>9 DEF QuitLoop
<1>10. CASE JoinTest
  <2>1. CASE handle[Order[target]] # "zero" /\ host' = "wait" /\ UNCHANGED target
    BY <1>10, <2>1 DEF JoinTest
  <2>2. CASE handle[Order[target]] = "zero" /\ NextJoin
    BY <1>10, <2>2, <1>21, JoinedOne DEF JoinTest
  <2> QED
    BY <1>10, <2>1, <2>2 DEF JoinTest
<1>11. CASE JoinWait
  <2>1. CASE /\ thread[Order[target]] = "ended" \/ handle[Order[target]] = "garbage"
             /\ NextJoin
             /\ handle' = [handle EXCEPT ![Order[target]] = "zero"]
    BY <1>11, <2>1, <1>21, JoinedOne DEF JoinWait
  <2>2. CASE UNCHANGED <<host, target, handle>>
    BY <1>11, <2>2 DEF JoinWait
  <2> QED
    BY <1>11, <2>1, <2>2 DEF JoinWait
<1>12. CASE Release
  BY <1>12 DEF Release
<1>13. CASE DeleteImpl
  BY <1>13 DEF DeleteImpl
<1>14. CASE MainEnters
  BY <1>14, <1>21 DEF MainEnters, Thread
<1>15. ASSUME NEW t \in Thread, LeaveLoop(t) PROVE StopInv'
  BY <1>15, <1>21 DEF LeaveLoop
<1>16. ASSUME NEW t \in Thread, EndThread(t) PROVE StopInv'
  BY <1>16, <1>21 DEF EndThread
<1>17. ASSUME NEW t \in Thread, StragglerEnds(t) PROVE StopInv'
  BY <1>17 DEF StragglerEnds
<1>18. ASSUME NEW p \in Port, OtherProcess(p) PROVE StopInv'
  BY <1>18 DEF OtherProcess
<1>20. CASE SetService
  BY <1>20 DEF SetService
<1>19. CASE UNCHANGED vars
  BY <1>19 DEF vars
<1> QED
  BY <1>1, <1>2, <1>3, <1>4, <1>5, <1>6, <1>7, <1>8, <1>9, <1>10, <1>11, <1>12, <1>13,
     <1>14, <1>15, <1>16, <1>17, <1>18, <1>19, <1>20 DEF Next, HostRuns, ThreadRuns

\* stop_GDialServer() releases what the threads use only after each of them has
\* left its loop, and the deleted service holds no port.
THEOREM ReleasesAfterTheLoops == Spec => []ReleasedAfterTheLoops
<1>1. Init => StopInv
  BY DEF Init, StopInv, AliveHasHandle, GarbageOfNone, JoinedHaveLeft, NoneIsIdle, ReleasedAfterTheLoops, Alive
<1>2. StopInv => ReleasedAfterTheLoops
  BY DEF StopInv
<1> QED
  BY <1>1, <1>2, InitTypeInv, TypeInvInductive, StopInductive, PTL DEF Spec

-----------------------------------------------------------------------------
(***************************************************************************)
(* What StopReturns rests on besides fairness: the stop has a bounded      *)
(* number of steps of its own, and waits only for a thread that exists and *)
(* was told to leave its loop, unless the main thread's loop was missed.   *)
(* Where it joins a handle that is no thread's, it does not wait.          *)
(***************************************************************************)
HandleOfThread ==
  /\ \A t \in Thread : handle[t] = "set" => thread[t] # "none"
  /\ \A t \in Thread : thread[t] = "created" => t = "main"
JoinedHandles ==
  /\ host \in {"test", "wait"} => \A i \in 1..3 : i < target => handle[Order[i]] = "zero"
  /\ host \in {"release", "delete"} => \A t \in Thread : handle[t] = "zero"
WaitsForThread ==
  host = "wait" => thread[Order[target]] # "none" \/ handle[Order[target]] = "garbage"
LoopOfMain == Alive("main") => mainLoop # 0
ToldToExit == host \in {"quit", "test", "wait"} => exit
MainWasTold ==
  host \in {"test", "wait"} /\ ~missed =>
    thread["main"] # "created" /\ (thread["main"] = "running" => runs \in quit)

ToldInv ==
  HandleOfThread /\ JoinedHandles /\ WaitsForThread /\ LoopOfMain /\ ToldToExit /\ MainWasTold

\* pthread_join in stop_GDialServer(): the thread it waits for has been created
\* and, if it is still in its loop, has been told to leave it; unless its handle
\* is what a failed pthread_create left, and then there is no thread to wait for.
JoinedWasTold ==
  host = "wait" /\ ~missed =>
    LET t == Order[target]
    IN  \/ /\ thread[t] \in {"running", "tail", "ended"}
           /\ thread[t] = "running" => IF t = "main" THEN runs \in quit ELSE exit
        \/ thread[t] = "none" /\ handle[t] = "garbage"

\* The steps that stop_GDialServer() has before it, and those of the second call
\* that follows when start_GDialServer() made the first.
Stopping == host \in {"stop", "quit", "test", "wait", "release", "delete"}
StopStepsLeft ==
  (IF twice THEN 10 ELSE 0) +
  (CASE host = "stop" -> 10
     [] host = "quit" -> 9
     [] host = "test" -> 10 - 2 * target
     [] host = "wait" -> 9 - 2 * target
     [] host = "release" -> 2
     [] host = "delete" -> 1
     [] OTHER -> 0)

\* Whatever the threads and other processes do meanwhile, a stop only ever comes
\* nearer to its end.
StopGoesOn ==
  [][Stopping => UNCHANGED <<host, target, twice>> \/ StopStepsLeft' < StopStepsLeft]_vars

\* The host goes on from one thread, whose handle is cleared, to the next.
LEMMA PassedOne ==
  ASSUME TypeInv, ToldInv, host \in {"test", "wait"}, NextJoin, handle'[Order[target]] = "zero",
         \A t \in Thread : handle'[t] \in {"zero", handle[t]},
         UNCHANGED <<thread, mainLoop, runs, quit, exit, missed>>
  PROVE  ToldInv'
<1> USE DEF TypeInv, TypeOK, ToldInv, HandleOfThread, JoinedHandles, WaitsForThread, LoopOfMain,
            ToldToExit, MainWasTold, Alive
<1>0. \A i \in 1..3 : Order[i] \in Thread
  BY DEF Order, Thread
<1>1. CASE target < 3
  <2>1. host' = "test" /\ target' = target + 1
    BY <1>1 DEF NextJoin
  <2>2. \A i \in 1..3 : i < target' => handle'[Order[i]] = "zero"
    BY <1>0, <1>1, <2>1
  <2> QED
    BY <2>1, <2>2
<1>2. CASE target = 3
  <2>1. host' = "release"
    BY <1>2 DEF NextJoin
  <2>2. \A t \in Thread : handle'[t] = "zero"
    <3>1. \A i \in 1..3 : handle'[Order[i]] = "zero"
      BY <1>0, <1>2
    <3> QED
      BY <3>1 DEF Order, Thread
  <2> QED
    BY <2>1, <2>2
<1> QED
  BY <1>1, <1>2

\* ToldInv is inductive, relative to the invariants of the start and the stop.
LEMMA ToldInductive == TypeInv /\ UpInv /\ StopInv /\ ToldInv /\ [Next]_vars => ToldInv'
<1> SUFFICES ASSUME TypeInv, UpInv, StopInv, ToldInv, [Next]_vars PROVE ToldInv'
  OBVIOUS
<1> USE DEF TypeInv, TypeOK, ToldInv, HandleOfThread, JoinedHandles, WaitsForThread, LoopOfMain,
        ToldToExit, MainWasTold, Alive, loopVars, threadVars
<1>21. \A i \in 1..3 : Order[i] \in Thread
  BY DEF Order, Thread
<1>1. CASE GetInstance
  BY <1>1 DEF GetInstance
<1>2. CASE DestroyInstance
  BY <1>2 DEF DestroyInstance
<1>3. CASE StartFailsEarly
  BY <1>3 DEF StartFailsEarly
<1>4. CASE StartLoop
  BY <1>4 DEF StartLoop
<1>5. ASSUME NEW p \in Port, Listen(p) PROVE ToldInv'
  <2>1. host' \in {"ssdp", "local", "install", "stop"}
    BY <1>5 DEF Listen, Port
  <2> QED
    BY <1>5, <2>1 DEF Listen
<1>6. CASE Install
  BY <1>6 DEF Install
<1>7. ASSUME NEW created \in SUBSET Thread, NEW garbage \in SUBSET (Thread \ created),
             CreateThreads(created, garbage)
      PROVE  ToldInv'
  <2>1. mainLoop # 0 /\ UNCHANGED mainLoop /\ host' \in {"started", "stop"}
    BY <1>7 DEF CreateThreads, UpInv, LoopIsNew
  <2> QED
    BY <1>7, <2>1 DEF CreateThreads
<1>8. CASE TellExit
  BY <1>8 DEF TellExit
<1>9. CASE QuitLoop
  <2>1. /\ host' = "test" /\ target' = 1 /\ host = "quit"
        /\ UNCHANGED <<mainLoop, runs, exit, thread, handle>>
    BY <1>9 DEF QuitLoop
  <2>2. ~missed' => /\ thread["main"] # "created"
                    /\ thread["main"] = "running" => runs \in quit'
    BY <1>9 DEF QuitLoop
  <2> QED
    BY <2>1, <2>2
<1>10. CASE JoinTest
  <2>1. CASE handle[Order[target]] # "zero" /\ host' = "wait" /\ UNCHANGED target
    BY <1>10, <1>21, <2>1 DEF JoinTest
  <2>2. CASE handle[Order[target]] = "zero" /\ NextJoin
    BY <1>10, <2>2, PassedOne DEF JoinTest
  <2> QED
    BY <1>10, <2>1, <2>2 DEF JoinTest
<1>11. CASE JoinWait
  <2>1. CASE NextJoin /\ handle' = [handle EXCEPT ![Order[target]] = "zero"]
    <3>1. /\ handle'[Order[target]] = "zero"
          /\ \A t \in Thread : handle'[t] \in {"zero", handle[t]}
      BY <1>21, <2>1
    <3> QED
      BY <1>11, <2>1, <3>1, PassedOne DEF JoinWait
  <2>2. CASE UNCHANGED <<host, target, handle>>
    BY <1>11, <2>2 DEF JoinWait
  <2> QED
    BY <1>11, <2>1, <2>2 DEF JoinWait
<1>12. CASE Release
  <2>1. ~Alive("main") /\ \A t \in Thread : handle[t] = "zero"
    BY <1>12 DEF Release, StopInv, ReleasedAfterTheLoops, Thread
  <2>2. host' \in {"stop", "delete"} /\ UNCHANGED <<thread, handle>>
    BY <1>12 DEF Release
  <2> QED
    BY <2>1, <2>2
<1>13. CASE DeleteImpl
  BY <1>13 DEF DeleteImpl, Thread
<1>14. CASE MainEnters
  BY <1>14, <1>21 DEF MainEnters, Thread
<1>15. ASSUME NEW t \in Thread, LeaveLoop(t) PROVE ToldInv'
  BY <1>15, <1>21 DEF LeaveLoop
<1>16. ASSUME NEW t \in Thread, EndThread(t) PROVE ToldInv'
  BY <1>16, <1>21 DEF EndThread
<1>17. ASSUME NEW t \in Thread, StragglerEnds(t) PROVE ToldInv'
  BY <1>17 DEF StragglerEnds
<1>18. ASSUME NEW p \in Port, OtherProcess(p) PROVE ToldInv'
  BY <1>18 DEF OtherProcess
<1>20. CASE SetService
  BY <1>20 DEF SetService
<1>19. CASE UNCHANGED vars
  BY <1>19 DEF vars
<1> QED
  BY <1>1, <1>2, <1>3, <1>4, <1>5, <1>6, <1>7, <1>8, <1>9, <1>10, <1>11, <1>12, <1>13,
     <1>14, <1>15, <1>16, <1>17, <1>18, <1>19, <1>20 DEF Next, HostRuns, ThreadRuns

\* stop_GDialServer() never waits for a thread that nobody told to leave, except
\* for a main thread whose loop was missed; and where the handle is no thread's,
\* because pthread_create failed unnoticed, there is nothing it could wait for.
THEOREM JoinsTheTold == Spec => []JoinedWasTold
<1>1. Init => UpInv /\ StopInv /\ ToldInv
  BY DEF Init, UpInv, LoopIsNew, PortsInOrder, NotToldToExit, RunsTheLoop, UpMeansServing,
     StopInv, AliveHasHandle, GarbageOfNone, JoinedHaveLeft, NoneIsIdle, ReleasedAfterTheLoops, Alive,
     ToldInv, HandleOfThread, JoinedHandles, WaitsForThread, LoopOfMain, ToldToExit, MainWasTold,
     Thread
<1>2. TypeInv /\ ToldInv => JoinedWasTold
  BY DEF TypeInv, TypeOK, ToldInv, HandleOfThread, WaitsForThread, ToldToExit, MainWasTold,
     JoinedWasTold, Order, Thread
<1> QED
  BY <1>1, <1>2, InitTypeInv, TypeInvInductive, UpInductive, StopInductive, ToldInductive, PTL
  DEF Spec

\* A stop has at most twenty steps of the host's thread before it, and each one
\* it makes leaves fewer.
THEOREM StopComesToItsEnd == Spec => StopGoesOn /\ [](StopStepsLeft \in 0..20)
<1>1. TypeInv /\ [Next]_vars =>
        [Stopping => UNCHANGED <<host, target, twice>> \/ StopStepsLeft' < StopStepsLeft]_vars
  <2> SUFFICES ASSUME TypeInv, Next, Stopping
               PROVE  UNCHANGED <<host, target, twice>> \/ StopStepsLeft' < StopStepsLeft
    OBVIOUS
  <2> USE DEF TypeInv, TypeOK, Stopping, StopStepsLeft
  <2>1. CASE TellExit
    BY <2>1 DEF TellExit
  <2>2. CASE QuitLoop
    BY <2>2 DEF QuitLoop
  <2>3. CASE JoinTest
    BY <2>3 DEF JoinTest, NextJoin
  <2>4. CASE JoinWait
    BY <2>4 DEF JoinWait, NextJoin
  <2>5. CASE Release
    BY <2>5 DEF Release
  <2>6. CASE DeleteImpl
    BY <2>6 DEF DeleteImpl
  <2>7. ASSUME NEW t \in Thread, ThreadRuns(t) \/ StragglerEnds(t) PROVE UNCHANGED <<host, target, twice>>
    BY <2>7 DEF ThreadRuns, MainEnters, LeaveLoop, EndThread, StragglerEnds
  <2>8. ASSUME NEW p \in Port, OtherProcess(p) PROVE UNCHANGED <<host, target, twice>>
    BY <2>8 DEF OtherProcess
  <2>9. /\ ~GetInstance /\ ~DestroyInstance /\ ~StartFailsEarly /\ ~StartLoop /\ ~Install
        /\ ~SetService
    BY DEF GetInstance, DestroyInstance, StartFailsEarly, StartLoop, Install, SetService
  <2>10. /\ \A p \in Port : ~Listen(p)
         /\ \A created \in SUBSET Thread :
              \A garbage \in SUBSET (Thread \ created) : ~CreateThreads(created, garbage)
    BY DEF Listen, Port, CreateThreads
  <2> QED
    BY <2>1, <2>2, <2>3, <2>4, <2>5, <2>6, <2>7, <2>8, <2>9, <2>10 DEF Next, HostRuns
<1>2. TypeInv => StopStepsLeft \in 0..20
  BY DEF TypeInv, TypeOK, StopStepsLeft
<1> QED
  BY <1>1, <1>2, InitTypeInv, TypeInvInductive, PTL DEF Spec, StopGoesOn
=============================================================================
