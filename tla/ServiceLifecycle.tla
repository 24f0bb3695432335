-------------------------- MODULE ServiceLifecycle --------------------------
(***************************************************************************)
(* The life cycle of the service (gdialservice.cpp): getInstance() and     *)
(* start_GDialServer(), with the failures it handles, the three threads,   *)
(* stop_GDialServer() and destroyInstance().                               *)
(*                                                                         *)
(* The host calls from one thread, whose place in the code is the variable *)
(* host.  Other processes may hold the ports.  Each of the three threads   *)
(* clears its own handle before it ends and then still runs a tail: the    *)
(* main thread pops its context, the response handler calls onStopped().   *)
(* stop_GDialServer() does not join a thread whose handle it finds         *)
(* cleared, so that such a tail may run beside it, and after the service   *)
(* object is deleted (a straggler).                                        *)
(*                                                                         *)
(* How the handler threads leave their loops is the subject of             *)
(* HandlerQueue; here they do so some time after they are told.            *)
(***************************************************************************)
EXTENDS Naturals, Sequences

CONSTANT MaxStarts      \* bound on the main loops ever created

ASSUME MaxStartsAssumption == MaxStarts \in Nat \ {0}

Order == <<"main", "request", "response">>      \* in which the threads are joined
Thread == {"main", "request", "response"}
Port == {"rest", "ssdp", "local"}               \* in the order of the listens

VARIABLES host,         \* where the host's thread is
          impl,         \* m_gdialServiceImpl exists
          twice,        \* stop_GDialServer() was called by start_GDialServer()
          target,       \* the thread that is being joined, as an index of Order
          starts,       \* main loops created so far
          mainLoop,     \* m_main_loop: the number of a loop, or 0
          runs,         \* the loop that the main thread runs
          quit,         \* loops that were told to quit
          exit,         \* m_RequestHandlerThreadExit, m_ResponseHandlerThreadExit
          thread,       \* the threads of the service object
          handle,       \* m_gdialserver_main_thread, ...
          observer,     \* m_observer has been given its value
          stragglers,   \* threads of a deleted object that have not ended
          ports,        \* who holds each port
          missed,       \* history: the main thread's loop was not told to quit
          wild          \* a freed object or a value that is none was used

vars == <<host, impl, twice, target, starts, mainLoop, runs, quit, exit, thread,
          handle, observer, stragglers, ports, missed, wild>>
loopVars == <<starts, mainLoop, runs, quit>>
threadVars == <<exit, thread, handle, observer, stragglers>>

TypeOK ==
  /\ host \in {"idle", "begin", "rest", "ssdp", "local", "install", "create",
               "started", "stop", "quit", "test", "wait", "release", "delete"}
  /\ impl \in BOOLEAN /\ twice \in BOOLEAN
  /\ target \in 1..3
  /\ starts \in 0..MaxStarts
  /\ mainLoop \in 0..MaxStarts
  /\ runs \in 0..MaxStarts
  /\ quit \subseteq 1..MaxStarts
  /\ exit \in BOOLEAN
  /\ thread \in [Thread -> {"none", "created", "running", "tail", "ended"}]
  /\ handle \in [Thread -> {"zero", "set", "garbage"}]
  /\ observer \in BOOLEAN
  /\ stragglers \subseteq Thread
  /\ ports \in [Port -> {"free", "new", "served", "leaked", "taken"}]
  /\ missed \in BOOLEAN /\ wild \in BOOLEAN

Init ==
  /\ host = "idle"
  /\ impl = FALSE /\ twice = FALSE
  /\ target = 1
  /\ starts = 0 /\ mainLoop = 0 /\ runs = 0 /\ quit = {}
  /\ exit = FALSE
  /\ thread = [t \in Thread |-> "none"]
  /\ handle = [t \in Thread |-> "zero"]
  /\ observer = FALSE
  /\ stragglers = {}
  /\ ports = [p \in Port |-> "free"]
  /\ missed = FALSE /\ wild = FALSE

-----------------------------------------------------------------------------
\* The host's thread: start.

\* gdialService::getInstance: nothing keeps the host from calling it again
\* while the service runs, and it then starts the same object again.
GetInstance ==
  /\ host = "idle"
  /\ starts < MaxStarts
  /\ impl' = TRUE
  /\ host' = "begin"
  /\ UNCHANGED <<twice, target, loopVars, threadVars, ports, missed, wild>>

\* The options do not parse, or the interface has no address after three
\* attempts: getInstance() destroys the object.
StartFailsEarly ==
  /\ host = "begin"
  /\ host' = "stop"
  /\ UNCHANGED <<impl, twice, target, loopVars, threadVars, ports, missed, wild>>

\* m_main_loop is replaced, whether or not there was one.
StartLoop ==
  /\ host = "begin"
  /\ starts' = starts + 1
  /\ mainLoop' = starts'
  /\ host' = "rest"
  /\ UNCHANGED <<impl, twice, target, runs, quit, threadVars, ports, missed, wild>>

\* MUTANT of Listen: the result is not tested.
ListenIgnoresFailure(p) ==
  /\ host = p
  /\ ports' = IF ports[p] = "free" THEN [ports EXCEPT ![p] = "new"] ELSE ports
  /\ host' = CASE p = "rest" -> "ssdp" [] p = "ssdp" -> "local" [] p = "local" -> "install"
  /\ UNCHANGED <<impl, twice, target, loopVars, threadVars, missed, wild>>

\* soup_server_listen on one port after the other.  A failure returns at once:
\* the servers that listen already are in no variable, and nobody will ever
\* disconnect them.
Listen(p) ==
  /\ host = p
  /\ \/ /\ ports[p] = "free"
        /\ ports' = [ports EXCEPT ![p] = "new"]
        /\ host' = CASE p = "rest" -> "ssdp" [] p = "ssdp" -> "local" [] p = "local" -> "install"
     \/ /\ ports[p] # "free"
        /\ ports' = [q \in Port |-> IF ports[q] = "new" THEN "leaked" ELSE ports[q]]
        /\ host' = "stop"
  /\ UNCHANGED <<impl, twice, target, loopVars, threadVars, missed, wild>>

\* The REST server, SSDP and the shield are set up; m_servers is set.
Install ==
  /\ host = "install"
  /\ ports' = [p \in Port |-> IF ports[p] = "new" THEN "served" ELSE ports[p]]
  /\ host' = "create"
  /\ UNCHANGED <<impl, twice, target, loopVars, threadVars, missed, wild>>

\* pthread_create, three times.  Its results are ignored and the handles tested
\* instead, which a failed pthread_create leaves as they were or sets to
\* anything: the threads in created exist, the handles in garbage are not 0 and
\* belong to no thread.  If a handle is 0 the service is stopped here, and again
\* by getInstance().
CreateThreads(created, garbage) ==
  /\ host = "create"
  /\ thread' = [t \in Thread |-> IF t \notin created THEN "none"
                                 ELSE IF t = "main" THEN "created" ELSE "running"]
  /\ handle' = [t \in Thread |-> IF t \in created THEN "set"
                                 ELSE IF t \in garbage THEN "garbage" ELSE "zero"]
  /\ \/ created \cup garbage = Thread /\ host' = "started" /\ UNCHANGED twice
     \/ created \cup garbage # Thread /\ host' = "stop" /\ twice' = TRUE
  /\ UNCHANGED <<impl, target, loopVars, exit, observer, stragglers, ports, missed, wild>>

\* The start succeeded, and getInstance() returns.  m_observer has no value
\* before this, with the threads running.
SetService ==
  /\ host = "started"
  /\ host' = "idle"
  /\ observer' = TRUE
  /\ UNCHANGED <<impl, twice, target, loopVars, exit, thread, handle, stragglers, ports,
                 missed, wild>>

-----------------------------------------------------------------------------
\* The host's thread: stop.

DestroyInstance ==
  /\ host = "idle"
  /\ impl
  /\ host' = "stop"
  /\ UNCHANGED <<impl, twice, target, loopVars, threadVars, ports, missed, wild>>

\* The handler threads are told to exit.
TellExit ==
  /\ host = "stop"
  /\ exit' = TRUE
  /\ host' = "quit"
  /\ UNCHANGED <<impl, twice, target, loopVars, thread, handle, observer, stragglers,
                 ports, missed, wild>>

\* MUTANT of QuitLoop: the loop is not told.
QuitLoopForgotten ==
  /\ host = "quit"
  /\ host' = "test" /\ target' = 1
  /\ UNCHANGED <<impl, twice, loopVars, threadVars, ports, missed, wild>>

\* g_main_loop_quit(m_main_loop).  It misses a main thread that runs another
\* loop, or that has not entered its loop yet.
QuitLoop ==
  /\ host = "quit"
  /\ quit' = quit \cup ({mainLoop} \ {0})
  /\ missed' = \/ missed
               \/ thread["main"] = "created"
               \/ thread["main"] = "running" /\ runs # mainLoop
  /\ host' = "test" /\ target' = 1
  /\ UNCHANGED <<impl, twice, starts, mainLoop, runs, threadVars, ports, wild>>

\* MUTANT of NextJoin: one thread too many.
NextJoinPastEnd ==
  IF target <= 3 THEN host' = "test" /\ target' = target + 1
  ELSE host' = "release" /\ UNCHANGED target

\* On to the next thread, or to the release.
NextJoin ==
  IF target < 3 THEN host' = "test" /\ target' = target + 1
  ELSE host' = "release" /\ UNCHANGED target

\* if (handle)
JoinTest ==
  /\ host = "test"
  /\ \/ handle[Order[target]] # "zero" /\ host' = "wait" /\ UNCHANGED target
     \/ handle[Order[target]] = "zero" /\ NextJoin
  /\ UNCHANGED <<impl, twice, loopVars, threadVars, ports, missed, wild>>

\* MUTANT of JoinWait: the thread is not waited for.
JoinWaitDetaches ==
  /\ host = "wait"
  /\ handle' = [handle EXCEPT ![Order[target]] = "zero"]
  /\ NextJoin
  /\ UNCHANGED <<impl, twice, loopVars, exit, thread, observer, stragglers, ports, missed, wild>>

\* pthread_join(handle), whose result is ignored too.  With a handle that
\* belongs to no thread it returns an error or does anything.  The thread may
\* have cleared the handle since the test: a build that reads it again joins
\* thread 0.
JoinWait ==
  /\ host = "wait"
  /\ LET t == Order[target]
     IN  \/ /\ thread[t] = "ended" \/ handle[t] = "garbage"
            /\ handle' = [handle EXCEPT ![t] = "zero"]
            /\ NextJoin
            /\ UNCHANGED wild
         \/ /\ handle[t] # "set"
            /\ wild' = TRUE
            /\ UNCHANGED <<host, target, handle>>
  /\ UNCHANGED <<impl, twice, loopVars, exit, thread, observer, stragglers, ports, missed>>

\* The servers are disconnected, the shield, SSDP, the REST server, the
\* platform and the loop are released.
Release ==
  /\ host = "release"
  /\ ports' = [p \in Port |-> IF ports[p] = "served" THEN "free" ELSE ports[p]]
  /\ mainLoop' = 0
  /\ host' = IF twice THEN "stop" ELSE "delete"
  /\ twice' = FALSE
  /\ UNCHANGED <<impl, target, starts, runs, quit, threadVars, missed, wild>>

\* delete m_gdialServiceImpl
DeleteImpl ==
  /\ host = "delete"
  /\ host' = "idle"
  /\ impl' = FALSE
  /\ exit' = FALSE
  /\ observer' = FALSE
  /\ stragglers' = stragglers \cup {t \in Thread : thread[t] \notin {"none", "ended"}}
  /\ thread' = [t \in Thread |-> "none"]
  /\ UNCHANGED <<twice, target, loopVars, handle, ports, missed, wild>>

-----------------------------------------------------------------------------
\* The threads.

\* g_main_loop_run(m_main_loop): a quit that came before is forgotten.
MainEnters ==
  /\ thread["main"] = "created"
  /\ thread' = [thread EXCEPT !["main"] = "running"]
  /\ runs' = mainLoop
  /\ quit' = quit \ {mainLoop}
  /\ UNCHANGED <<host, impl, twice, target, starts, mainLoop, exit, handle, observer,
                 stragglers, ports, missed, wild>>

\* The thread leaves its loop and clears its handle.
LeaveLoop(t) ==
  /\ thread[t] = "running"
  /\ IF t = "main" THEN runs \in quit ELSE exit
  /\ thread' = [thread EXCEPT ![t] = "tail"]
  /\ handle' = [handle EXCEPT ![t] = "zero"]
  /\ UNCHANGED <<host, impl, twice, target, loopVars, exit, observer, stragglers, ports,
                 missed, wild>>

\* The rest of the thread, up to pthread_exit.  The response handler calls
\* onStopped() through m_observer, whatever value that has.
EndThread(t) ==
  /\ thread[t] = "tail"
  /\ thread' = [thread EXCEPT ![t] = "ended"]
  /\ \/ UNCHANGED wild
     \/ t = "response" /\ ~observer /\ wild' = TRUE
  /\ UNCHANGED <<host, impl, twice, target, loopVars, exit, handle, observer, stragglers,
                 ports, missed>>

\* The same after the object was deleted.  The request handler's tail does
\* not use it; the others do, and may or may not find it intact.
StragglerEnds(t) ==
  /\ t \in stragglers
  /\ stragglers' = stragglers \ {t}
  /\ \/ UNCHANGED wild
     \/ t # "request" /\ wild' = TRUE
  /\ UNCHANGED <<host, impl, twice, target, loopVars, exit, thread, handle, observer, ports,
                 missed>>

-----------------------------------------------------------------------------
\* Another process takes or releases a port.
OtherProcess(p) ==
  /\ \/ ports[p] = "free" /\ ports' = [ports EXCEPT ![p] = "taken"]
     \/ ports[p] = "taken" /\ ports' = [ports EXCEPT ![p] = "free"]
  /\ UNCHANGED <<host, impl, twice, target, loopVars, threadVars, missed, wild>>

\* What the host's thread does by itself once it was called.
HostRuns ==
  \/ StartFailsEarly
  \/ StartLoop
  \/ \E p \in Port : Listen(p)
  \/ Install
  \/ \E created \in SUBSET Thread :
       \E garbage \in SUBSET (Thread \ created) : CreateThreads(created, garbage)
  \/ SetService
  \/ TellExit
  \/ QuitLoop
  \/ JoinTest
  \/ JoinWait
  \/ Release
  \/ DeleteImpl

ThreadRuns(t) ==
  \/ t = "main" /\ MainEnters
  \/ LeaveLoop(t)
  \/ EndThread(t)

\* Nothing is said of a wild process.
Next ==
  /\ ~wild
  /\ \/ GetInstance
     \/ DestroyInstance
     \/ HostRuns
     \/ \E t \in Thread : ThreadRuns(t) \/ StragglerEnds(t)
     \/ \E p \in Port : OtherProcess(p)

Spec == Init /\ [][Next]_vars

\* Every thread that can run is scheduled.  The host need not call, and no
\* other process has to release a port.
Fairness ==
  /\ WF_vars(~wild /\ HostRuns)
  /\ \A t \in Thread : WF_vars(~wild /\ ThreadRuns(t))

FairSpec == Spec /\ Fairness
-----------------------------------------------------------------------------
(***************************************************************************)
(* Properties                                                              *)
(***************************************************************************)

\* Before it enters its loop or in it.
Alive(t) == thread[t] \in {"created", "running"}

\* When getInstance() has returned a service, and whatever starts failed
\* before, the service holds its three ports, and its three threads are alive,
\* have their handles, and have not been told to leave; except for a thread
\* whose creation failed and left a handle that is not 0.
UpMeansServing ==
  impl /\ host \in {"started", "idle"} =>
    /\ \A p \in Port : ports[p] = "served"
    /\ \A t \in Thread : (Alive(t) /\ handle[t] = "set") \/ handle[t] = "garbage"
    /\ ~exit /\ mainLoop # 0 /\ mainLoop \notin quit

\* stop_GDialServer() releases what the threads use only when each of them
\* has left its loop, whether it was joined or its cleared handle was seen,
\* and whichever of them had been created; and what is deleted holds no port.
ReleasedAfterTheLoops ==
  /\ host \in {"release", "delete"} => \A t \in Thread : ~Alive(t)
  /\ host = "delete" \/ ~impl => \A p \in Port : ports[p] # "served"

\* stop_GDialServer() returns, unless the main thread's loop was not told to
\* quit: because getInstance() was called again while the service ran and
\* replaced m_main_loop, or because the thread had not entered its loop yet.
\* (Or unless the process went wild: it joined a handle that is no thread's, or
\* the response handler's tail used an observer or an object that is none.)
StopReturns == host = "stop" ~> host = "idle" \/ missed \/ wild

-----------------------------------------------------------------------------
\* What the code or its comments say and TLC refutes (README, section 5).

\* gdialservice.cpp:512 tests the handles to find out that a thread could not be
\* created ("Failed to create gdialserver thread").  A start that succeeded has
\* its three threads.
UpHasItsThreads == impl /\ host = "idle" => \A t \in Thread : Alive(t)

\* gdialservice.cpp:828: the response handler, when it ends, calls onStopped() on
\* the observer that setService() gave it.  A start that stops itself for want of
\* a thread has not called setService().
StoppedTellsObserver == thread["response"] = "tail" => observer
=============================================================================
