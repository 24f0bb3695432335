-------------------------------- MODULE Dial --------------------------------
(***************************************************************************)
(* The service between its REST server and its host: how what a client     *)
(* asks for reaches the host, and how what the host reports reaches the    *)
(* cache that answers the clients.                                         *)
(*                                                                         *)
(*   REST server --commands--> host --reports--> cache --> REST server     *)
(*                                                                         *)
(* Both arrows are queues with a thread each (gdialServiceImpl), taken     *)
(* here as what HandlerQueueProofs shows them to be: EventChannels.  The   *)
(* commands pass two observer pointers that are not initialised: the one   *)
(* of GDialCastObject is set when the threads already run, and the one of  *)
(* gdialServiceImpl after that.  Until then a local GET may use them: a    *)
(* null one drops the command, any other makes the process wild, and       *)
(* nothing is said of a wild one, nor of one whose channel is spoiled.     *)
(*                                                                         *)
(* The host is external.  It carries out each command and answers each     *)
(* state request with a report, its applications may change by themselves, *)
(* and it makes its reports in the order of the changes.                   *)
(***************************************************************************)
EXTENDS Naturals, Sequences, SequencesExt

CONSTANTS App,          \* the applications
          MaxCommands,  \* bound on the commands
          MaxChanges    \* bound on the changes the host makes by itself

ASSUME DialAssumption == MaxCommands \in Nat /\ MaxChanges \in Nat

HostState == {"running", "hidden", "stopped"}
Command == [op : {"state", "launch", "stop", "hide"}, app : App]
Report == [app : App, state : HostState]

VARIABLES phase,        \* how far the start, and then the stop, has come
          actual,       \* the host: the state of each application
          cache,        \* the AppStatusCache entries
          asked,        \* history: applications whose state a client has read
          lost,         \* history: applications whose last command was dropped
          changes,      \* history: changes the host made by itself
          wild,         \* an uninitialised pointer was used
          cPending, cInHand, cDelivered, cSending, cClosed, cGrace, cSpoiled,
          rPending, rInHand, rDelivered, rSending, rClosed, rGrace, rSpoiled

cVars == <<cPending, cInHand, cDelivered, cSending, cClosed, cGrace, cSpoiled>>
rVars == <<rPending, rInHand, rDelivered, rSending, rClosed, rGrace, rSpoiled>>
dialVars == <<phase, actual, cache, asked, lost, changes, wild>>
vars == <<dialVars, cVars, rVars>>

\* notifyResponse() and responseHandlerThread()
Commands == INSTANCE EventChannel WITH
  Message <- Command, pending <- cPending, inHand <- cInHand, delivered <- cDelivered,
  sending <- cSending, closed <- cClosed, grace <- cGrace, spoiled <- cSpoiled

\* sendRequest() and requestHandlerThread()
Reports == INSTANCE EventChannel WITH
  Message <- Report, pending <- rPending, inHand <- rInHand, delivered <- rDelivered,
  sending <- rSending, closed <- rClosed, grace <- rGrace, spoiled <- rSpoiled

CommandsInFlight == cInHand \o cPending \o cSending
ReportsInFlight == rInHand \o rPending \o rSending

TypeOK ==
  /\ phase \in {"threads", "notified", "observed", "exit", "exits", "joined"}
  /\ actual \in [App -> HostState]
  /\ cache \in [App -> HostState \cup {"NOT_FOUND"}]
  /\ asked \subseteq App /\ lost \subseteq App
  /\ changes \in 0..MaxChanges
  /\ wild \in BOOLEAN
  /\ CommandsInFlight \in Seq(Command) /\ cDelivered \in Seq(Command)
  /\ ReportsInFlight \in Seq(Report) /\ rDelivered \in Seq(Report)

\* The threads were just created; the host's applications are in any state.
Init ==
  /\ phase = "threads"
  /\ actual \in [App -> HostState]
  /\ cache = [a \in App |-> "NOT_FOUND"]
  /\ asked = {} /\ lost = {}
  /\ changes = 0
  /\ wild = FALSE
  /\ Commands!Init
  /\ Reports!Init

Sound == ~wild /\ ~cSpoiled /\ ~rSpoiled

-----------------------------------------------------------------------------
\* The host's thread in getInstance() and destroyInstance().

\* start_GDialServer() ends: gdial_os_application_service_notification(true).
ServiceNotification ==
  /\ Sound /\ phase = "threads"
  /\ phase' = "notified"
  /\ UNCHANGED <<actual, cache, asked, lost, changes, wild, cVars, rVars>>

\* getInstance() sets the observer and returns.
SetService ==
  /\ Sound /\ phase = "notified"
  /\ phase' = "observed"
  /\ UNCHANGED <<actual, cache, asked, lost, changes, wild, cVars, rVars>>

\* stop_GDialServer() tells the request handler thread to exit ...
ExitRequests ==
  /\ Sound /\ phase = "observed"
  /\ phase' = "exit"
  /\ Reports!Close
  /\ UNCHANGED <<actual, cache, asked, lost, changes, wild, cVars>>

\* ... then the response handler thread ...
ExitResponses ==
  /\ Sound /\ phase = "exit"
  /\ phase' = "exits"
  /\ Commands!Close
  /\ UNCHANGED <<actual, cache, asked, lost, changes, wild, rVars>>

\* ... and joins the main thread.
MainJoined ==
  /\ Sound /\ phase = "exits"
  /\ cSending = <<>>
  /\ phase' = "joined"
  /\ UNCHANGED <<actual, cache, asked, lost, changes, wild, cVars, rVars>>

-----------------------------------------------------------------------------
\* The main thread.

\* A command of GDialCastObject: it goes to its observer, if it has one.
Notify(c) ==
  /\ Len(cDelivered \o CommandsInFlight) < MaxCommands
  /\ \/ /\ phase # "threads"
        /\ Commands!StartSend(c)
        /\ lost' = lost \ {c.app}
        /\ UNCHANGED wild
     \/ phase = "threads" /\ lost' = lost \cup {c.app} /\ UNCHANGED <<wild, cVars>>
     \/ phase = "threads" /\ wild' = TRUE /\ UNCHANGED <<lost, cVars>>

\* MUTANT of ReadState: the host is only asked about what is known already.
ReadStateOfKnown(a) ==
  /\ Sound /\ phase # "joined"
  /\ asked' = asked \cup {a}
  /\ IF cache[a] # "NOT_FOUND" THEN Notify([op |-> "state", app |-> a])
     ELSE UNCHANGED <<lost, wild, cVars>>
  /\ UNCHANGED <<phase, actual, cache, changes, rVars>>

\* gdial_os_application_state: the cached state is used, and the host is asked.
ReadState(a) ==
  /\ Sound /\ phase # "joined"
  /\ asked' = asked \cup {a}
  /\ Notify([op |-> "state", app |-> a])
  /\ UNCHANGED <<phase, actual, cache, changes, rVars>>

\* gdial_os_application_start, _stop and _hide.  The clients that ask for them
\* are let in by an activation, which only a host that has the service sends.
AskHost(a, op) ==
  /\ Sound /\ phase \in {"observed", "exit", "exits"}
  /\ op = "hide" => cache[a] = "running"
  /\ Notify([op |-> op, app |-> a])
  /\ UNCHANGED <<phase, actual, cache, asked, changes, rVars>>

\* notifyResponse() ends.
CommandQueued ==
  /\ Sound
  /\ Commands!EndSend
  /\ UNCHANGED <<dialVars, rVars>>

-----------------------------------------------------------------------------
\* The response handler thread, in which the host carries out the commands.

TakeCommand ==
  /\ Sound
  /\ Commands!Take
  /\ UNCHANGED <<dialVars, rVars>>

\* What the host makes of a command.
Effect(c, s) ==
  CASE c.op = "launch" -> "running"
    [] c.op = "stop" -> "stopped"
    [] c.op = "hide" /\ s = "running" -> "hidden"
    [] OTHER -> s

\* The host carries it out and begins to report.
HostExecutes ==
  /\ Sound /\ phase \notin {"threads", "notified"}
  /\ Commands!Deliver
  /\ LET c == Head(cInHand)
         s == Effect(c, actual[c.app])
     IN  /\ actual' = [actual EXCEPT ![c.app] = s]
         /\ Reports!StartSend([app |-> c.app, state |-> s])
  /\ UNCHANGED <<phase, cache, asked, lost, changes, wild>>

\* The observer is not set yet.
NoObserver ==
  /\ Sound /\ phase \in {"threads", "notified"}
  /\ Commands!Deliver
  /\ \/ lost' = lost \cup {Head(cInHand).app} /\ UNCHANGED wild
     \/ wild' = TRUE /\ UNCHANGED lost
  /\ UNCHANGED <<phase, actual, cache, asked, changes, rVars>>

-----------------------------------------------------------------------------
\* The host's own threads.

\* An application changes by itself; a host that has the service reports it.
HostChanges(a, s) ==
  /\ Sound
  /\ s # actual[a]
  /\ changes < MaxChanges
  /\ changes' = changes + 1
  /\ actual' = [actual EXCEPT ![a] = s]
  /\ IF phase \in {"threads", "notified"} THEN UNCHANGED rVars
     ELSE Reports!StartSend([app |-> a, state |-> s])
  /\ UNCHANGED <<phase, cache, asked, lost, wild, cVars>>

\* sendRequest() ends.
ReportQueued ==
  /\ Sound
  /\ Reports!EndSend
  /\ UNCHANGED <<dialVars, cVars>>

-----------------------------------------------------------------------------
\* The request handler thread.

TakeReport ==
  /\ Sound
  /\ Reports!Take
  /\ UNCHANGED <<dialVars, cVars>>

\* MUTANT of UpdateAppStatusCache: the old entry is not erased, and stays.
UpdateAppStatusCacheOnce(r) ==
  cache' = IF cache[r.app] = "NOT_FOUND" THEN [cache EXCEPT ![r.app] = r.state] ELSE cache

\* MUTANT of UpdateAppStatusCache: name and state are swapped.
UpdateAppStatusCacheSwapped(r) == cache' = [cache EXCEPT ![r.app] = r.app]

\* The entry is replaced, in two steps that RestServer looks into.
UpdateAppStatusCache(r) == cache' = [cache EXCEPT ![r.app] = r.state]

ApplicationStateChanged ==
  /\ Sound
  /\ Reports!Deliver
  /\ UpdateAppStatusCache(Head(rInHand))
  /\ UNCHANGED <<phase, actual, asked, lost, changes, wild, cVars>>

-----------------------------------------------------------------------------
\* What else happens to the channels: the receive that was under way when a
\* channel was closed ends, or a receive overlaps a send.
ChannelsEnd ==
  /\ Sound
  /\ \/ Commands!Expire /\ UNCHANGED rVars
     \/ Reports!Expire /\ UNCHANGED cVars
  /\ UNCHANGED dialVars

ChannelsSpoil ==
  /\ Sound
  /\ \/ /\ Commands!Spoil
        /\ UNCHANGED <<cPending, cInHand, cDelivered, cSending, cClosed, cGrace, rVars>>
     \/ /\ Reports!Spoil
        /\ UNCHANGED <<rPending, rInHand, rDelivered, rSending, rClosed, rGrace, cVars>>
  /\ UNCHANGED dialVars

Next ==
  \/ ServiceNotification \/ SetService \/ ExitRequests \/ ExitResponses \/ MainJoined
  \/ \E a \in App : ReadState(a)
  \/ \E a \in App, op \in {"launch", "stop", "hide"} : AskHost(a, op)
  \/ CommandQueued \/ TakeCommand \/ HostExecutes \/ NoObserver
  \/ \E a \in App, s \in HostState : HostChanges(a, s)
  \/ ReportQueued \/ TakeReport \/ ApplicationStateChanged
  \/ ChannelsEnd \/ ChannelsSpoil

Spec == Init /\ [][Next]_vars
-----------------------------------------------------------------------------
\* What the cache will say of an application when the reports on their way
\* have arrived: the last of them that is about it, or what the cache says now
\* if none is.
ReportsOf(a) == {k \in DOMAIN ReportsInFlight : ReportsInFlight[k].app = a}
LastWord(a) ==
  IF ReportsOf(a) = {} THEN {cache[a]}
  ELSE {ReportsInFlight[k].state : k \in {k \in ReportsOf(a) : \A j \in ReportsOf(a) : j <= k}}

\* A client is told something else than the state of the application only
\* while a report of it is on its way, or nothing was ever reported: commands
\* of clients, changes of the host and a stop of the service, in any order,
\* leave no wrong state behind in the cache.
LastWordIsTrue ==
  \A a \in App : LastWord(a) \subseteq {actual[a], "NOT_FOUND"}

\* gdial.cpp:766: "return cache, but also trigger a refresh".  What a client
\* has read is known, or a report of it is on its way, or the host is about to
\* be asked; only a command before the observers were set can be lost.
ReadMakesKnown ==
  \A a \in asked \ lost :
    ~wild => \/ "NOT_FOUND" \notin LastWord(a)
             \/ a \in {c.app : c \in Range(CommandsInFlight)}
=============================================================================
