----------------------------- MODULE RestServer -----------------------------
(***************************************************************************)
(* The DIAL REST server: the registry of applications (gdial-rest.c), the  *)
(* application instances it creates for its clients (gdial-app.c), and the *)
(* cache of application states that the host's reports fill                *)
(* (gdialappcache.cpp).  Two threads work on this state without a lock:    *)
(*                                                                         *)
(*   - the main thread handles one HTTP request at a time (variable req).  *)
(*     A handler is split at its calls into the platform, because each of  *)
(*     them reads the cache afresh;                                        *)
(*   - the request handler thread (variable work) stores what the host     *)
(*     reports in the cache, and replaces the registry when the host calls *)
(*     RegisterApplications().                                             *)
(*                                                                         *)
(* The host is free to report any state of any application at any time.    *)
(* A step that uses an instance or a registry entry which the other thread *)
(* has freed makes the process wild, and nothing is said of a wild one.    *)
(* State queries to the host ("trigger a refresh") change nothing here and *)
(* are left out; of the commands launch, hide and stop, the model records  *)
(* for which applications the last one was a stop (stopping), and whether  *)
(* a registration that stops an application is overtaken by a launch.      *)
(***************************************************************************)
EXTENDS Integers, Sequences, SequencesExt

CONSTANTS AppName,      \* names under which applications are registered
          OtherName,    \* further names that a client may use in a URL
          System,       \* the "system" application
          Nobody,       \* no name
          Prefixed,     \* [AppName -> SUBSET (AppName \cup OtherName)]: app_prefixes
          CmdLine,      \* the applications registered from the command line
          SystemEnabled,\* "system" is in the command line's application list
          AppLists,     \* the lists the host passes to RegisterApplications()
          Reports,      \* the host's reports: <<name, application state>>
          ClientVersions, \* the clientDialVer of the clients; <<0, 0, 0>> for none
          MaxInstances, \* bound on the instances that exist at once
          MaxRegistrations \* bound on the calls of RegisterApplications()

Name == AppName \cup OtherName \cup {System}
InstanceId == 1..MaxInstances
CacheValue == {"NOT_FOUND", "running", "suspended", "hidden", "stopped"}
AppState == {"STOPPED", "HIDE", "RUNNING"}

ASSUME NameAssumption ==
  /\ System \notin AppName \cup OtherName
  /\ Nobody \notin Name
  /\ Prefixed \in [AppName -> SUBSET (AppName \cup OtherName)]
ASSUME ListAssumption ==
  /\ CmdLine \in Seq(AppName)
  /\ SystemEnabled \in BOOLEAN
  /\ AppLists \subseteq Seq(AppName)
  /\ Reports \subseteq (AppName \cup OtherName) \X (CacheValue \ {"NOT_FOUND"})
  /\ ClientVersions \subseteq [1..3 -> Nat]
ASSUME BoundAssumption == MaxInstances \in Nat \ {0} /\ MaxRegistrations \in Nat

VARIABLES registered,   \* priv->registered_apps, as a lookup sees it
          live,         \* application_instances_: of two instances of one name,
                        \* the one with the larger id is the newer one
          name,         \* app->name
          state,        \* app->state
          held,         \* the instance a registration is stopping; 0 for none, or
                        \* when the main thread has freed it
          cache,        \* the AppStatusCache entries
          enabled,      \* the handler of the apps URI is installed
          req,          \* the HTTP request the main thread is handling
          reply,        \* the answer to the last request
          work,         \* what the request handler thread is doing
          stopping,     \* history: whom the last command to the host told to stop
          relaunched,   \* history: the host was told otherwise since held was stopped
          registrations,\* history: calls of RegisterApplications()
          wild          \* freed memory was used

vars == <<registered, live, name, state, held, cache, enabled, req, reply, work,
          stopping, relaunched, registrations, wild>>
instanceVars == <<live, name, state, held>>
commandVars == <<stopping, relaunched>>
threadVars == <<registered, cache, enabled, work, registrations>>

NoRequest ==
  [kind |-> "none", url |-> Nobody, app |-> 0, entry |-> Nobody,
   anew |-> FALSE, stage |-> "idle", freed |-> FALSE]
NoReply == [kind |-> "none", url |-> Nobody, code |-> 0, state |-> "STOPPED"]
NoWork == [op |-> "none", app |-> Nobody, new |-> "stopped", todo |-> <<>>, saved |-> <<>>]

TypeOK ==
  /\ registered \in Seq(AppName \cup {System})
  /\ live \subseteq InstanceId
  /\ name \in [InstanceId -> Name \cup {Nobody}]
  /\ \A i \in live : name[i] \in Name
  /\ state \in [InstanceId -> AppState]
  /\ held \in live \cup {0}
  /\ cache \in [Name -> CacheValue]
  /\ enabled \in BOOLEAN
  /\ req \in [kind : {"none", "POST", "GET", "DELETE", "HIDE"},
              url : Name \cup {Nobody}, app : InstanceId \cup {0},
              entry : Name \cup {Nobody}, anew : BOOLEAN,
              stage : {"idle", "start", "state", "command", "confirm", "answer"},
              freed : BOOLEAN]
  /\ reply \in [kind : {"none", "POST", "GET", "DELETE"},
                url : Name \cup {Nobody},
                code : {0, 200, 201, 400, 403, 404, 413, 500, 501, 503},
                state : AppState]
  /\ work \in [op : {"none", "cache", "stop", "command", "read", "drop", "next",
                     "clear", "add"},
               app : Name \cup {Nobody}, new : CacheValue,
               todo : Seq(AppName), saved : Seq(AppName \cup {System})]
  /\ stopping \subseteq Name
  /\ relaunched \in BOOLEAN
  /\ registrations \in 0..MaxRegistrations
  /\ wild \in BOOLEAN

\* start_GDialServer() registers the applications of the command line;
\* "system", registered last, gets its instance at once.
Init ==
  /\ registered = (IF SystemEnabled THEN <<System>> ELSE <<>>) \o CmdLine
  /\ live = IF SystemEnabled THEN {1} ELSE {}
  /\ name = [i \in InstanceId |-> IF i \in live THEN System ELSE Nobody]
  /\ state = [i \in InstanceId |-> "STOPPED"]
  /\ held = 0
  /\ cache = [n \in Name |-> "NOT_FOUND"]
  /\ enabled = FALSE
  /\ req = NoRequest
  /\ reply = NoReply
  /\ work = NoWork
  /\ stopping = {}
  /\ relaunched = FALSE
  /\ registrations = 0
  /\ wild = FALSE

-----------------------------------------------------------------------------
\* Lookups.

\* GCompareFunc_match_registry_app_name: by prefix, or by exact name.
Match(e, n) == n = e \/ (e # System /\ n \in Prefixed[e])

\* gdial_rest_server_find_app_registry: the first entry that matches, if any.
FindAppRegistry(n) ==
  {registered[k] : k \in {j \in DOMAIN registered :
      /\ Match(registered[j], n)
      /\ \A h \in 1..(j - 1) : ~Match(registered[h], n)}}

\* gdial_app_find_instance_by_name: the newest instance of that name, if any.
FindInstanceByName(n) ==
  {i \in live : name[i] = n /\ \A j \in live : name[j] = n => j <= i}

\* MUTANT of ToAppState: the report is taken as it is.
ToAppStateRaw(v) == v

\* gdial_os_application_state: what the cached report means.
ToAppState(v) ==
  CASE v = "running" -> "RUNNING"
    [] v \in {"suspended", "hidden"} -> "HIDE"
    [] OTHER -> "STOPPED"

\* SearchAppStatusInCache.  While the other thread is between erasing the old
\* entry and having inserted the new one, a read finds either, or none.
SearchAppStatusInCache(n) ==
  IF work.op = "cache" /\ work.app = n
  THEN {cache[n], "NOT_FOUND", work.new}
  ELSE {cache[n]}

\* gdial_plat_application_state; "system" is always suspended.
PlatState(n) ==
  IF n = System THEN {"HIDE"}
  ELSE {ToAppState(v) : v \in SearchAppStatusInCache(n)}

\* The id of the next instance of name n.
NextId(n) ==
  LET Newer == {i \in InstanceId \ live : \A j \in live : name[j] = n => j < i}
  IN  {i \in Newer : \A j \in Newer : i <= j}

\* gdial_app_new
NewApp(i, n) ==
  /\ live' = live \cup {i}
  /\ name' = [name EXCEPT ![i] = n]
  /\ state' = [state EXCEPT ![i] = "STOPPED"]
  /\ UNCHANGED held

\* The last g_object_unref: gdial_app_dispose takes it off the list.
UnrefApp(i) ==
  /\ live' = live \ {i}
  /\ name' = [name EXCEPT ![i] = Nobody]
  /\ state' = [state EXCEPT ![i] = "STOPPED"]
  /\ held' = IF held = i THEN 0 ELSE held

\* A command to the host about application n.
AskTo(command, n) ==
  /\ stopping' = IF command = "stop" THEN stopping \cup {n} ELSE stopping \ {n}
  /\ relaunched' = IF held # 0 /\ name[held] = n THEN command # "stop" ELSE relaunched

-----------------------------------------------------------------------------
\* The main thread: one HTTP request at a time.

MainIdle == req.stage = "idle"
Receiving == MainIdle /\ ~wild

\* The request is answered and its handler returns.
Answer(k, n, c, s) ==
  /\ reply' = [kind |-> k, url |-> n, code |-> c, state |-> s]
  /\ req' = NoRequest

\* Its answer says nothing of the application's state.
Return ==
  /\ reply' = NoReply
  /\ req' = NoRequest

\* The request is refused before it has any effect.
Refuse(c) ==
  /\ reply' = [NoReply EXCEPT !.code = c]
  /\ req' = NoRequest

\* The handler of a request of kind k goes on with instance i.  POST keeps in
\* mind whether it launches it anew: a new instance, or one that is hidden.
Handle(k, n, i, e, new, stage) ==
  /\ req' = [kind |-> k, url |-> n, app |-> i, entry |-> e,
             anew |-> k = "POST" /\ (new \/ state[i] = "HIDE"),
             stage |-> stage, freed |-> FALSE]
  /\ reply' = NoReply

\* The instance of that name is used, or a new one is created.
FindOrNew(n, UseIt(_, _)) ==
  \/ \E i \in FindInstanceByName(n) :
       UseIt(i, FALSE) /\ UNCHANGED instanceVars
  \/ /\ FindInstanceByName(n) = {}
     /\ \E i \in NextId(n) : NewApp(i, n) /\ UseIt(i, TRUE)

\* gdial_rest_http_server_apps_callback refuses a request that is malformed
\* (500, 501), a name that is not registered (404), an origin that is not
\* allowed (403), a path that has no meaning (404), and a POST whose payload
\* is not printable (400) or too large (413).
RefuseRequest ==
  /\ enabled
  /\ Receiving
  /\ \/ \E c \in {500, 501} : Refuse(c)
     \/ (\E n \in Name : FindAppRegistry(n) = {}) /\ Refuse(404)
     \/ /\ \E n \in Name : FindAppRegistry(n) # {}
        /\ \E c \in {400, 403, 404, 413} : Refuse(c)
  /\ UNCHANGED <<instanceVars, threadVars, commandVars, wild>>

\* MUTANT of ReceivePost: every launch creates an instance.
ReceivePostAlwaysNew(n) ==
  /\ enabled
  /\ Receiving
  /\ \E e \in FindAppRegistry(n), i \in NextId(n) :
       NewApp(i, e) /\ Handle("POST", n, i, e, TRUE, "start")
  /\ UNCHANGED <<threadVars, commandVars, wild>>

\* POST: the instance has the name of the registry entry, not that of the URL.
ReceivePost(n) ==
  /\ enabled
  /\ Receiving
  /\ \E e \in FindAppRegistry(n) :
       LET Use(i, new) == Handle("POST", n, i, e, new, "start")
       IN  FindOrNew(e, Use)
  /\ UNCHANGED <<threadVars, commandVars, wild>>

\* GET, from a client or (by the entry's uuid) from the local server: the
\* instance has the name of the URL.
StartGet(n) ==
  /\ Receiving
  /\ \E e \in FindAppRegistry(n) :
       LET Use(i, new) == Handle("GET", n, i, e, new, "state")
       IN  FindOrNew(n, Use)
  /\ UNCHANGED <<threadVars, commandVars, wild>>

ReceiveGet(n) == enabled /\ StartGet(n)

\* The local handlers are installed by registration, whether or not the
\* server is enabled; "system" has none.
ReceiveLocalGet(e) == e \in Range(registered) \ {System} /\ StartGet(e)

\* POST of additional data: refused if it is too large or not printable;
\* otherwise it creates the instance (its data is not modelled here).
ReceiveDialData(e) ==
  /\ Receiving
  /\ e \in Range(registered) \ {System}
  /\ \/ \E c \in {400, 413} : Refuse(c) /\ UNCHANGED instanceVars
     \/ LET Use(i, new) == Return
        IN  FindOrNew(e, Use)
  /\ UNCHANGED <<threadVars, commandVars, wild>>

\* The local server refuses an unknown uuid, and any other path or method.
RefuseLocalRequest ==
  /\ Receiving
  /\ \E c \in {404, 501} : Refuse(c)
  /\ UNCHANGED <<instanceVars, threadVars, commandVars, wild>>

\* DELETE .../run: 404 without an instance of the URL's name, 403 for "system".
ReceiveDelete(n) ==
  /\ enabled
  /\ Receiving
  /\ FindAppRegistry(n) # {}
  /\ \/ FindInstanceByName(n) = {} /\ Refuse(404)
     \/ /\ n = System
        /\ FindInstanceByName(n) # {}
        /\ Refuse(403)
     \/ /\ n # System
        /\ \E i \in FindInstanceByName(n) : Handle("DELETE", n, i, Nobody, FALSE, "state")
  /\ UNCHANGED <<instanceVars, threadVars, commandVars, wild>>

\* POST .../run/hide
ReceiveHide(n) ==
  /\ enabled
  /\ Receiving
  /\ FindAppRegistry(n) # {}
  /\ \/ FindInstanceByName(n) = {} /\ Refuse(404)
     \/ \E i \in FindInstanceByName(n) : Handle("HIDE", n, i, Nobody, FALSE, "state")
  /\ UNCHANGED <<instanceVars, threadVars, commandVars, wild>>

\* A handler is at a stage, and what it is about to use still exists.  A
\* wild process takes no step.
At(stage) == req.stage = stage /\ ~req.freed /\ ~wild
GoTo(stage) == req' = [req EXCEPT !.stage = stage]

\* MUTANT of PostStart: no return after the failed start.
PostStartGoesOn ==
  /\ At("start")
  /\ \/ AskTo("launch", req.entry) /\ UNCHANGED instanceVars
     \/ req.entry = System /\ UnrefApp(req.app) /\ UNCHANGED commandVars
  /\ GoTo("state")
  /\ UNCHANGED <<threadVars, reply, wild>>

\* gdial_os_application_start: the host is asked to launch.  For "system" a
\* power action replaces the launch, or is refused for its key: the failed
\* start drops the instance.
PostStart ==
  /\ At("start")
  /\ \/ AskTo("launch", req.entry) /\ GoTo("state") /\ UNCHANGED <<instanceVars, reply>>
     \/ /\ req.entry = System
        /\ GoTo("state")
        /\ UNCHANGED <<instanceVars, commandVars, reply>>
     \/ /\ req.entry = System
        /\ UnrefApp(req.app)
        /\ Refuse(503)
        /\ UNCHANGED commandVars
  /\ UNCHANGED <<threadVars, wild>>

\* gdial_app_state: the instance takes the state the platform returns, and
\* the handler goes on with it.
ReadState ==
  /\ At("state")
  /\ \E s \in PlatState(name[req.app]) :
       /\ state' = [state EXCEPT ![req.app] = s]
       /\ \/ /\ req.kind \in {"POST", "GET"}
             /\ GoTo("answer") /\ UNCHANGED reply
          \/ /\ req.kind \in {"DELETE", "HIDE"} /\ s = "STOPPED"
             /\ Refuse(404)
          \/ /\ \/ req.kind = "DELETE" /\ s # "STOPPED"
                \/ req.kind = "HIDE" /\ s = "RUNNING"
             /\ GoTo("command") /\ UNCHANGED reply
          \/ /\ req.kind = "HIDE" /\ s = "HIDE"
             /\ Return
  /\ UNCHANGED <<live, name, held, threadVars, commandVars, wild>>

\* gdial_app_stop: always sent, whatever the cache says.
DeleteStop ==
  /\ At("command")
  /\ req.kind = "DELETE"
  /\ AskTo("stop", name[req.app])
  /\ GoTo("confirm")
  /\ UNCHANGED <<instanceVars, threadVars, reply, wild>>

\* gdial_app_hide: refused unless the cache, read again, says running.
HideCommand ==
  /\ At("command")
  /\ req.kind = "HIDE"
  /\ \E v \in SearchAppStatusInCache(name[req.app]) :
       \/ /\ v = "running"
          /\ AskTo("hide", name[req.app]) /\ GoTo("confirm") /\ UNCHANGED reply
       \/ /\ v # "running"
          /\ Refuse(500) /\ UNCHANGED commandVars
  /\ UNCHANGED <<instanceVars, threadVars, wild>>

\* The state is read again after a command; the last read counts.
Confirm ==
  /\ At("confirm")
  /\ \E s \in PlatState(name[req.app]) : state' = [state EXCEPT ![req.app] = s]
  /\ GoTo("answer")
  /\ UNCHANGED <<live, name, held, threadVars, reply, commandVars, wild>>

\* POST: 201 for a new instance or one that was hidden, never for "system".
PostAnswer ==
  /\ At("answer")
  /\ req.kind = "POST"
  /\ Answer("POST", req.url,
            IF req.entry # System /\ req.anew THEN 201 ELSE 200,
            state[req.app])
  /\ UNCHANGED <<instanceVars, threadVars, commandVars, wild>>

\* compare_versions(v, w) < 0
OlderThan(v, w) == \E k \in 1..3 : v[k] < w[k] /\ \A j \in 1..(k - 1) : v[j] = w[j]

\* gdial_app_state_response_new: clients before DIAL 2.1 do not know of hidden
\* applications, and are told that they are stopped.
Told(s, v) == IF s = "HIDE" /\ OlderThan(v, <<2, 1, 0>>) THEN "STOPPED" ELSE s

\* GET: a stopped application's instance is dropped.
GetAnswer ==
  /\ At("answer")
  /\ req.kind = "GET"
  /\ \E v \in ClientVersions : Answer("GET", req.url, 200, Told(state[req.app], v))
  /\ IF state[req.app] = "STOPPED" THEN UnrefApp(req.app) ELSE UNCHANGED instanceVars
  /\ UNCHANGED <<threadVars, commandVars, wild>>

\* MUTANT of DeleteAnswer: the reference is kept.
DeleteAnswerKeepsInstance ==
  /\ At("answer")
  /\ req.kind = "DELETE"
  /\ Answer("DELETE", req.url, 200, "STOPPED")
  /\ UNCHANGED <<instanceVars, threadVars, commandVars, wild>>

\* DELETE: the instance is dropped, whatever its state.
DeleteAnswer ==
  /\ At("answer")
  /\ req.kind = "DELETE"
  /\ Answer("DELETE", req.url, 200, "STOPPED")
  /\ UnrefApp(req.app)
  /\ UNCHANGED <<threadVars, commandVars, wild>>

HideAnswer ==
  /\ At("answer")
  /\ req.kind = "HIDE"
  /\ Return
  /\ UNCHANGED <<instanceVars, threadVars, commandVars, wild>>

\* The handler goes on with an object that the other thread has freed, or
\* searches the cache while the other thread changes it (between doIdExist and
\* findObject the entry may go, and the map may be rehashed under the search).
UseAfterFree ==
  /\ ~wild
  /\ \/ req.stage # "idle" /\ req.freed
     \/ req.stage \in {"state", "command", "confirm"} /\ work.op = "cache"
  /\ wild' = TRUE
  /\ UNCHANGED <<instanceVars, threadVars, req, reply, commandVars>>

-----------------------------------------------------------------------------
\* The request handler thread: one event of the host at a time.

WorkAt(op) == work.op = op /\ ~wild
ThreadIdle == WorkAt("none")

\* ApplicationStateChanged: UpdateAppStatusCache erases the old entry ...
StateChangedErase(n, v) ==
  /\ ThreadIdle
  /\ work' = [NoWork EXCEPT !.op = "cache", !.app = n, !.new = v]
  /\ UNCHANGED <<registered, cache, enabled, registrations, instanceVars, req,
                 reply, commandVars, wild>>

\* ... and inserts the new one.
StateChangedInsert ==
  /\ WorkAt("cache")
  /\ cache' = [cache EXCEPT ![work.app] = work.new]
  /\ work' = NoWork
  /\ UNCHANGED <<registered, enabled, registrations, instanceVars, req, reply,
                 commandVars, wild>>

\* ActivationChanged: the handler of the apps URI is added or removed.
ActivationChanged(b) ==
  /\ ThreadIdle
  /\ enabled' = b
  /\ UNCHANGED <<registered, cache, work, registrations, instanceVars, req,
                 reply, commandVars, wild>>

\* RegisterApplications: the list is built by prepending, so that it is
\* registered in the reverse order; gdial_rest_server_unregister_all_apps
\* begins.
RegisterApplications(list) ==
  /\ ThreadIdle
  /\ registrations < MaxRegistrations
  /\ registrations' = registrations + 1
  /\ work' = [NoWork EXCEPT !.op = "stop", !.todo = Reverse(list),
                            !.saved = registered]
  /\ UNCHANGED <<registered, cache, enabled, instanceVars, req, reply, commandVars, wild>>

\* The request being handled loses instance i or registry entry e.  POST
\* reads its entry when it starts the application, GET when it answers.
LoseInstance(i) ==
  req' = IF ~MainIdle /\ req.app = i THEN [req EXCEPT !.freed = TRUE] ELSE req
LoseEntry(e) ==
  req' = IF req.entry = e /\ (req.kind = "GET" \/ req.stage = "start")
         THEN [req EXCEPT !.freed = TRUE] ELSE req

\* Its first loop uses priv->registered_apps itself as the cursor: the list
\* seen by the main thread shrinks while the instances are stopped.  Nothing
\* is locked: the main thread may come between any two of the loop's calls.
\* gdial_app_find_instance_by_name
UnregisterFind ==
  /\ WorkAt("stop")
  /\ registered # <<>>
  /\ LET Found == FindInstanceByName(Head(registered))
     IN  \/ /\ Found = {}
            /\ work' = [work EXCEPT !.op = "next"]
            /\ UNCHANGED held
         \/ /\ held' \in Found
            /\ work' = [work EXCEPT !.op = "command"]
  /\ UNCHANGED <<registered, cache, enabled, registrations, live, name, state, req,
                 reply, commandVars, wild>>

\* MUTANT of UnregisterCommand: the host is not told.
UnregisterCommandTellsNobody ==
  /\ WorkAt("command")
  /\ held # 0
  /\ work' = [work EXCEPT !.op = "read"]
  /\ UNCHANGED <<registered, cache, enabled, registrations, instanceVars, req,
                 reply, commandVars, wild>>

\* gdial_app_stop.  "system" refuses, and is dropped without a further read.
UnregisterCommand ==
  /\ WorkAt("command")
  /\ held # 0
  /\ \/ /\ name[held] = System
        /\ work' = [work EXCEPT !.op = "drop"]
        /\ UNCHANGED commandVars
     \/ /\ name[held] # System
        /\ AskTo("stop", name[held])
        /\ work' = [work EXCEPT !.op = "read"]
  /\ UNCHANGED <<registered, cache, enabled, registrations, instanceVars, req,
                 reply, wild>>

\* gdial_app_state.  The cache changes in this thread only, so that the read
\* which ends gdial_app_stop returns the same.
UnregisterRead ==
  /\ WorkAt("read")
  /\ held # 0
  /\ state' = [state EXCEPT ![held] = ToAppState(cache[name[held]])]
  /\ work' = [work EXCEPT !.op = "drop"]
  /\ UNCHANGED <<registered, cache, enabled, registrations, live, name, held, req,
                 reply, commandVars, wild>>

\* g_object_unref, whatever the state that was read.
UnregisterDrop ==
  /\ WorkAt("drop")
  /\ held # 0
  /\ UnrefApp(held)
  /\ LoseInstance(held)
  /\ work' = [work EXCEPT !.op = "next"]
  /\ UNCHANGED <<registered, cache, enabled, registrations, reply, commandVars, wild>>

\* The instance that the loop found has been freed by the main thread.
UnregisterUseAfterFree ==
  /\ \E op \in {"command", "read", "drop"} : WorkAt(op)
  /\ held = 0
  /\ wild' = TRUE
  /\ UNCHANGED <<instanceVars, threadVars, req, reply, commandVars>>

\* The cursor goes on; inside the loop it is not NULL.
UnregisterNext ==
  /\ WorkAt("next")
  /\ registered # <<>>
  /\ registered' = Tail(registered)
  /\ work' = [work EXCEPT !.op = "stop"]
  /\ relaunched' = FALSE
  /\ UNCHANGED <<cache, enabled, registrations, instanceVars, req, reply, stopping, wild>>

\* The list is restored from its saved head ...
UnregisterRestore ==
  /\ WorkAt("stop")
  /\ registered = <<>>
  /\ registered' = work.saved
  /\ work' = [work EXCEPT !.op = "clear", !.saved = <<>>]
  /\ UNCHANGED <<cache, enabled, registrations, instanceVars, req, reply, commandVars, wild>>

\* ... and cleared, one entry after the other.
UnregisterClear ==
  /\ WorkAt("clear")
  /\ registered # <<>>
  /\ registered' = Tail(registered)
  /\ LoseEntry(Head(registered))
  /\ UNCHANGED <<cache, enabled, work, registrations, instanceVars, reply, commandVars, wild>>

RegisterBegin ==
  /\ WorkAt("clear")
  /\ registered = <<>>
  /\ work' = [work EXCEPT !.op = "add"]
  /\ UNCHANGED <<registered, cache, enabled, registrations, instanceVars, req,
                 reply, commandVars, wild>>

\* gdial_rest_server_register_app_registry: a name that already matches an
\* entry is refused, any other is prepended.
RegisterAppRegistry ==
  /\ WorkAt("add")
  /\ work.todo # <<>>
  /\ LET e == Head(work.todo)
     IN  registered' = IF FindAppRegistry(e) = {} THEN <<e>> \o registered ELSE registered
  /\ work' = [work EXCEPT !.todo = Tail(work.todo)]
  /\ UNCHANGED <<cache, enabled, registrations, instanceVars, req, reply, commandVars, wild>>

\* Last, "system" is registered if the command line enables it, and gets a
\* new instance.
RegisterSystem ==
  /\ WorkAt("add")
  /\ work.todo = <<>>
  /\ work' = NoWork
  /\ \/ /\ SystemEnabled
        /\ registered' = <<System>> \o registered
        /\ \E i \in NextId(System) : NewApp(i, System)
     \/ ~SystemEnabled /\ UNCHANGED <<registered, instanceVars>>
  /\ UNCHANGED <<cache, enabled, registrations, req, reply, commandVars, wild>>

-----------------------------------------------------------------------------
MainThread ==
  \/ \E n \in Name :
       \/ ReceivePost(n)
       \/ ReceiveGet(n)
       \/ ReceiveLocalGet(n)
       \/ ReceiveDialData(n)
       \/ ReceiveDelete(n)
       \/ ReceiveHide(n)
  \/ RefuseRequest
  \/ RefuseLocalRequest
  \/ PostStart
  \/ ReadState
  \/ DeleteStop
  \/ HideCommand
  \/ Confirm
  \/ PostAnswer
  \/ GetAnswer
  \/ DeleteAnswer
  \/ HideAnswer
  \/ UseAfterFree

RequestHandlerThread ==
  \/ \E r \in Reports : StateChangedErase(r[1], r[2])
  \/ StateChangedInsert
  \/ \E b \in BOOLEAN : ActivationChanged(b)
  \/ \E list \in AppLists : RegisterApplications(list)
  \/ UnregisterFind
  \/ UnregisterCommand
  \/ UnregisterRead
  \/ UnregisterDrop
  \/ UnregisterUseAfterFree
  \/ UnregisterNext
  \/ UnregisterRestore
  \/ UnregisterClear
  \/ RegisterBegin
  \/ RegisterAppRegistry
  \/ RegisterSystem

Next == MainThread \/ RequestHandlerThread

Spec == Init /\ [][Next]_vars
-----------------------------------------------------------------------------
(***************************************************************************)
(* Properties                                                              *)
(***************************************************************************)

\* Every application is a singleton (gdial-rest.c refuses to register any
\* other kind): whatever requests and registrations come in whatever order, no
\* two instances have the same name.  "system" is the exception, because the
\* request handler thread creates its instance too.
SingletonApps ==
  \A i, j \in live : name[i] = name[j] /\ name[i] # System => i = j

\* The instance a handler works on exists until the handler is done: no read of
\* a changing cache and no failed start takes it away from under it.  Only the
\* other thread can, in a registration.
HeldInstanceIsLive ==
  ~MainIdle => req.app \in live \/ (req.freed /\ registrations > 0)

\* An instance is only ever dropped when the application was seen stopped, or
\* when the last command to the host about it was a stop: no path loses a
\* running application.  The one exception is a registration that has told the
\* host to stop, and that a launch or a hide by the main thread overtakes
\* before it drops the instance.  ("system" cannot be stopped.)
DroppedOnlyWhenStopped ==
  [][\A i \in live \ live' :
       \/ name[i] = System
       \/ state[i] = "STOPPED"
       \/ name[i] \in stopping'
       \/ i = held /\ relaunched]_vars

\* The reply tells its client that the application is stopped (GET), or that it
\* has been stopped (DELETE).
SaysStopped ==
  /\ reply.code = 200
  /\ reply.kind \in {"GET", "DELETE"}
  /\ reply.kind = "GET" => reply.state = "STOPPED"

\* A client that uses the name an application is registered under, and is told
\* that it is stopped, can launch it anew and will be answered 201: POST, which
\* looks for the entry's name, finds no instance, or, after a GET of an old
\* client, a hidden one, which it launches like a new one; or one that a
\* registration is about to drop.  (A client that uses another name which the
\* entry matches has no such promise, see AliasAllowsLaunch; "system" is never
\* launched.)
StoppedReplyAllowsLaunch ==
  SaysStopped /\ reply.url # System /\ FindAppRegistry(reply.url) = {reply.url}
  => \A i \in FindInstanceByName(reply.url) :
       i = held \/ (reply.kind = "GET" /\ state[i] = "HIDE")

-----------------------------------------------------------------------------
\* What the code or its comments say and TLC refutes (README, section 5).

\* gdial-plat-app.c:189: "upon return, the app must be in running state".
StartLeavesAppRunning ==
  reply.kind = "POST" /\ reply.code = 201 => reply.state = "RUNNING"

\* gdial-app.c:271 asserts GDIAL_IS_APP(app) on every call of gdial_app_state:
\* the instance a handler goes on with exists.
HandlersUseLiveObjects == ~wild

\* gdial-rest.c:1219: "Stopping all registread Apps".  When the loop under
\* that comment ends and no request is under way, no instance of a registered
\* application is left, whichever of its names the instance has.
StopAllReachesEveryInstance ==
  MainIdle /\ work.op = "stop" /\ registered = <<>> =>
    \A i \in live, e \in Range(work.saved) : ~Match(e, name[i])

\* gdial-rest.c:1219, again: no instance is dropped whose application was last
\* told to do something else.  A POST between the stop and the unref launches
\* the application whose instance is then dropped.
StoppedBeforeDropped ==
  [][\A i \in live \ live' :
       name[i] = System \/ state[i] = "STOPPED" \/ name[i] \in stopping']_vars

\* gdial-rest.c:433 launches the entry's instance, gdial-rest.c:560 reads the
\* instance of the URL's name.  A client of any name that is told that the
\* application is stopped can launch it anew.
AliasAllowsLaunch ==
  SaysStopped /\ reply.url # System =>
    \A e \in FindAppRegistry(reply.url) : \A i \in FindInstanceByName(e) :
      i = held \/ (reply.kind = "GET" /\ state[i] = "HIDE")

\* gdial.cpp:766: "return cache, but also trigger a refresh".  What a handler
\* reads is the cached report of the host, old or new.
ReadsReturnTheCache ==
  [][\A i \in live :
       /\ req.stage = "state" /\ i = req.app /\ ~req.freed
       /\ name[i] # System
       /\ state'[i] # state[i]
       => \/ state'[i] = ToAppState(cache[name[i]])
          \/ work.app = name[i] /\ state'[i] = ToAppState(work.new)]_vars
=============================================================================
