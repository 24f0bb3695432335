# A TLA+ model of xdialserver

xdialserver is the DIAL 2.2.1 server of the RDK: it announces a device on the
local network (SSDP), serves its description (`dd.xml`), and lets clients
launch, query, hide and stop applications over HTTP (the REST server). It runs
as a library inside a host process, which starts and stops the applications and
reports their states.

This directory holds TLA+ modules translated from the source under
`src/server/`, configurations that check them with TLC, and proofs checked by
TLAPS. `PROJECT.json` maps every modelling definition to the source lines it
stands for.

## 1. Inventory

### Threads

| Thread | Code | What it does |
|---|---|---|
| host | outside | calls `gdialService::getInstance()`, `destroyInstance()` and the API (`ApplicationStateChanged`, `ActivationChanged`, `RegisterApplications`, ...) |
| main | `mainThread` | GLib main loop: all HTTP requests, one at a time |
| request handler | `requestHandlerThread` | takes the host's events from a queue and applies them |
| response handler | `responseHandlerThread` | takes the server's requests to the host from a queue and calls the host's observer |

The application registry, the application instances and the cache of
application states are shared by the main and the request handler thread
**without a lock**. The names in `dd.xml` have a mutex. The event queues have a
mutex that senders hold and the handler threads mostly do not.

A fourth thread may be there without the server knowing of it: timeout sources
added with `g_timeout_add` belong to GLib's *default* main context, while the
server's main thread runs a context of its own. They are dispatched by a thread
of the host that runs the default context, or never.

### Components

| Component | Source | State | Operations | Hard behaviour | What makes it correct |
|---|---|---|---|---|---|
| Event queues | `gdialservice.cpp` | two queues with `Run` and `Exit` flags | `sendRequest`, `notifyResponse`, two loops, exit handshake | unlocked accesses, lost wakeups, stop at any point | FIFO, each event once; a stop always ends the thread |
| REST server | `gdial-rest.c` | registry of applications, enabled handler | POST, GET, DELETE, hide, additional data; register, unregister all | the registry is replaced while a request is handled | one instance per application; no running application is dropped; a client is told the truth |
| Application instances | `gdial-app.c` | list of instances, each with a name and a state | new, start, hide, stop, state, unref | aliases (prefix match), release in the middle of a handler | a handler uses live instances |
| State cache | `gdialappcache.cpp`, `gdialobjCacheHelper.hpp` | name to last reported state | update (erase, insert), search | erase and insert are two steps | a read returns a report |
| Platform | `plat/gdial.cpp` | callbacks, the observer | forwards commands to the host and events from it | a launch is asynchronous | commands reach the host |
| Discovery | `gdial-ssdp.c` | names, cached `dd.xml`, resource group, headers | new, destroy, setters, GET `dd.xml` | the cache is shared with responses in flight | the description is current; its memory is alive |
| Activation | `server_activation_handler` | announced, handler installed | activate, deactivate | runs on two threads during a stop | announced if and only if served |
| Life cycle | `gdialservice.cpp` | service object, thread handles, ports, main loop | start, stop, destroy | every step can fail; threads clear their own handles | a started service is complete, a stop returns |
| Message flow | `gdialservice.cpp`, `plat/gdial.cpp` | both queues, two observer pointers | a command to the host, a report back | observers set after the threads run; a stop at any point | the cache ends with the truth |
| Routing | `gdial-rest.c`, `gdial_app_registry.c` | none | method, path and origin to a handler | empty and too long elements | only documented requests reach an application |
| Additional data | `gdial-util.c`, `gdial-app.c` | a table per instance, and a file | post, show, write, read | the file is removed before it is written again; unchecked failures | what is shown is what was posted |
| Uuid files | `gdial_app_registry.c`, `gdialservice.cpp` | the URIs of entries and of the server, a file each | read or draw and write, hand out, look up | the file is emptied before it is written | a URI that was handed out stays that of its owner |
| Connection shield | `gdial-shield.c` | table of connections with a read timer each | started, read, aborted, timeout, term | a timer dispatched while its request ends; addresses used again | timers follow requests; a slow request ends |
| Asynchronous platform calls | `plat/gdial-plat-app.c` | table of the contexts of pending calls | state query after a start, its callback, term | sources on another thread, a table without a lock | every context is freed once; the callback comes |

All of these are modelled. Utilities, logging, the stubs, the test program
`gdialserver_ut.cpp` and the start-up scripts have no logic of their own that a
model would show anything about (section 8).

The hazards of this code, each at its line and with the properties that watch
it, are listed in `PROJECT.json`.

## 2. Modules

| Module | Models | Extends / uses |
|---|---|---|
| `EventChannel` | what the callers of `sendRequest()` and `notifyResponse()` are promised (abstract) | |
| `HandlerQueue` | one event queue, its senders, its handler thread and the exit handshake | implements `EventChannel` |
| `RestServer` | REST server, application instances, state cache; main and request handler thread | |
| `MCRestServer` | instances of `RestServer` for TLC | `RestServer` |
| `Discovery` | SSDP, `dd.xml`, activation from two threads, stop and restart | |
| `ServiceLifecycle` | `getInstance()`, start, threads, stop, `destroyInstance()` | |
| `Dial` | the service between its REST server and its host: commands out, reports back, observers, stop | two instances of `EventChannel` |
| `Routing` | which handler a request reaches, origins included | |
| `DialDataText` | table of additional data to text and back (recursive) | |
| `AdditionalData` | the tables of the instances and their files, with failures, crashes and reboots | |
| `UuidFiles` | the uuids that name local URIs and the REST server's URI, and their files | |
| `DefaultContext` | constants of the next two: whether a thread of the host runs GLib's default context | |
| `Shield` | connections, their read timers and the thread that dispatches these | |
| `PlatAsync` | contexts and sources of the state query after a start | |
| `MCDial`, `MCRouting`, `MCAdditionalData`, `MCUuidFiles` | instances for TLC; `MCAdditionalData` joins `AdditionalData` with `DialDataText` | |

Theorems are in modules of their own, which extend a component and `TLAPS`:
`HandlerQueueProofs`, `RestServerProofs`, `DiscoveryProofs`,
`ServiceLifecycleProofs`, `DialProofs`, `AdditionalDataProofs`, `UuidFilesProofs`
and `TimeoutProofs` (section 6). `RestServerProofs` extends `RestServer` and
`Routing`, which are both of `gdial-rest.c`; `TimeoutProofs` extends `Shield` and
`PlatAsync`, whose timeouts are dispatched by the same thread. `Routing` and
`PlatAsync` therefore have names of their own for their specifications
(`RoutingSpec`, `AsyncSpec`).

An operator marked `MUTANT` is a plausible bug; no specification uses it. Each
property of a passing run has one that makes TLC report a violation.

### HandlerQueue and EventChannel

`gdialservice.cpp` has the same code for requests and for responses; the model
is of one of them and is named after the request side. `run`, `exit` and
`queue` are the members `m_RequestHandlerThreadRun`, `...Exit` and `...Queue`.
A sender holds the mutex for two steps (`Push`, `Signal`), because the thread
reads the queue without the mutex and can do so inside a push. The thread's
loop is one action per access to shared state: `LoopTest`, `WaitForRun`,
`ExitTest`, `EmptyTest`, `ClearRun`, `Take`, `Dispatch`. A thread that finds no
`Run` is `"blocked"` until `notify_one()` or a spurious wakeup.

`std::queue` does not allow a push concurrent with `empty()`, `front()` or
`pop()`. A thread step inside a push is such a data race; its outcome is a
choice (the element may be seen early, a payload read half-written, a pop
undone), and the history variable `raced` records it. Accesses to the Boolean
flags without the mutex are races too; they are modelled as atomic reads and
writes, which is what every build of a `bool` does.

The observer is taken to be set when events are dispatched.

### RestServer

`registered` is `priv->registered_apps` as a lookup sees it (in
`gdial_rest_server_unregister_all_apps` the list head itself is the loop's
cursor, so the list shrinks and comes back). `live`, `name` and `state` are the
instances; the list is searched from its newest element, and of two instances of
one name the larger id is the newer one. `cache` holds the last reports.

The main thread handles one request (`req`), which goes through stages at its
calls into the platform, since each of them reads the cache:

    POST    start -> state -> answer
    GET     state -> answer
    DELETE  state -> command -> confirm -> answer
    hide    state -> command -> confirm -> answer

The request handler thread (`work`) applies one event at a time. An update of
the cache is two steps. A replacement of the registry stops and drops the
instances of the entries one after the other, in the calls of
`gdial-rest.c:1219-1234`, none of which is locked:

    UnregisterFind -> UnregisterCommand -> UnregisterRead -> UnregisterDrop -> UnregisterNext

so that a request of the main thread can come between any two of them. `held` is
the instance that this loop has found; if the main thread drops it meanwhile, the
loop goes on with freed memory (`UnregisterUseAfterFree`). `stopping` are the
applications that the host was last told to stop, and `relaunched` says that the
one in `held` was told something else after the loop had told it to stop. Each
operation on a `GList` is a step: races inside one list operation are not
modelled. If the other thread frees what a handler still holds, or changes the
cache under a search, the handler's next use of it makes the process `wild`, and
the specification says nothing of what follows. (The search may also survive: both
outcomes are explored.)

A name is a member of a small set; `Prefixed` gives the names that match an
entry by prefix: such a name is an alias of the entry until the host registers
it too. POST uses the instance of the entry's name, GET, DELETE and hide that of
the name in the URL. Requests that change nothing are folded into `RefuseRequest`
and `RefuseLocalRequest`. The environment is free: clients send any request,
the host reports any state at any time, so the queries that the server sends to
the host need not be modelled. `RegisterApplications` takes at most 64
applications; the lists here are shorter.

What a client is told depends on the DIAL version that it sends
(`ClientVersions`): a hidden application is "stopped" for a client older than
2.1 (`OlderThan`, `Told`). `<<0, 0, 0>>` is a client that sends no version.

### Discovery

The names and the cached description are accessed under a mutex, so each access
is one step. `server_activation_handler` is three steps (name, announcement,
handler) and runs in either of two threads (`handler["request"]`,
`handler["stop"]`). One response to GET `dd.xml` is in flight at a time: its body
is the cached string (`SOUP_MEMORY_STATIC`), and `response.alive` says whether
that memory is still allocated. Command line options change between two starts;
the names set by the host survive a stop.

### ServiceLifecycle

`host` is the place of the host's thread in the code. A start creates a main
loop, listens on three ports, sets up the servers and creates three threads;
each of these can fail. A server that listens when a later listen fails is in no
variable of the program, so its port stays `"leaked"`. The code ignores what
`pthread_create` returns and tests the handles, whose value is undefined after a
failure (glibc stores it before the thread exists): a handle is `"zero"`, `"set"`,
or `"garbage"`, which is not 0 and belongs to no thread, and the start succeeds if
no handle is 0 (`CreateThreads`). `SetService` then gives `m_observer` its value,
with the threads running. A thread leaves its loop when it is told (how the handler
threads do is shown in `HandlerQueue`), clears its handle, and runs its tail; that
of the response handler calls `onStopped()` through `m_observer`, which has no value
(`observer`) if the start stops itself. `missed` records that the main thread's loop
was not told to quit, and `wild` that a deleted object or an observer without a value
was used, or a handle joined that is no thread's. Each of these may also go well:
both outcomes are explored.

### Dial

The queues are taken as what `HandlerQueueProofs` shows them to be: two
instances of `EventChannel`, `Commands` (`notifyResponse`) and `Reports`
(`sendRequest`), whose actions are conjoined with what the caller or the
receiver does. `ReadState` and `AskHost` are the calls of `gdial.cpp` on the
main thread; `HostExecutes` is the response handler thread inside the host's
callback; `ApplicationStateChanged` is the request handler thread updating the
cache. `phase` is the progress of the start (threads, then the observer of
`GDialCastObject`, then that of `gdialServiceImpl`) and of the stop. Both
observer pointers are uninitialised members: before they are set a command is
dropped (`lost`), or the process is `wild`.

The host is external. It is assumed to carry out a command and to answer a
state request with a report, and to make its reports in the order of its
changes; the model says nothing of a host that reorders them, which the code
could not detect.

### Routing

A behaviour is one request, which `AppsCallback` or `LocalCallback` routes.
Path elements are known by what the code tells apart: empty, too long for a
buffer, what is left of that one, the base, a name, a number, a keyword. `CopyCheck`
is the loop that compares the copies with the path and that overruns its list when
an element is empty; from then on the copies (`BaseElem`, `AppElem`,
`InstanceElem`, `LastElem`) are used, as in the code. `"cut off"`, what a too long
element becomes, is a registered name too in the run: without the comparison a
request for another application would be taken for one of this name.

### DialDataText and AdditionalData

A text is a sequence of characters, of which only white space is special.
`ScanPairs` is the `sscanf` loop, with its advance by the lengths of what was
scanned. `AdditionalData` takes the conversions as parameters (`Encode`,
`Decode`, `Plain`). A POST is split at the file operations (`DeleteFile`,
`CreateFile`, `WriteFile`), each of which can fail without the handler noticing,
and a `Crash` can come between any two. `spoiled` and `blank` record that a
write, or a read, did not succeed.

### UuidFiles

One owner per file: the applications (`/tmp`) and `Device`, the REST server
itself (`/opt`, which survives a `Reboot`). `reg` is the registration in
progress: draw, open (which empties the file), write. `unkept` records whose file
does not hold the uuid in use.

### Shield

A request is numbered; the number stands for its context and its timer. `msgs`
are the addresses of messages, which are used again. `host` is the thread that
dispatches the timers: `Fire` (the callback is entered), `Lookup` (of whatever is
under its address now) and `Close`. `ShieldTerm` changes the table under its
iterator, so any nonempty part of the table may be visited.

### PlatAsync

`table` and `sources` are the contexts in the hash table and those that a live
source holds; `dispatcher` is the thread that dispatches the sources. `StateAsync`
adds the source, `Insert` enters the context; the source may end in between.
`Collide` and `UseFreed` are the two ways in which the threads get in each other's
way; the process is then `corrupt`, and nothing is said of what follows.

## 3. Runs

All numbers are distinct states.

| Run | Configuration | States | Result |
|---|---|---|---|
| `queue` | `HandlerQueue.cfg`: 2 events, 3 sends | 56,680 | holds |
| `queue_lost_wakeup` | `HandlerQueueLostWakeup.cfg`: 1 event, 2 sends | | violated, see 5 |
| `rest_server` | `RestServer.cfg`: 2 applications (one an alias of the other until it is registered) and "system", 2 lists, 1 registration, 3 reports | about 5.3 million | holds |
| `discovery` | `Discovery.cfg`: 2 host names, 2 options, 2 headers | about 1.6 million | holds |
| `lifecycle` | `ServiceLifecycle.cfg`: 3 main loops | 154,889 | holds |
| `dial` | `Dial.cfg`: 2 applications, 2 commands, 1 change by the host | about 1.4 million | holds |
| `additional_data` | `AdditionalData.cfg`: 1 application and an alias, 4 tables of up to 3 pairs | 90,294 | holds |
| `uuid_files` | `UuidFiles.cfg`: 2 applications and the device, 4 uuids | 46,216 | holds |
| `routing` | `Routing.cfg`: all paths of up to 4 elements | 158,670 | holds |
| `plat_async` | `PlatAsync.cfg`: 2 applications, 3 contexts, 1 stop | 51,964 | holds |
| `plat_async_no_loop` | `PlatAsyncNoLoop.cfg`: the same, no thread runs the default context | | violated, see 5 |
| `shield` | `Shield.cfg`: 2 addresses, 4 requests | 28,058 | holds |

What the passing runs show:

- `queue`: `FifoUnlessRaced` (nothing lost, duplicated or reordered unless the
  queue was touched inside a push), `StoppedThreadNeverBlocks` and
  `StopTerminatesThread` (the exit handshake works although `Exit` is set
  outside the mutex and the thread clears `Run` without it), and
  `ImplementsChannel`: the code implements `EventChannel`. In particular at most
  one event is taken after `Exit` is set.
- `rest_server`: `SingletonApps` (never two instances of one name, "system"
  excepted), `StoppedReplyAllowsLaunch` (a client that uses the name an application
  is registered under, and is told that it is stopped, finds when it launches it
  either no instance, or a hidden one that the launch starts again, for every client
  version, or one that a registration has found and is about to drop),
  `DroppedOnlyWhenStopped` (no path releases the instance of an application that
  neither was seen stopped nor was last asked to stop, except the one that a POST
  launched again between the stop and the release of a registration) and
  `HeldInstanceIsLive` (the instance a handler works on is taken from it by a
  registration and by nothing else). The two excepted cases do happen, see 5, and so
  does what a client of an alias can be told.
- `discovery`: `DdXmlCurrent` (the cache is never stale, across setters,
  activations and restarts) and `AnnouncedIsServed` (outside an activation change,
  the device is announced if and only if its REST handler is installed; it fails
  while a stop runs beside the request handler thread, which is why the property
  is limited to a service that is not being stopped).
- `lifecycle`: `UpMeansServing` (a start that returns success has its ports, and its
  threads except for one whose creation failed without the code noticing, whatever
  failed before), `ReleasedAfterTheLoops` (nothing that the threads use is released
  while one is in its loop, even where the join was skipped or had no thread to
  wait for), and `StopReturns`, which states the two ways in which a stop can hang;
  it says nothing of a process that is wild.
- `dial`: `LastWordIsTrue` (commands, changes of the host and a stop, in any order,
  leave no wrong state in the cache once the reports on their way have arrived) and
  `ReadMakesKnown` (what a client has read is known, or on its way, unless the
  observers were not set yet).
- `additional_data`: `GetShowsPosted` (a GET shows the last post, through new
  instances and after crashes, unless the write or the read failed; TLC evaluates
  `PlainAssumption`, that a table of words is read as it was written in every order
  of the hash table, before the run), `DataIsOfOnePost` (whatever fails, data is
  never a mixture of two posts) and `CutSpoilsOnePair` (a file that was cut off
  anywhere yields at most one pair that was not posted).
- `uuid_files`: `PostReachesItsOwnEntry` (a URI that was handed out at any time leads
  to its own entry or to none) and `UriOutlivesTheServer` (it stays valid unless the
  file was lost).
- `routing`: `HandledIsDocumented` (no element is passed over, cut off or taken for
  another) and `OriginIsRespected`.
- `plat_async`: `TableHoldsPending` (the table holds the contexts of the live
  sources; the only one left behind is one whose source ended before it was
  entered) and `ContextsAccountedFor` (no context is lost and none is freed twice,
  in every order of the two threads and through a restart). The host's thread runs
  in this run, because that is when the two threads can get in each other's way.
- `shield`: `TimersFollowRequests` (whichever way a request ends, its timer is called
  off), `TimeoutStrikesItsOwn` (a timer closes another request only if it was being
  dispatched when its own request ended, or was left behind by such a one) and
  `SlowRequestIsTimed` (no order of events at one address leaves a request that is
  being read without its own timer, unless its socket is closed already).

### Bounds

- `MaxSends` = 3: one event in hand, one queued and one being pushed, with a stop
  at any point. Two distinct events are enough to tell an order.
- `MaxInstances` = 3: one instance for each of the two names, and one for "system"
  (or two, since "system" can exist twice). A request for a
  further instance waits for a free id; ids are reused.
- `MaxRegistrations` = 1: from a registry with the command line's application and
  "system", instances and a request in flight, to one without that application
  (`<<"spotify-kids">>`, a name that was an alias before) or to one with both.
- The reports are the states that the requests tell apart: running and suspended for
  one application, running for the other; one without a report counts as stopped.
- `MaxWakeup` = 2: the second header is the one that should not be there.
- `MaxStarts` = 3: a start that fails, one that succeeds and one while it runs, in
  every order.
- `MaxCommands` = 2, `MaxChanges` = 1: a command in the host's hands, one queued
  behind it and a change of the host between the two, for one application or two.
- `MaxKvLen` = 2: words at the maximal width are among the tables. Three pairs let
  an advance that is off by one run into a pair that follows. One application is
  enough, since the alias is a name whose data must never appear.
- `Uuid` has 4 members: each of the three owners draws one, and one draws again.
- `Context` has 3 members: one in dispatch, one in the table, one being entered.
- `MaxRequests` = 4 on 2 addresses: a timer that is overtaken, the request that takes
  over its address, the one after that, and one elsewhere.

The applications of `Dial` and `UuidFiles` are interchangeable and these runs use
symmetry; they check no liveness. The names of `RestServer` are not
interchangeable, and the other state spaces do not need it.

### Deadlock

It is checked in `discovery`, `additional_data` and `uuid_files`. In the other runs
the system may stop: a thread ends, a process that used freed memory takes no
step, bounded requests or commands are used up, a request of `routing` is answered,
and `lifecycle` can hang in a join, which is what `StopReturns` is about.

## 4. Fairness

`HandlerQueue`: weak fairness of the sender that holds the mutex and of the
handler thread (the scheduler runs them), strong fairness of taking the mutex
(`WaitForRun`, `StopNotify`), because other senders can take it again and again
and the mutex has to be granted eventually. Nobody has to send or stop, and
spurious wakeups are not fair: a missed notification is not repaired by one.

`ServiceLifecycle`: weak fairness of the host's thread once it has been called,
and of each thread. No fairness for the host's calls or for other processes.

`PlatAsync` and `Shield`: strong fairness of the dispatch of each source, since
GLib dispatches every source whose time has come and the thread of the default
context is busy with others in between; weak fairness of the steps of a callback
and of the main thread's next statement. In `Shield` a message whose socket was
closed ends (libsoup). But the dispatch is possible only if a thread of the host
runs the default context (`HostRunsLoop`), and nothing in the code provides one:
the server's loop runs a context of its own (`gdialservice.cpp:274`). So no passing
run rests on this fairness. The run `plat_async_no_loop` shows that
`StartIsFollowedByCallback` fails in the server as it is, and `SlowRequestEnds` fails
in the same way. (With `HostRunsLoop = TRUE` TLC finds both to hold: the host's loop
is all that is missing.)

The other specifications only state safety.

## 5. Disagreements between the code and what it says

Two are runs that TLC must find violated, `queue_lost_wakeup` and
`plat_async_no_loop`, and findings in `PROJECT.json`. The others are kept as
definitions in their modules, under "What the code or its comments say and TLC
refutes": added to the configuration named here, they are violated.

| Property | Configuration | What the code does |
|---|---|---|
| `BlockedOnlyWhenEmpty` | `HandlerQueueLostWakeup` | Lost wakeup: the thread finds the queue empty, a sender pushes and sets `Run`, the thread clears `Run` and blocks with an event in the queue (`gdialservice.cpp:650-653`, 751-754). The event waits for the next one. |
| `HandlersUseLiveObjects` | `RestServer` | `RegisterApplications` frees instances and entries on the request handler thread under a handler of the main thread (`gdial-rest.c:1232`), which `gdial-app.c:271` asserts to be alive; and a GET or DELETE frees the instance that the loop at line 1219 has found. |
| `ReadsReturnTheCache` | `RestServer` | A running application is reported stopped if it is read between the erase and the insert of a cache update (`gdialappcache.cpp:76`); `gdial.cpp:766` says "return cache, but also trigger a refresh". |
| `ServedBodyIsAlive` | `Discovery` | A name change frees the body of a response to GET dd.xml that is in flight (`gdial-ssdp.c:343`); line 95 says "there is no variant here, so we can cache the response". |
| `StartLeavesAppRunning` | `RestServer` | 201 is answered with the instance still stopped; `gdial-plat-app.c:189` says "upon return, the app must be in running state". |
| `StopAllReachesEveryInstance` | `RestServer` | GET creates an instance under the URL's name, and the loop that stops all applications (`gdial-rest.c:1219`) looks for the entry's name. |
| `StoppedBeforeDropped` | `RestServer` | A POST between `gdial_app_stop` and `g_object_unref` of the loop that stops all applications (`gdial-rest.c:1224`, 1232) launches the application again, and its instance is then dropped; line 1219 says "Stopping all registread Apps". |
| `AliasAllowsLaunch` | `RestServer` | GET reads the instance of the URL's name (`gdial-rest.c:560`), POST launches that of the entry's name (line 433): a client of an alias is told "stopped", and its launch finds the entry's instance running (200 in place of 201). |
| `UpHasItsThreads` | `ServiceLifecycle` | A failed `pthread_create` may leave a handle that is not 0, which the test at `gdialservice.cpp:512` ("Failed to create gdialserver thread") takes for a thread: the start succeeds without it. |
| `StoppedTellsObserver` | `ServiceLifecycle` | A start that stops itself for want of a thread ends the response handler, whose `onStopped()` (`gdialservice.cpp:828`) goes through `m_observer`, which has no value before line 940. |
| `AnyTableIsShown` | `AdditionalData` with `Table <- MCAnyTables` | An empty value or a blank in a value does not survive the file (`gdial-util.c:65`); `gdial-rest.c:631` says "Cache dial_data so as to use on future queries". |
| `DocumentedIsServed` | `Routing` | GET of an instance is answered 501, and POST of dial_data on the REST server reaches no handler (`gdial-rest.c:932`, 959), though lines 777-782 list both. |
| `EmptyElementIsRefused` | `Routing` | A path with an empty element makes the comparison go past the end of the elements (`gdial-rest.c:849`); line 814 says "do not allow any element to be empty". |
| `StartIsFollowedByCallback` | `PlatAsyncNoLoop` | The source is on GLib's default context, which no thread of the server runs (`gdial-plat-app.c:273`); `gdial-rest.c:509` says "there will be followed by a RUNNING callback". |
| `FreedWithoutSource` | `PlatAsync` | A stop frees contexts that sources still hold, against the assertion in `gdial-plat-app.c:101`. |
| `SignalsTheStartedApp` | `PlatAsync` | Every instance has the id 0, so the callback signals the newest one (`gdial-app.c:91`). |
| `SlowRequestEnds` | `Shield` with `HostRunsLoop = FALSE` | The read timeout is on the default context too (`gdial-shield.c:106`): a slow request is never closed, though line 59 says of the timeout "this will trigger abort callback". |

Two more facts are visible in the models and contradict no statement of the
repository: calling `getInstance()` while the service runs makes the process
hang in `pthread_join` (the second start replaces `m_main_loop`, fails to
listen, and stops the wrong loop), and a start that fails at its second or third
listen keeps its ports until the process ends.

## 6. Proofs

All theorems are checked by TLAPS for every value of the constants that
satisfies the named assumptions. These say that the special values are distinct
from the others, that bounds are natural numbers, and what kind of thing the
other constants are. `AdditionalData` also assumes of its conversions that a text
is a sequence (`TextAssumption`) and that a plain table is read back from its
text (`PlainAssumption`); `MCAdditionalData` gives it those of `DialDataText`, of
which TLC evaluates both.

Few of the properties are inductive. Each inductive invariant is a conjunction of
named parts, was checked by TLC on the instance of the component's run before it
was proved, and has one proof step per action. Types come first: `TypeInv` is
`TypeOK` with what the types of a step need besides.

`HandlerQueueProofs`

- `TypeCorrect`: `Spec => []TypeOK`.
- `Fifo`: `Spec => []FifoUnlessRaced`. Not inductive: `Take` must not find the
  queue empty. The strengthening `TakeFindsEvent` says that, without a race, the
  queue is not empty at `"take"`; it holds because the thread is the only one
  that pops.
- `StopIsSafe`: `Spec => []StoppedThreadNeverBlocks`. The strengthening
  `ExitFollowsStop` says that `exit` is set as soon as a stop is under way; then
  the thread can clear `Run` only on the way to `LoopTest`, which ends it.
- `QueueImplementsChannel`: every step of the code is a step of `EventChannel` or
  leaves it unchanged. `Push` is its `EndSend`, an `EmptyTest` that sees an empty
  queue after the close is `Expire`, a racing access is `Spoil`.
- `StopIsFinite`: what `StopTerminatesThread` rests on besides fairness. A notified
  thread has at most four steps before its end (`StepsLeft`), and no send, no wakeup
  and no `Run` flag ever gives it more. With `StopIsSafe`, the thread never waits on
  the way; that it takes its steps is left to the scheduler.

`RestServerProofs`

- `RestTypeCorrect`: `Spec => []TypeOK`. A handler uses `name[req.app]`, so the
  types need `HandlerHasInstance`: its instance is live, or marked as freed.
- `AppsAreSingletons`, `HeldInstancesLive`, `StoppedCanBeLaunched`: `SingletonApps`,
  `HeldInstanceIsLive` and `StoppedReplyAllowsLaunch` are parts of one invariant,
  `RestInv`, because they need each other. What a GET or DELETE drops is the
  instance of the URL's name (`HandlerNames`), and a client of the entry's own name
  can launch anew because it was the only one (`NoInstanceIsLeft`); a reply stands
  only while no handler is at work whose reads of the state could contradict it
  (`BusyHasNoReply`). Of the other thread, `ThreadInv` says that a free by it counts
  as one of a registration (`RegistrationsCounted`), that it holds an instance only
  between its find and its drop (`HeldInRegistration`), and that the host was told to
  stop what it is about to drop, or was told something else since
  (`RegistrationTold`).
- `NoRunningAppIsDropped`: `Spec => DroppedOnlyWhenStopped`, an action property. A
  DELETE drops its instance "whatever its state"; `ToldToStop` says that the host
  was told two steps before, and that nothing in between took that back. For a
  registration the same is said by `RegistrationTold`, over three steps between any
  two of which the main thread may launch the application again.

- `CopiesAreThePath`, about `CopyCheck`: when the loop finds no difference,
  nothing is empty, so that the place of an element among the nonempty ones is its
  number (`PlaceIsNumber`), and each buffer holds the element of the path that it
  stands for.
- `OnlyDocumentedIsHandled` and `OriginsAreRespected`:
  `RoutingSpec => []HandledIsDocumented` and `[]OriginIsRespected`. By `RoutedInv` an
  answer is what `Route` makes of the request. The lemma `HandledRequest` goes
  through the callback: who reaches a handler passed every test, and what was tested
  was the path as the client gave it, by `CopiesAreThePath`.

The lemmas `PostHolds`, `GetHolds`, `DataHolds` and `HeldInstance` describe the
beginning of every request once: an instance of the name is found, or a new one
is created because there was none.

`DiscoveryProofs`

- `DiscoveryTypeCorrect`: `Spec => []TypeOK`.
- `CacheIsCurrent`: `Spec => []DdXmlCurrent`. The strengthening says that there is
  no cached description when the service is down: that is the moment at which the
  options change.
- `AnnouncedServed`: `Spec => []AnnouncedIsServed`. The invariant describes the
  activation handler half way (`HalfWay`), that the stop's handler is active only
  during a stop, that nothing is announced when the service is down, and that
  only a client can announce.

`ServiceLifecycleProofs`

- `LifecycleTypeCorrect`: `Spec => []TypeOK`.
- `UpServes`: `Spec => []UpMeansServing`. The invariant follows the start: the loop
  it creates was never told to quit (`LoopIsNew`), the ports are there in the
  order in which they are opened (`PortsInOrder`), no thread is told to exit before
  a stop (`NotToldToExit`), and the main thread runs the loop that the stop will
  quit (`RunsTheLoop`). That a thread is there is proved of those whose handle is
  not `"garbage"`.
- `ReleasesAfterTheLoops`: `Spec => []ReleasedAfterTheLoops`. A join is skipped if
  the thread has cleared its handle. That is safe because a thread in its loop has
  its handle (`AliveHasHandle`) and a handle that is no thread's does not hide one
  (`GarbageOfNone`), so that the threads passed over have left it
  like those that were joined (`JoinedHaveLeft`).
- `JoinsTheTold` and `StopComesToItsEnd`: what `StopReturns` rests on besides
  fairness. `stop_GDialServer()` waits only for a thread that exists and, if it is in
  its loop, was told to leave it, unless the quit missed the main loop; where the
  handle is what a failed `pthread_create` left there is no thread to wait for
  (`JoinedWasTold`). The invariant `ToldInv` says that a handle that was set stands for a
  thread (`HandleOfThread`), that those before the one being joined are cleared
  (`JoinedHandles`), that a main thread that is alive has a loop to be told to quit
  (`LoopOfMain`), and who was told what (`ToldToExit`, `MainWasTold`). And the stop
  itself has at most twenty steps, of which every one leaves fewer
  (`StopStepsLeft`), also when a failed start calls it twice.

`DialProofs`

- `DialTypeCorrect`: `Spec => []TypeOK`. `TypeOK` speaks of what is on its way in a
  channel as one sequence; `TypeInv` of its three parts, with at most one event in
  hand. The lemmas `CommandSent`, `CommandMoved`, `CommandDelivered` (and those of
  the reports) say what `EventChannel` does to that sequence: append, nothing,
  remove the first. `VisibleSteps` reduces `Next` to six kinds of step.
- `LastWordsAreTrue`: `Spec => []LastWordIsTrue`. In `WordInv` the last report is
  not chosen: every report that no other follows is true, and so is every cache
  entry that no report follows. A change that the host does not report happens only
  before it has the service, and then nothing was reported (`EarlyIsSilent`).
- `ReadsMakeKnown`: `Spec => []ReadMakesKnown`, from `KnownInv`, which says the same
  of any report on its way instead of the last.

`Dial` builds on `QueueImplementsChannel`: what it assumes of the queues is proved.

`AdditionalDataProofs`

- `AdditionalDataTypeCorrect`: `Spec => []TypeOK`.
- `DataOfOnePost`: `Spec => []DataIsOfOnePost`. A file is created empty before it is
  written, so that whatever part of the write succeeds is the beginning of one
  text; the invariant says that the text is of a post (`WritesAPost`).
- `GetsShowPosted`: `Spec => []GetShowsPosted`. Unless an operation failed, the file
  holds the whole text of the last post except while it is written
  (`FileIsWhole`), an instance that could read it has the table
  (`InstanceIsPosted`), and during a write the instance is ahead of the file
  (`WriterHasPosted`).

`UuidFilesProofs`

- `UuidFilesTypeCorrect`: `Spec => []TypeOK`.
- `PostsReachTheirOwnEntry`: `Spec => []PostReachesItsOwnEntry`. A uuid stands in a
  file, in an entry, with a client or in a registration, and all of these belong to
  one owner (`HeldByOne`); a new one was never drawn before (`HeldWasDrawn`).
- `UrisOutliveTheServer`: `Spec => []UriOutlivesTheServer`. Unless an operation on it
  failed, the file holds the uuid that is in use (`FileIsKept`), except in the first
  registration, before anything was handed out (`FirstRegistration`).

`TimeoutProofs`

- `ShieldTypeCorrect`: `Spec => []TypeOK`.
- `TimersFollow` and `TimeoutsStrikeTheirOwn`: `Spec => []TimersFollowRequests` and
  `Spec => []TimeoutStrikesItsOwn`, both from `TimerInv`. Addresses are used again
  and numbers are not (`NumbersUsed`); a timer has one address (`OneAddress`); a
  timer that has fired is gone, or was left behind (`FiredIsGone`); and what is in
  dispatch finds its own request, or was overtaken, or was left behind
  (`DispatchFindsItsOwn`).
- `SlowRequestsAreTimed`: `Spec => []SlowRequestIsTimed`. No two entries have
  the same timer (`EntriesDiffer`), so that a timer which fired and is still that of
  an entry has closed the socket of that entry's message (`FiredIsClosed`).
- `ContextsAreAccountedFor`: `AsyncSpec => []ContextsAccountedFor`. It is inductive with
  the invariant of the next theorems: what a source does not find in the table is
  the context that is about to be entered.
- `AsyncTypeCorrect`, `TableHoldsThePending`, `DestroyFindsItsContext`:
  `AsyncSpec => []AsyncTypeOK`, `[]TableHoldsPending` and `[]DestroyFindsContext`.
  `TableHoldsPending` speaks of the moments when no context is being entered;
  `PendingKnown` of all of them: while the server is up, the table without the early
  ones is what is pending without the context being entered, and while it is down all
  that is pending was freed. It is inductive because what is in the table is
  allocated, so that `malloc` does not return it (`TableAllocated`), because a freed
  context never loses its source (`OrphansKeepSource`), and because what is in
  dispatch is pending (`DispatchPending`).

Only model-checked:

- the liveness properties (`StopTerminatesThread`, `StopReturns`): TLAPS does not
  reason about fairness or `ENABLED` here. Their safety part is proved, as said
  above;
- `CutSpoilsOnePair`, and that the conversions of `DialDataText` satisfy the
  assumptions of `AdditionalData`: what a recursive definition computes for every
  input is out of the prover's reach.

Some definitions are written for the prover, which knows nothing of `SelectSeq`:
`Dial` finds the last report by its place, `CopyCheck` in `Routing` the elements that
are not empty by theirs, and `DropInstance` in `PlatAsync` removes the instance with
`RemoveAt` (there is one of a name). Where `UNION` or `SUBSET` is followed by a
binary operator its operand is in parentheses or comes last, since the tools do not
agree on which binds tighter.

## 7. Plan

Done: all components of section 1, and the theorems of section 6, which state every
invariant of the runs but `CutSpoilsOnePair`. Left is

1. `HandlerQueue` under both instances of `Dial`: the composition of the refinement
   with the message flow, so far an argument of this text. `Dial` stands still once a
   channel is spoiled, while the code goes on; the composed system would have to
   implement it up to that moment only.

## 8. Not modelled

- Texts of responses and logs, the XML of the state response, HTTP headers other
  than `Origin`, `Host` and the client version.
- The launch payload and query, which pass through.
- libsoup, GSSDP and GLib beyond what the code relies on.
- The Netflix plugin path behind `ENABLE_NETFLIX_STOP` and the security token:
  calls to other processes.
- `gdial-plat-dev.c`, `gdial-plat-util.c` (power callbacks, interface addresses),
  logging, the stubs, `gdialserver_ut.cpp` and the scripts: I/O without state.
- The code under `GDIAL_BUILD_TEST`, and code that nothing calls:
  `GET_APP_response_builder_*`, `should_relaunch`,
  `gdial_rest_server_unregister_app`, `gdial_app_resume`,
  `gdial_plat_application_start_async` and `_stop_async`, the merge of tables.
- `gdial_rest_server_dispose`: one sequential path.
