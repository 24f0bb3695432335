------------------------------- MODULE Shield -------------------------------
(***************************************************************************)
(* The read timeouts of the HTTP servers (gdial-shield.c).  When a request *)
(* starts, a timer is added and a context with the id of its source is     *)
(* entered in active_conns_ under the address of the message.  When the    *)
(* request was read, aborted or its message finalised, the timer and the   *)
(* entry are removed.  A timer that fires closes the socket of the message *)
(* that it finds under its address.                                        *)
(*                                                                         *)
(* The servers run on the main thread, and a thread of the host dispatches *)
(* the timers (DefaultContext): one that is being dispatched is not called *)
(* off by g_source_remove.  The addresses of messages are used again.  A   *)
(* timer that goes on with a freed context makes the process wild, and     *)
(* nothing is said of a wild one.                                          *)
(***************************************************************************)
EXTENDS Naturals, FiniteSets, DefaultContext

CONSTANTS Msg,          \* addresses of messages
          MaxRequests   \* bound on the requests

ASSUME ShieldAssumption ==
  MaxRequests \in Nat /\ None \notin Msg

\* Requests are numbered; the number stands for the context and for the source.
Id == 1..MaxRequests

VARIABLES up,           \* active_conns_ exists
          msgs,         \* the state of the message at each address
          conns,        \* active_conns_: the context of a message, or 0
          timers,       \* the sources not yet destroyed: <<id, address>>
          fired,        \* conn_context->read_timeout_source is 0
          host,         \* what the thread of the default context is doing
          closed,       \* messages whose socket was closed by a timer
          count,        \* history: requests so far
          overtaken,    \* history: timers in dispatch when their request ended
          struck,       \* history: <<timer, context>> of the sockets closed
          wild          \* a freed context was used

vars == <<up, msgs, conns, timers, fired, host, closed, count, overtaken, struck, wild>>

HostIdle == [stage |-> "idle", id |-> 0, msg |-> None, context |-> 0]

TypeOK ==
  /\ up \in BOOLEAN /\ wild \in BOOLEAN
  /\ msgs \in [Msg -> {"free", "started", "read"}]
  /\ conns \in [Msg -> Id \cup {0}]
  /\ timers \subseteq Id \X Msg
  /\ fired \subseteq Id
  /\ host \in [stage : {"idle", "lookup", "close"}, id : Id \cup {0},
               msg : Msg \cup {None}, context : Id \cup {0}]
  /\ host.stage = "close" => host.context \in Id
  /\ closed \subseteq Msg
  /\ count \in 0..MaxRequests
  /\ overtaken \subseteq Id
  /\ struck \subseteq Id \X Id

Init ==
  /\ up = FALSE
  /\ msgs = [m \in Msg |-> "free"]
  /\ conns = [m \in Msg |-> 0]
  /\ timers = {} /\ fired = {}
  /\ host = HostIdle
  /\ closed = {}
  /\ count = 0
  /\ overtaken = {} /\ struck = {}
  /\ wild = FALSE

-----------------------------------------------------------------------------
\* The main thread.

\* gdial_shield_init
ShieldInit ==
  /\ ~up /\ ~wild
  /\ up' = TRUE
  /\ conns' = [m \in Msg |-> 0]
  /\ UNCHANGED <<msgs, timers, fired, host, closed, count, overtaken, struck, wild>>

\* server_request_started_callback
RequestStarted(m) ==
  /\ up /\ ~wild
  /\ msgs[m] = "free"
  /\ count < MaxRequests
  /\ count' = count + 1
  /\ msgs' = [msgs EXCEPT ![m] = "started"]
  /\ timers' = timers \cup {<<count + 1, m>>}
  /\ conns' = [conns EXCEPT ![m] = count + 1]
  /\ UNCHANGED <<up, fired, host, closed, overtaken, struck, wild>>

\* MUTANT of RemoveTimer: the source is forgotten, not removed.
RemoveTimerNot(m) == UNCHANGED timers

\* g_source_remove, unless the timer has fired.
RemoveTimer(m) ==
  timers' = IF conns[m] \in fired THEN timers ELSE timers \ {<<conns[m], m>>}

\* server_request_remove_callback
RemoveConnection(m) ==
  /\ RemoveTimer(m)
  /\ conns' = [conns EXCEPT ![m] = 0]
  /\ overtaken' = overtaken \cup ({host.id} \cap {conns[m]} \cap Id)

\* server_request_read_callback
RequestRead(m) ==
  /\ up /\ ~wild
  /\ msgs[m] = "started"
  /\ m \notin closed
  /\ msgs' = [msgs EXCEPT ![m] = "read"]
  /\ RemoveConnection(m)
  /\ UNCHANGED <<up, fired, host, closed, count, struck, wild>>

\* The message is gone: server_request_aborted_callback, if the connection was
\* lost or its socket closed, or soup_message_weak_ref_callback, if the request
\* was answered before it was read.
RequestDropped(m) ==
  /\ up /\ ~wild
  /\ msgs[m] = "started"
  /\ msgs' = [msgs EXCEPT ![m] = "free"]
  /\ closed' = closed \ {m}
  /\ RemoveConnection(m)
  /\ UNCHANGED <<up, fired, host, count, struck, wild>>

\* server_request_finished_callback does nothing, and after the request was
\* read there is nothing left to remove for an abort.
RequestFinished(m) ==
  /\ up /\ ~wild
  /\ msgs[m] = "read"
  /\ msgs' = [msgs EXCEPT ![m] = "free"]
  /\ closed' = closed \ {m}
  /\ UNCHANGED <<up, conns, timers, fired, host, count, overtaken, struck, wild>>

\* gdial_shield_term removes entries from the table that it iterates over: the
\* first one certainly, the others if the iterator does not notice.
TermRemoves == LET table == {m \in Msg : conns[m] # 0}
               IN  IF table = {} THEN {{}} ELSE (SUBSET table) \ {{}}

\* MUTANT of ServersDisconnected: the servers are disconnected afterwards.
ServersDisconnectedLater == TRUE

\* stop_GDialServer() disconnects the servers first: every message is aborted.
ServersDisconnected == \A m \in Msg : msgs[m] = "free"

\* gdial_shield_term
ShieldTerm ==
  /\ up /\ ~wild
  /\ ServersDisconnected
  /\ \E gone \in TermRemoves :
       /\ timers' = {t \in timers : ~(t[2] \in gone /\ t[1] = conns[t[2]] /\ t[1] \notin fired)}
       /\ overtaken' = overtaken \cup {i \in Id : i = host.id /\ \E m \in gone : conns[m] = i}
  /\ up' = FALSE
  /\ conns' = [m \in Msg |-> 0]
  /\ msgs' = [m \in Msg |-> "free"]
  /\ closed' = {}
  /\ UNCHANGED <<fired, host, count, struck, wild>>

-----------------------------------------------------------------------------
\* The thread of the host that runs the default main context.

\* soup_message_read_timeout_callback is called ...
Fire ==
  /\ HostRunsLoop /\ ~wild
  /\ host = HostIdle
  /\ \E t \in timers : host' = [stage |-> "lookup", id |-> t[1], msg |-> t[2], context |-> 0]
  /\ UNCHANGED <<up, msgs, conns, timers, fired, closed, count, overtaken, struck, wild>>

Return ==
  /\ host' = HostIdle
  /\ timers' = timers \ {<<host.id, host.msg>>}

\* MUTANT of Lookup: the timer goes on without an entry.
LookupUnchecked ==
  /\ ~wild
  /\ host.stage = "lookup"
  /\ host' = [host EXCEPT !.stage = "close", !.context = conns[host.msg]]
  /\ UNCHANGED <<up, msgs, conns, timers, fired, closed, count, overtaken, struck, wild>>

\* ... looks up what is now under its address; if there is nothing it ends ...
Lookup ==
  /\ ~wild
  /\ host.stage = "lookup"
  /\ IF conns[host.msg] = 0 THEN Return
     ELSE host' = [host EXCEPT !.stage = "close", !.context = conns[host.msg]] /\ UNCHANGED timers
  /\ UNCHANGED <<up, msgs, conns, fired, closed, count, overtaken, struck, wild>>

\* MUTANT of Close: the timer only notes that it has fired.
CloseNot ==
  /\ ~wild
  /\ host.stage = "close"
  /\ fired' = fired \cup {host.context}
  /\ Return
  /\ UNCHANGED <<up, msgs, conns, closed, count, overtaken, struck, wild>>

\* ... and closes the socket of the context, which may have been freed.
Close ==
  /\ ~wild
  /\ host.stage = "close"
  /\ \/ /\ conns[host.msg] = host.context
        /\ fired' = fired \cup {host.context}
        /\ closed' = closed \cup {host.msg}
        /\ struck' = struck \cup {<<host.id, host.context>>}
        /\ Return
        /\ UNCHANGED wild
     \/ /\ conns[host.msg] # host.context
        /\ wild' = TRUE
        /\ UNCHANGED <<fired, closed, struck, host, timers>>
  /\ UNCHANGED <<up, msgs, conns, count, overtaken>>

-----------------------------------------------------------------------------
Next ==
  \/ ShieldInit
  \/ \E m \in Msg : RequestStarted(m) \/ RequestRead(m) \/ RequestDropped(m) \/ RequestFinished(m)
  \/ ShieldTerm
  \/ Fire
  \/ Lookup
  \/ Close

\* A socket that was closed ends its message, on the main thread; each timer
\* fires some time after it was added if the host runs the loop.
Fairness ==
  /\ \A m \in Msg : WF_vars(m \in closed /\ (RequestDropped(m) \/ RequestFinished(m)))
  /\ \A t \in Id \X Msg : SF_vars(Fire /\ host'.id = t[1] /\ host'.msg = t[2])
  /\ WF_vars(Lookup)
  /\ WF_vars(Close)

Spec == Init /\ [][Next]_vars /\ Fairness

-----------------------------------------------------------------------------
\* Timers whose request was ended by another timer: the context says that the
\* timer has fired, so that it is not removed.
LeftBehind == {s[2] : s \in {r \in struck : r[1] # r[2]}}

\* Every entry belongs to a request that is being read and has its timer, or
\* its timer has struck; and no timer is left without a request, nor after the
\* shield was closed, except one that is being dispatched: whichever way a
\* request ends, it calls off its timer.
TimersFollowRequests ==
  ~wild =>
    /\ \A m \in Msg : (conns[m] # 0) = (msgs[m] = "started")
    /\ \A m \in Msg : conns[m] # 0 => <<conns[m], m>> \in timers \/ conns[m] \in fired
    /\ \A t \in timers : conns[t[2]] = t[1] \/ t[1] = host.id \/ t[1] \in LeftBehind

\* A timeout closes the socket of its own request, unless it was being
\* dispatched when that request ended and its message's address was used again.
\* A timer left behind by that is the only other one.
TimeoutStrikesItsOwn ==
  \A s \in struck : s[1] = s[2] \/ s[1] \in overtaken \cup LeftBehind

\* No request is being read without an end in sight: it still has its own
\* timer, or its socket was closed, which ends its message.  No order of ends,
\* restarts and timers at one address takes its timer from it.
SlowRequestIsTimed ==
  \A m \in Msg : msgs[m] = "started" => <<conns[m], m>> \in timers \/ m \in closed

-----------------------------------------------------------------------------
\* What the code or its comments say and TLC refutes (README, section 5).

\* A request that is not read in time does not stay: the timer closes its socket,
\* which "will trigger abort callback" (gdial-shield.c:59).  If no thread of the
\* host runs the default main context, the timer is never dispatched.
SlowRequestEnds ==
  \A m \in Msg : msgs[m] = "started" ~> (msgs[m] # "started" \/ wild)
=============================================================================
