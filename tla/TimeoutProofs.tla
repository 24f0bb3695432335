---------------------------- MODULE TimeoutProofs ----------------------------
(***************************************************************************)
(* Proofs about the two components whose timeouts a thread of the host     *)
(* dispatches beside the main thread, if it runs the default main context: *)
(* Shield, for any addresses and any number of requests, and PlatAsync,    *)
(* for any applications, contexts and restarts.  All of it holds whether   *)
(* or not the host runs that context.                                      *)
(***************************************************************************)
EXTENDS Shield, PlatAsync, TLAPS

-----------------------------------------------------------------------------
\* The connection shield.

\* The timer in dispatch has a number and an address.
DispatchKnown ==
  /\ host.stage = "idle" => host = HostIdle
  /\ host.stage # "idle" => host.id \in Id /\ host.msg \in Msg

TypeInv == TypeOK /\ DispatchKnown

\* Type correctness of the initial states ...
LEMMA InitTypeInv == Init => TypeInv
<1> SUFFICES ASSUME Init PROVE TypeInv
  OBVIOUS
<1>1. up \in BOOLEAN /\ wild \in BOOLEAN
  BY Zenon DEF Init
<1> QED
  BY <1>1, ShieldAssumption DEF Init, TypeInv, TypeOK, DispatchKnown, HostIdle

\* ... and of one step.
LEMMA TypeInvInductive == TypeInv /\ [Next]_vars => TypeInv'
<1> SUFFICES ASSUME TypeInv, [Next]_vars PROVE TypeInv'
  OBVIOUS
<1> USE ShieldAssumption DEF TypeInv, TypeOK, DispatchKnown, Id
<1>1. CASE ShieldInit
  BY <1>1 DEF ShieldInit
<1>2. ASSUME NEW m \in Msg, RequestStarted(m) PROVE TypeInv'
  BY <1>2 DEF RequestStarted
<1>3. ASSUME NEW m \in Msg, RequestRead(m) PROVE TypeInv'
  BY <1>3 DEF RequestRead, RemoveConnection, RemoveTimer
<1>4. ASSUME NEW m \in Msg, RequestDropped(m) PROVE TypeInv'
  BY <1>4 DEF RequestDropped, RemoveConnection, RemoveTimer
<1>5. ASSUME NEW m \in Msg, RequestFinished(m) PROVE TypeInv'
  BY <1>5 DEF RequestFinished
<1>6. CASE ShieldTerm
  BY <1>6 DEF ShieldTerm
<1>7. CASE Fire
  BY <1>7 DEF Fire, HostIdle
<1>0. HostIdle \in [stage : {"idle", "lookup", "close"}, id : Id \cup {0},
                    msg : Msg \cup {None}, context : Id \cup {0}] /\ HostIdle.stage = "idle"
  BY DEF HostIdle
<1>8. CASE Lookup
  <2>1. UNCHANGED <<up, msgs, conns, fired, closed, count, overtaken, struck, wild>>
    BY <1>8 DEF Lookup
  <2>2. CASE Return
    BY <1>0, <2>1, <2>2 DEF Return
  <2>3. CASE /\ conns[host.msg] # 0 /\ UNCHANGED timers
             /\ host' = [host EXCEPT !.stage = "close", !.context = conns[host.msg]]
    <3>1. conns[host.msg] \in Id /\ host.stage # "idle"
      BY <1>8, <2>3 DEF Lookup
    <3> QED
      BY <2>1, <2>3, <3>1
  <2> QED
    BY <1>8, <2>2, <2>3 DEF Lookup
<1>9. CASE Close
  <2>1. UNCHANGED <<up, msgs, conns, count, overtaken>>
    BY <1>9 DEF Close
  <2>2. CASE Return /\ UNCHANGED wild /\ fired' = fired \cup {host.context}
             /\ closed' = closed \cup {host.msg} /\ struck' = struck \cup {<<host.id, host.context>>}
    <3>1. host.id \in Id /\ host.msg \in Msg /\ host.context \in Id
      BY <1>9 DEF Close
    <3>2. host' = HostIdle /\ timers' \subseteq timers /\ UNCHANGED wild
      BY <2>2 DEF Return
    <3>3. fired' \subseteq Id /\ closed' \subseteq Msg
      BY <2>2, <3>1
    <3>4. struck' \subseteq Id \X Id
      <4> HIDE DEF Id
      <4> QED
        BY <2>2, <3>1
    <3> QED
      BY <1>0, <2>1, <3>2, <3>3, <3>4
  <2>3. CASE wild' = TRUE /\ UNCHANGED <<fired, closed, struck, host, timers>>
    <3>1. wild' \in BOOLEAN
      BY <2>3, Zenon
    <3> QED
      BY <2>1, <2>3, <3>1
  <2> QED
    BY <1>9, <2>2, <2>3 DEF Close
<1>10. CASE UNCHANGED vars
  BY <1>10 DEF vars
<1> QED
  BY <1>1, <1>2, <1>3, <1>4, <1>5, <1>6, <1>7, <1>8, <1>9, <1>10 DEF Next

\* Type correctness: neither thread leaves a variable of the shield ill typed.
THEOREM ShieldTypeCorrect == Spec => []TypeOK
<1>1. TypeInv => TypeOK
  BY DEF TypeInv
<1> QED
  BY <1>1, InitTypeInv, TypeInvInductive, PTL DEF Spec

-----------------------------------------------------------------------------
(***************************************************************************)
(* Timers and requests.  The numbers of the contexts are never used twice, *)
(* so that a timer has one address.  A timer whose context says that it    *)
(* has fired is not removed with its request: it is left behind by another *)
(* timer, or it is gone.  The timer in dispatch finds its own context      *)
(* under its address, or was overtaken, or was left behind.                *)
(***************************************************************************)
ClosedIsEmpty == ~up => \A m \in Msg : conns[m] = 0 /\ msgs[m] = "free"
NumbersUsed ==
  /\ \A m \in Msg : conns[m] <= count
  /\ \A t \in timers : t[1] <= count
  /\ \A i \in fired : i <= count
  /\ host.id <= count
OneAddress ==
  /\ \A t, u \in timers : t[1] = u[1] => t = u
  /\ host.stage # "idle" => \A t \in timers : t[1] = host.id => t[2] = host.msg
EntryIsBeingRead == \A m \in Msg : (conns[m] # 0) = (msgs[m] = "started")
EntryHasTimer ==
  \A m \in Msg : conns[m] # 0 => <<conns[m], m>> \in timers \/ conns[m] \in fired
TimerHasEntry ==
  \A t \in timers : conns[t[2]] = t[1] \/ t[1] = host.id \/ t[1] \in LeftBehind
FiredIsGone == \A t \in timers : t[1] \in fired => t[1] \in LeftBehind
DispatchFindsItsOwn ==
  host.stage # "idle" => conns[host.msg] = host.id \/ host.id \in overtaken \cup LeftBehind

TimerInv ==
  /\ ClosedIsEmpty
  /\ NumbersUsed
  /\ OneAddress
  /\ EntryIsBeingRead
  /\ EntryHasTimer
  /\ TimerHasEntry
  /\ FiredIsGone
  /\ DispatchFindsItsOwn
  /\ TimeoutStrikesItsOwn

\* A timer that was left behind stays so: sockets closed are never forgotten.
LEMMA LeftBehindGrows == ASSUME struck \subseteq struck' PROVE LeftBehind \subseteq LeftBehind'
BY DEF LeftBehind

\* A request that ends, in whichever way, takes its timer along.
LEMMA RemovedWithRequest ==
  ASSUME TypeInv, TimerInv, NEW m \in Msg, RemoveConnection(m), msgs[m] = "started",
         NEW s \in {"free", "read"}, msgs' = [msgs EXCEPT ![m] = s],
         UNCHANGED <<up, fired, host, count, struck>>, up
  PROVE  TimerInv'
<1> USE ShieldAssumption DEF TypeInv, TypeOK, Id
<1>1. /\ conns' = [conns EXCEPT ![m] = 0] /\ timers' \subseteq timers
      /\ overtaken \subseteq overtaken' /\ UNCHANGED LeftBehind
      /\ conns[m] \in Id
  BY DEF RemoveConnection, RemoveTimer, LeftBehind, TimerInv, EntryIsBeingRead
<1>2. ClosedIsEmpty' /\ NumbersUsed' /\ OneAddress' /\ EntryIsBeingRead'
  BY <1>1 DEF TimerInv, ClosedIsEmpty, NumbersUsed, OneAddress, EntryIsBeingRead
<1>3. EntryHasTimer'
  BY DEF RemoveConnection, RemoveTimer, TimerInv, EntryHasTimer
<1>4. TimerHasEntry'
  <2> SUFFICES ASSUME NEW t \in timers'
               PROVE  conns'[t[2]] = t[1] \/ t[1] = host.id \/ t[1] \in LeftBehind
    BY <1>1 DEF TimerHasEntry
  <2>1. t \in timers /\ t[2] \in Msg /\ t = <<t[1], t[2]>>
    BY <1>1
  <2>2. CASE t[2] # m
    BY <1>1, <2>1, <2>2 DEF TimerInv, TimerHasEntry
  <2>3. CASE t[2] = m /\ t[1] # conns[m]
    BY <1>1, <2>1, <2>3 DEF TimerInv, TimerHasEntry
  <2>4. CASE t[2] = m /\ t[1] = conns[m]
    BY <2>1, <2>4 DEF RemoveConnection, RemoveTimer, TimerInv, FiredIsGone
  <2> QED
    BY <2>2, <2>3, <2>4
<1>5. FiredIsGone'
  BY <1>1 DEF TimerInv, FiredIsGone
<1>6. DispatchFindsItsOwn'
  BY <1>1 DEF TimerInv, DispatchFindsItsOwn, DispatchKnown, RemoveConnection
<1>7. TimeoutStrikesItsOwn'
  BY <1>1 DEF TimerInv, TimeoutStrikesItsOwn
<1> QED
  BY <1>2, <1>3, <1>4, <1>5, <1>6, <1>7 DEF TimerInv

\* TimerInv is inductive, relative to TypeInv.
LEMMA TimerInductive == TypeInv /\ TimerInv /\ [Next]_vars => TimerInv'
<1> SUFFICES ASSUME TypeInv, TimerInv, [Next]_vars PROVE TimerInv'
  OBVIOUS
<1>1. CASE ShieldInit
  <2>1. conns' = conns
    BY <1>1 DEF ShieldInit, TypeInv, TypeOK, TimerInv, ClosedIsEmpty
  <2> QED
    BY <1>1, <2>1 DEF ShieldInit, TimerInv, ClosedIsEmpty, NumbersUsed, OneAddress,
       EntryIsBeingRead, EntryHasTimer, TimerHasEntry, FiredIsGone, DispatchFindsItsOwn,
       TimeoutStrikesItsOwn, LeftBehind
<1>2. ASSUME NEW m \in Msg, RequestStarted(m) PROVE TimerInv'
  <2> USE ShieldAssumption DEF TypeInv, TypeOK, Id
  <2>1. /\ timers' = timers \cup {<<count + 1, m>>} /\ conns' = [conns EXCEPT ![m] = count + 1]
        /\ count' = count + 1 /\ conns[m] = 0 /\ UNCHANGED <<LeftBehind, fired, host, overtaken, struck>>
    BY <1>2 DEF RequestStarted, TimerInv, EntryIsBeingRead, LeftBehind
  <2>2. ClosedIsEmpty' /\ EntryIsBeingRead'
    BY <1>2 DEF RequestStarted, TimerInv, ClosedIsEmpty, EntryIsBeingRead
  <2>3. NumbersUsed'
    BY <2>1 DEF TimerInv, NumbersUsed
  <2>4. OneAddress'
    BY <2>1 DEF TimerInv, NumbersUsed, OneAddress
  <2>5. EntryHasTimer'
    BY <2>1 DEF TimerInv, EntryHasTimer
  <2>6. TimerHasEntry'
    BY <2>1 DEF TimerInv, TimerHasEntry
  <2>7. FiredIsGone'
    BY <2>1 DEF TimerInv, FiredIsGone, NumbersUsed
  <2>8. DispatchFindsItsOwn' /\ TimeoutStrikesItsOwn'
    BY <2>1 DEF TimerInv, DispatchFindsItsOwn, DispatchKnown, TimeoutStrikesItsOwn
  <2> QED
    BY <2>2, <2>3, <2>4, <2>5, <2>6, <2>7, <2>8 DEF TimerInv
<1>3. ASSUME NEW m \in Msg, RequestRead(m) PROVE TimerInv'
  BY <1>3, RemovedWithRequest DEF RequestRead
<1>4. ASSUME NEW m \in Msg, RequestDropped(m) PROVE TimerInv'
  BY <1>4, RemovedWithRequest DEF RequestDropped
<1>5. ASSUME NEW m \in Msg, RequestFinished(m) PROVE TimerInv'
  BY <1>5 DEF RequestFinished, TypeInv, TypeOK, TimerInv, ClosedIsEmpty, NumbersUsed, OneAddress,
     EntryIsBeingRead, EntryHasTimer, TimerHasEntry, FiredIsGone, DispatchFindsItsOwn,
     TimeoutStrikesItsOwn, LeftBehind
<1>6. CASE ShieldTerm
  <2>1. \A m \in Msg : conns[m] = 0
    BY <1>6 DEF ShieldTerm, ServersDisconnected, TimerInv, EntryIsBeingRead
  <2>2. TermRemoves = {{}}
    BY <2>1 DEF TermRemoves
  <2>3. timers' = timers /\ overtaken' = overtaken
    BY <1>6, <2>2 DEF ShieldTerm, TypeInv, TypeOK
  <2>4. conns' = conns /\ msgs' = msgs
    BY <1>6, <2>1 DEF ShieldTerm, ServersDisconnected, TypeInv, TypeOK
  <2> QED
    BY <1>6, <2>1, <2>3, <2>4 DEF ShieldTerm, ServersDisconnected, TimerInv, ClosedIsEmpty,
       NumbersUsed, OneAddress, EntryIsBeingRead, EntryHasTimer, TimerHasEntry, FiredIsGone,
       DispatchFindsItsOwn, TimeoutStrikesItsOwn, LeftBehind
<1>7. CASE Fire
  <2> USE DEF TypeInv, TypeOK, Id
  <2>1. PICK t \in timers : host' = [stage |-> "lookup", id |-> t[1], msg |-> t[2], context |-> 0]
    BY <1>7 DEF Fire
  <2>2. host.id = 0 /\ UNCHANGED <<up, msgs, conns, timers, fired, count, overtaken, struck, LeftBehind>>
    BY <1>7 DEF Fire, HostIdle, LeftBehind
  <2>3. \A u \in timers : u[1] # host.id
    BY <2>2, ShieldAssumption
  <2>4. ClosedIsEmpty' /\ EntryIsBeingRead' /\ EntryHasTimer' /\ FiredIsGone' /\ TimeoutStrikesItsOwn'
    BY <2>2 DEF TimerInv, ClosedIsEmpty, EntryIsBeingRead, EntryHasTimer, FiredIsGone,
                TimeoutStrikesItsOwn
  <2>5. NumbersUsed' /\ OneAddress'
    BY <2>1, <2>2 DEF TimerInv, NumbersUsed, OneAddress
  <2>6. TimerHasEntry' /\ DispatchFindsItsOwn'
    BY <2>1, <2>2, <2>3 DEF TimerInv, TimerHasEntry, DispatchFindsItsOwn
  <2> QED
    BY <2>4, <2>5, <2>6 DEF TimerInv
<1>8. CASE Lookup
  <2> USE DEF TypeInv, TypeOK, Id
  <2>1. UNCHANGED <<up, msgs, conns, fired, count, overtaken, struck, LeftBehind>>
    BY <1>8 DEF Lookup, LeftBehind
  <2>2. CASE conns[host.msg] = 0
    <3>1. host' = HostIdle /\ timers' = timers \ {<<host.id, host.msg>>}
          /\ host.id \in Id /\ host.msg \in Msg /\ host.stage # "idle"
      BY <1>8, <2>2 DEF Lookup, Return, DispatchKnown
    <3>2. ClosedIsEmpty' /\ EntryIsBeingRead' /\ FiredIsGone' /\ TimeoutStrikesItsOwn'
      BY <2>1, <3>1 DEF TimerInv, ClosedIsEmpty, EntryIsBeingRead, FiredIsGone,
                        TimeoutStrikesItsOwn
    <3>3. NumbersUsed' /\ OneAddress' /\ DispatchFindsItsOwn'
      BY <2>1, <3>1, ShieldAssumption DEF TimerInv, NumbersUsed, OneAddress, DispatchFindsItsOwn, HostIdle
    <3>4. EntryHasTimer'
      BY <2>1, <2>2, <3>1 DEF TimerInv, EntryHasTimer
    <3>5. TimerHasEntry'
      BY <2>1, <3>1 DEF TimerInv, TimerHasEntry, OneAddress
    <3> QED
      BY <3>2, <3>3, <3>4, <3>5 DEF TimerInv
  <2>3. CASE conns[host.msg] # 0
    <3>1. timers' = timers /\ host'.id = host.id /\ host'.msg = host.msg /\ host.stage # "idle"
      BY <1>8, <2>3 DEF Lookup
    <3> QED
      BY <2>1, <3>1 DEF TimerInv, ClosedIsEmpty, NumbersUsed, OneAddress, EntryIsBeingRead,
         EntryHasTimer, TimerHasEntry, FiredIsGone, DispatchFindsItsOwn, TimeoutStrikesItsOwn
  <2> QED
    BY <2>2, <2>3
<1>9. CASE Close
  <2> USE DEF TypeInv, TypeOK, Id
  <2>1. UNCHANGED <<up, msgs, conns, count, overtaken>>
    BY <1>9 DEF Close
  <2>2. CASE conns[host.msg] = host.context
    <3>1. /\ host' = HostIdle /\ timers' = timers \ {<<host.id, host.msg>>}
          /\ host.id \in Id /\ host.msg \in Msg /\ host.stage # "idle" /\ host.context \in Id
          /\ fired' = fired \cup {host.context}
          /\ struck' = struck \cup {<<host.id, host.context>>}
      BY <1>9, <2>2 DEF Close, Return, DispatchKnown
    <3>2. LeftBehind \subseteq LeftBehind'
      BY <3>1, LeftBehindGrows
    <3>3. host.id # host.context => host.context \in LeftBehind'
      <4> DEFINE s == <<host.id, host.context>>
      <4>1. s \in struck' /\ s[1] = host.id /\ s[2] = host.context
        BY <3>1
      <4> HIDE DEF s
      <4> QED
        BY <4>1 DEF LeftBehind
    <3>4. \A t \in timers' : t \in timers /\ t[1] # host.id
      BY <3>1 DEF TimerInv, OneAddress
    <3>5. ClosedIsEmpty' /\ EntryIsBeingRead'
      BY <2>1 DEF TimerInv, ClosedIsEmpty, EntryIsBeingRead
    <3>6. NumbersUsed' /\ OneAddress' /\ DispatchFindsItsOwn'
      BY <2>1, <2>2, <3>1, ShieldAssumption
         DEF TimerInv, NumbersUsed, OneAddress, DispatchFindsItsOwn, HostIdle
    <3>7. EntryHasTimer'
      BY <2>1, <2>2, <3>1 DEF TimerInv, EntryHasTimer
    <3>8. TimerHasEntry'
      BY <2>1, <3>2, <3>4 DEF TimerInv, TimerHasEntry
    <3>9. FiredIsGone'
      BY <3>1, <3>2, <3>3, <3>4 DEF TimerInv, FiredIsGone
    <3>10. TimeoutStrikesItsOwn'
      BY <2>1, <2>2, <3>1, <3>2 DEF TimerInv, TimeoutStrikesItsOwn, DispatchFindsItsOwn
    <3> QED
      BY <3>5, <3>6, <3>7, <3>8, <3>9, <3>10 DEF TimerInv
  <2>3. CASE conns[host.msg] # host.context
    <3>1. UNCHANGED <<fired, struck, host, timers>>
      BY <1>9, <2>3 DEF Close
    <3> QED
      BY <2>1, <3>1 DEF TimerInv, ClosedIsEmpty, NumbersUsed, OneAddress, EntryIsBeingRead,
         EntryHasTimer, TimerHasEntry, FiredIsGone, DispatchFindsItsOwn, TimeoutStrikesItsOwn,
         LeftBehind
  <2> QED
    BY <2>2, <2>3
<1>10. CASE UNCHANGED vars
  BY <1>10 DEF vars, TimerInv, ClosedIsEmpty, NumbersUsed, OneAddress, EntryIsBeingRead,
     EntryHasTimer, TimerHasEntry, FiredIsGone, DispatchFindsItsOwn, TimeoutStrikesItsOwn,
     LeftBehind
<1> QED
  BY <1>1, <1>2, <1>3, <1>4, <1>5, <1>6, <1>7, <1>8, <1>9, <1>10 DEF Next

\* The inductive invariant of the shield as a whole.
LEMMA ShieldInvariant == Spec => [](TypeInv /\ TimerInv)
<1>1. Init => TimerInv
  BY ShieldAssumption DEF Init, HostIdle, TimerInv, ClosedIsEmpty, NumbersUsed, OneAddress,
     EntryIsBeingRead, EntryHasTimer, TimerHasEntry, FiredIsGone, DispatchFindsItsOwn,
     TimeoutStrikesItsOwn
<1> QED
  BY <1>1, InitTypeInv, TypeInvInductive, TimerInductive, PTL DEF Spec

\* Every entry belongs to a request that is being read, and whichever way a
\* request ends, it calls off its timer, unless that one is in dispatch or was
\* left behind.
THEOREM TimersFollow == Spec => []TimersFollowRequests
<1>1. TimerInv => TimersFollowRequests
  BY DEF TimerInv, EntryIsBeingRead, EntryHasTimer, TimerHasEntry, TimersFollowRequests
<1> QED
  BY <1>1, ShieldInvariant, PTL

\* A timeout strikes another request than its own only if it was overtaken or
\* left behind.
THEOREM TimeoutsStrikeTheirOwn == Spec => []TimeoutStrikesItsOwn
<1>1. TimerInv => TimeoutStrikesItsOwn
  BY DEF TimerInv
<1> QED
  BY <1>1, ShieldInvariant, PTL

\* No two entries share a timer, and one that has fired and is still that of an
\* entry has closed the socket of its message.
EntriesDiffer == \A m, n \in Msg : conns[m] # 0 /\ conns[m] = conns[n] => m = n
FiredIsClosed == \A m \in Msg : conns[m] # 0 /\ conns[m] \in fired => m \in closed

ClosedInv == EntriesDiffer /\ FiredIsClosed

\* ClosedInv is inductive, relative to the invariants above.
LEMMA ClosedInductive == TypeInv /\ TimerInv /\ ClosedInv /\ [Next]_vars => ClosedInv'
<1> SUFFICES ASSUME TypeInv, TimerInv, ClosedInv, [Next]_vars PROVE ClosedInv'
  OBVIOUS
<1> USE ShieldAssumption DEF TypeInv, TypeOK, ClosedInv, EntriesDiffer, FiredIsClosed
<1>1. CASE ShieldInit
  BY <1>1 DEF ShieldInit
<1>2. ASSUME NEW m \in Msg, RequestStarted(m) PROVE ClosedInv'
  BY <1>2 DEF RequestStarted, TimerInv, NumbersUsed, Id
<1>3. ASSUME NEW m \in Msg, RequestRead(m) PROVE ClosedInv'
  BY <1>3 DEF RequestRead, RemoveConnection
<1>4. ASSUME NEW m \in Msg, RequestDropped(m) PROVE ClosedInv'
  BY <1>4 DEF RequestDropped, RemoveConnection
<1>5. ASSUME NEW m \in Msg, RequestFinished(m) PROVE ClosedInv'
  BY <1>5 DEF RequestFinished, TimerInv, EntryIsBeingRead
<1>6. CASE ShieldTerm
  BY <1>6 DEF ShieldTerm
<1>7. CASE Fire \/ Lookup
  BY <1>7 DEF Fire, Lookup
<1>8. CASE Close
  BY <1>8 DEF Close, DispatchKnown
<1>9. CASE UNCHANGED vars
  BY <1>9 DEF vars
<1> QED
  BY <1>1, <1>2, <1>3, <1>4, <1>5, <1>6, <1>7, <1>8, <1>9 DEF Next

\* No request is ever being read without an end in sight: no order of ends,
\* restarts and timers at the same address takes its timer from it.
THEOREM SlowRequestsAreTimed == Spec => []SlowRequestIsTimed
<1>1. Init => ClosedInv
  BY DEF Init, ClosedInv, EntriesDiffer, FiredIsClosed
<1>2. TimerInv /\ ClosedInv => SlowRequestIsTimed
  BY DEF TimerInv, EntryIsBeingRead, EntryHasTimer, ClosedInv, FiredIsClosed, SlowRequestIsTimed
<1> QED
  BY <1>1, <1>2, ShieldInvariant, ClosedInductive, PTL DEF Spec

-----------------------------------------------------------------------------
\* The asynchronous state queries.

\* The conjuncts of the inductive invariant: what is in the table is allocated,
\* and what ended early is in it and has no source any more; ...
TableAllocated ==
  /\ table \subseteq Allocated
  /\ early \subseteq table \ sources

\* ... a freed context never loses its source, and the context that is being
\* entered is not one of them; ...
OrphansKeepSource ==
  /\ orphans \subseteq sources
  /\ adding \notin orphans

\* ... while the server is up, a pending context is in the table or about to be
\* entered; while it is down all pending ones are freed; ...
PendingKnown ==
  /\ inited => table \ early = (sources \ orphans) \ {adding}
  /\ ~inited => sources \subseteq orphans /\ table = {} /\ adding = None

\* ... and what the host's thread is dispatching is a pending source.
DispatchPending ==
  /\ dispatcher.stage = "idle" => dispatcher = DispatcherIdle
  /\ dispatcher.stage # "idle" => dispatcher.context \in sources

PendingInv == TableAllocated /\ OrphansKeepSource /\ PendingKnown /\ DispatchPending

AsyncInv == AsyncTypeOK /\ PendingInv

\* The invariant holds initially.
LEMMA InitAsyncInv ==
  ASSUME AsyncInit PROVE AsyncInv
<1> USE AsyncAssumption DEF AsyncInit, DispatcherIdle, NoSignal
<1>1. inited \in BOOLEAN /\ corrupt \in BOOLEAN
  BY Zenon
<1>2. AsyncTypeOK
  BY <1>1 DEF AsyncTypeOK, Allocated
<1>3. PendingInv
  BY DEF PendingInv, TableAllocated, OrphansKeepSource, PendingKnown, DispatchPending
<1> QED
  BY <1>2, <1>3 DEF AsyncInv

\* The server is started ...
LEMMA PlatInitKeeps ==
  ASSUME AsyncInv, PlatInit PROVE AsyncInv'
<1> USE AsyncAssumption DEF AsyncInv, PlatInit
<1>1. inited' \in BOOLEAN
  BY Zenon
<1>2. AsyncTypeOK'
  BY <1>1 DEF AsyncTypeOK, Allocated, PendingInv, PendingKnown
<1>3. PendingInv'
  BY DEF PendingInv, TableAllocated, OrphansKeepSource, PendingKnown, DispatchPending,
         AsyncTypeOK, Allocated
<1> QED
  BY <1>2, <1>3

\* ... a start allocates a context that no one uses ...
LEMMA StateAsyncKeeps ==
  ASSUME AsyncInv, NEW a \in App, StateAsync(a) PROVE AsyncInv'
<1> USE AsyncAssumption DEF AsyncInv
<1>1. PICK c \in Context \ (Allocated \cup orphans) :
        /\ owner' = [owner EXCEPT ![c] = a]
        /\ sources' = sources \cup {c}
        /\ adding' = c
  BY DEF StateAsync
<1>2. /\ UNCHANGED <<inited, table, dispatcher, signal, early, orphans, terms, corrupt>>
      /\ inited /\ adding = None
  BY DEF StateAsync
<1>3. live' \in Seq(App)
  BY DEF StateAsync, AsyncTypeOK
<1>4. Allocated' = Allocated \cup {c}
  BY <1>1 DEF Allocated, AsyncTypeOK
<1>5. c \notin table /\ c \notin early /\ c \notin sources /\ c # None
  BY <1>1, <1>2 DEF PendingInv, TableAllocated, PendingKnown, AsyncTypeOK
<1>6. AsyncTypeOK'
  BY <1>1, <1>2, <1>3, <1>4, <1>5 DEF AsyncTypeOK
<1>7. TableAllocated'
  BY <1>1, <1>2, <1>4, <1>5 DEF PendingInv, TableAllocated
<1>8. OrphansKeepSource'
  BY <1>1, <1>2 DEF PendingInv, OrphansKeepSource
<1>9. PendingKnown'
  BY <1>1, <1>2, <1>5 DEF PendingInv, PendingKnown, AsyncTypeOK
<1>10. DispatchPending'
  BY <1>1, <1>2 DEF PendingInv, DispatchPending, DispatcherIdle
<1> QED
  BY <1>6, <1>7, <1>8, <1>9, <1>10 DEF PendingInv

\* ... that is then entered in the table, where it stays if its source has
\* ended ...
LEMMA InsertKeeps ==
  ASSUME AsyncInv, Insert PROVE AsyncInv'
<1> USE AsyncAssumption DEF AsyncInv, Insert
<1>1. adding \in Allocated \ table /\ Allocated' = Allocated
  BY DEF AsyncTypeOK, Allocated
<1>2. AsyncTypeOK'
  BY <1>1 DEF AsyncTypeOK, Allocated
<1>3. TableAllocated'
  BY <1>1 DEF PendingInv, TableAllocated
<1>4. OrphansKeepSource' /\ DispatchPending'
  BY DEF PendingInv, OrphansKeepSource, DispatchPending, DispatcherIdle, AsyncTypeOK
<1>5. PendingKnown'
  BY <1>1 DEF PendingInv, TableAllocated, OrphansKeepSource, PendingKnown, AsyncTypeOK
<1> QED
  BY <1>2, <1>3, <1>4, <1>5 DEF PendingInv

\* ... and an instance is forgotten without regard to its context.
LEMMA DropInstanceKeeps ==
  ASSUME AsyncInv, NEW a \in App, DropInstance(a) PROVE AsyncInv'
<1>1. UNCHANGED <<inited, table, owner, sources, adding, dispatcher, signal, early, orphans,
                  terms, corrupt>>
  BY DEF DropInstance
<1>2. live' \in Seq(App)
  BY DEF DropInstance, RemoveAt, AsyncInv, AsyncTypeOK
<1> QED
  BY <1>1, <1>2 DEF AsyncInv, AsyncTypeOK, Allocated, PendingInv, TableAllocated,
     OrphansKeepSource, PendingKnown, DispatchPending, DispatcherIdle

\* The table goes, and the contexts in it that are still pending are freed.
LEMMA PlatTermKeeps ==
  ASSUME AsyncInv, PlatTerm PROVE AsyncInv'
<1> USE AsyncAssumption DEF AsyncInv, PlatTerm
<1>1. inited' \in BOOLEAN
  BY Zenon
<1>2. early' = {}
  BY DEF PendingInv, TableAllocated
<1>3. AsyncTypeOK'
  BY <1>1, <1>2 DEF AsyncTypeOK, Allocated
<1>4. TableAllocated' /\ OrphansKeepSource'
  BY <1>2 DEF PendingInv, TableAllocated, OrphansKeepSource, AsyncTypeOK
<1>5. PendingKnown'
  BY <1>2 DEF PendingInv, PendingKnown, AsyncTypeOK
<1>6. DispatchPending'
  BY DEF PendingInv, DispatchPending, DispatcherIdle
<1> QED
  BY <1>3, <1>4, <1>5, <1>6 DEF PendingInv

\* The host's thread: a source is dispatched, and reports the state ...
LEMMA CallbackKeeps ==
  ASSUME AsyncInv, Dispatch \/ StateCallback PROVE AsyncInv'
<1> USE AsyncAssumption DEF AsyncInv
<1>1. CASE Dispatch
  <2>1. PICK c \in sources : dispatcher' = [stage |-> "callback", context |-> c]
    BY <1>1 DEF Dispatch
  <2> QED
    BY <1>1, <2>1 DEF Dispatch, AsyncTypeOK, Allocated, PendingInv,
       TableAllocated, OrphansKeepSource, PendingKnown, DispatchPending
<1>2. CASE StateCallback
  <2>1. /\ UNCHANGED <<live, inited, table, owner, sources, adding, early, orphans, terms,
                       corrupt>>
        /\ dispatcher.context \in sources
        /\ dispatcher' = [stage |-> "destroy", context |-> dispatcher.context]
    BY <1>2 DEF StateCallback, AsyncTypeOK, PendingInv, DispatchPending
  <2>2. signal' \in [for : App \cup {None}, to : App \cup {None}]
    <3>1. owner[dispatcher.context] \in App \cup {None}
      BY <2>1 DEF AsyncTypeOK
    <3>2. live # <<>> => Head(live) \in App
      BY DEF AsyncTypeOK
    <3> QED
      BY <1>2, <3>1, <3>2 DEF StateCallback, NoSignal
  <2>3. AsyncTypeOK'
    BY <2>1, <2>2 DEF AsyncTypeOK, Allocated
  <2> QED
    BY <2>1, <2>3 DEF PendingInv, TableAllocated, OrphansKeepSource, PendingKnown,
       DispatchPending, Allocated
<1> QED
  BY <1>1, <1>2

\* ... and ends: the context leaves the table, if it has been entered.
LEMMA DestroySourceKeeps ==
  ASSUME AsyncInv, DestroySource PROVE AsyncInv'
<1> USE AsyncAssumption DEF AsyncInv
<1> DEFINE c == dispatcher.context
<1>1. /\ UNCHANGED <<live, inited, adding, signal, early, orphans, terms, corrupt>>
      /\ sources' = sources \ {c} /\ table' = table \ {c}
      /\ owner' = IF c \in table THEN [owner EXCEPT ![c] = None] ELSE owner
      /\ dispatcher' = DispatcherIdle
  BY DEF DestroySource
<1>2. c \in sources \ orphans /\ c \in Context
  BY DEF DestroySource, PendingInv, DispatchPending, AsyncTypeOK
<1> HIDE DEF c
<1>3. c \notin early
  BY <1>2 DEF PendingInv, TableAllocated
<1>4. Allocated' = Allocated \ (table \cap {c})
  BY <1>1, <1>2 DEF Allocated, AsyncTypeOK
<1>5. DispatcherIdle \in [stage : {"idle", "callback", "destroy"}, context : Context \cup {None}]
  BY DEF DispatcherIdle
<1>6. adding' \in (Allocated' \ table') \cup {None}
  BY <1>1, <1>4 DEF AsyncTypeOK
<1>7. owner' \in [Context -> App \cup {None}]
  BY <1>1, <1>2 DEF AsyncTypeOK
<1>8. AsyncTypeOK'
  BY <1>1, <1>5, <1>6, <1>7 DEF AsyncTypeOK
<1>9. TableAllocated' /\ OrphansKeepSource'
  BY <1>1, <1>2, <1>3, <1>4 DEF PendingInv, TableAllocated, OrphansKeepSource
<1>10. PendingKnown'
  BY <1>1, <1>2, <1>3 DEF PendingInv, PendingKnown
<1>11. DispatchPending'
  BY <1>1 DEF DispatchPending, DispatcherIdle
<1> QED
  BY <1>8, <1>9, <1>10, <1>11 DEF PendingInv

\* Every step keeps the invariant; one that makes the process wild changes
\* nothing else.
LEMMA AsyncInvInductive ==
  ASSUME AsyncInv, [AsyncNext]_asyncVars PROVE AsyncInv'
<1>1. CASE UseFreed \/ Collide
  <2>1. UNCHANGED <<live, inited, table, owner, sources, adding, dispatcher, signal, early,
                    orphans, terms>>
    BY <1>1 DEF UseFreed, Collide
  <2>2. corrupt' \in BOOLEAN
    BY <1>1, Zenon DEF UseFreed, Collide
  <2> QED
    BY <2>1, <2>2 DEF AsyncInv, AsyncTypeOK, Allocated, PendingInv, TableAllocated,
       OrphansKeepSource, PendingKnown, DispatchPending, DispatcherIdle
<1>2. CASE UNCHANGED asyncVars
  BY <1>2 DEF asyncVars, AsyncInv, AsyncTypeOK, Allocated, PendingInv, TableAllocated,
     OrphansKeepSource, PendingKnown, DispatchPending, DispatcherIdle
<1> QED
  BY <1>1, <1>2, PlatInitKeeps, StateAsyncKeeps, InsertKeeps, DropInstanceKeeps, PlatTermKeeps,
     CallbackKeeps, DestroySourceKeeps DEF AsyncNext

\* The inductive invariant of the asynchronous calls as a whole.
LEMMA AsyncInvariant == AsyncSpec => []AsyncInv
<1>1. AsyncInit => AsyncInv
  BY InitAsyncInv
<1>2. AsyncInv /\ [AsyncNext]_asyncVars => AsyncInv'
  BY AsyncInvInductive
<1> QED
  BY <1>1, <1>2, PTL DEF AsyncSpec

\* Type correctness of the asynchronous calls; the context that is being
\* entered is allocated and not yet in the table.
THEOREM AsyncTypeCorrect == AsyncSpec => []AsyncTypeOK
<1>1. AsyncInv => AsyncTypeOK
  BY DEF AsyncInv
<1> QED
  BY <1>1, AsyncInvariant, PTL

\* While the server is up, the table holds the contexts whose source has not
\* ended, and besides only those whose source ended before they were entered:
\* through any number of restarts none is lost and none other stays behind.
THEOREM TableHoldsThePending == AsyncSpec => []TableHoldsPending
<1>1. AsyncInv => TableHoldsPending
  <2> SUFFICES ASSUME AsyncInv, inited, adding = None PROVE table \ early = sources \ orphans
    BY DEF TableHoldsPending
  <2>1. table \ early = (sources \ orphans) \ {None}
    BY DEF AsyncInv, PendingInv, PendingKnown
  <2>2. None \notin sources
    BY AsyncAssumption DEF AsyncInv, AsyncTypeOK
  <2> QED
    BY <2>1, <2>2
<1> QED
  BY <1>1, AsyncInvariant, PTL

\* The accounts of the contexts are kept by every step, given AsyncInv: what a
\* source leaves in the table was entered late, and what it does not find there
\* is about to be entered.
LEMMA AccountsInductive ==
  ASSUME AsyncInv, ContextsAccountedFor, [AsyncNext]_asyncVars PROVE ContextsAccountedFor'
<1> USE AsyncAssumption DEF AsyncInv, AsyncTypeOK, ContextsAccountedFor, Allocated
<1>1. CASE PlatInit
  BY <1>1 DEF PlatInit, PendingInv, PendingKnown
<1>2. ASSUME NEW a \in App, StateAsync(a) PROVE ContextsAccountedFor'
  <2>1. PICK c \in Context \ (Allocated \cup orphans) :
          owner' = [owner EXCEPT ![c] = a] /\ adding' = c
    BY <1>2 DEF StateAsync
  <2>2. UNCHANGED table /\ adding = None
    BY <1>2 DEF StateAsync
  <2>3. Allocated' = Allocated \cup {c} /\ c # None
    BY <2>1
  <2> QED
    BY <2>1, <2>2, <2>3
<1>3. CASE Insert
  BY <1>3 DEF Insert
<1>4. ASSUME NEW a \in App, DropInstance(a) PROVE ContextsAccountedFor'
  BY <1>4 DEF DropInstance
<1>5. CASE PlatTerm
  BY <1>5 DEF PlatTerm
<1>6. CASE Dispatch \/ StateCallback \/ UseFreed \/ Collide \/ UNCHANGED asyncVars
  BY <1>6 DEF Dispatch, StateCallback, UseFreed, Collide, asyncVars
<1>7. CASE DestroySource
  <2>1. Allocated' = Allocated \ (table \cap {dispatcher.context})
    BY <1>7 DEF DestroySource
  <2>2. UNCHANGED adding /\ table' = table \ {dispatcher.context}
    BY <1>7 DEF DestroySource
  <2>3. adding \in Allocated \ table \/ adding = None
    OBVIOUS
  <2>4. adding = dispatcher.context => dispatcher.context \notin table
    BY <2>3
  <2> QED
    BY <2>1, <2>2, <2>4
<1> QED
  BY <1>1, <1>2, <1>3, <1>4, <1>5, <1>6, <1>7 DEF AsyncNext

\* Through any interleaving of starts, ends of sources and restarts, no context
\* is lost and none is freed twice.
THEOREM ContextsAreAccountedFor == AsyncSpec => []ContextsAccountedFor
<1>1. AsyncInit => ContextsAccountedFor
  BY DEF AsyncInit, ContextsAccountedFor, Allocated
<1>2. AsyncInv /\ ContextsAccountedFor /\ [AsyncNext]_asyncVars => ContextsAccountedFor'
  BY AccountsInductive
<1> QED
  BY <1>1, <1>2, AsyncInvariant, PTL DEF AsyncSpec

\* GDestroyNotify_async_source_destory frees the context it is given: when it
\* is called for one that was not freed already, the table exists and holds it,
\* unless the main thread is just about to enter it.
DestroyFindsContext ==
  dispatcher.stage = "destroy" /\ dispatcher.context \notin orphans =>
    inited /\ dispatcher.context \in table \cup {adding}

\* A context is left in the table for good only through that race.
THEOREM DestroyFindsItsContext == AsyncSpec => []DestroyFindsContext
<1>1. AsyncInv => DestroyFindsContext
  BY DEF AsyncInv, PendingInv, PendingKnown, DispatchPending, DestroyFindsContext, AsyncTypeOK
<1> QED
  BY <1>1, AsyncInvariant, PTL
=============================================================================
