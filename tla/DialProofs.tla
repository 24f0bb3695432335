----------------------------- MODULE DialProofs -----------------------------
(***************************************************************************)
(* Proofs about Dial, for any applications and any number of commands and  *)
(* changes.                                                                *)
(***************************************************************************)
EXTENDS Dial, SequenceTheorems, TLAPS

-----------------------------------------------------------------------------
(***************************************************************************)
(* What is on its way in a channel: first what is in the hand of the       *)
(* handler, then what is queued, last what is being queued.                *)
(***************************************************************************)

\* What begins to be queued is the last on its way.
LEMMA SendIsLast ==
  ASSUME NEW S, NEW h \in Seq(S), NEW p \in Seq(S), NEW m \in S
  PROVE  h \o p \o <<m>> = Append(h \o p \o <<>>, m)
BY ConcatProperties, ConcatEmptySeq, AppendIsConcat

\* When it is queued, ...
LEMMA QueuedKeepsTheWay ==
  ASSUME NEW S, NEW h \in Seq(S), NEW p \in Seq(S), NEW s \in Seq(S)
  PROVE  h \o (p \o s) \o <<>> = h \o p \o s
BY ConcatProperties, ConcatEmptySeq, ConcatAssociative

\* ... and when the oldest is taken, the way stays as it is.
LEMMA TakeKeepsTheWay ==
  ASSUME NEW S, NEW p \in Seq(S), NEW s \in Seq(S), p # <<>>
  PROVE  <<Head(p)>> \o Tail(p) \o s = <<>> \o p \o s
<1>1. <<Head(p)>> \o Tail(p) = p
  BY HeadTailProperties
<1>2. <<>> \o p = p
  BY ConcatEmptySeq
<1> QED
  BY <1>1, <1>2

\* What is delivered was the first on its way.
LEMMA DeliveredIsFirst ==
  ASSUME NEW S, NEW m \in S, NEW p \in Seq(S), NEW s \in Seq(S)
  PROVE  <<m>> \o p \o s = <<m>> \o (<<>> \o p \o s)
<1>1. <<m>> \in Seq(S) /\ <<>> \o p = p
  BY ConcatEmptySeq
<1> QED
  BY <1>1, ConcatAssociative

-----------------------------------------------------------------------------
(***************************************************************************)
(* Types.  TypeOK says what is on its way as a whole; its parts have to be *)
(* known one by one, and that there is at most one event in hand.          *)
(***************************************************************************)
CommandParts ==
  /\ cPending \in Seq(Command) /\ cSending \in Seq(Command) /\ cDelivered \in Seq(Command)
  /\ cInHand \in {<<>>} \cup {<<c>> : c \in Command}
ReportParts ==
  /\ rPending \in Seq(Report) /\ rSending \in Seq(Report) /\ rDelivered \in Seq(Report)
  /\ rInHand \in {<<>>} \cup {<<r>> : r \in Report}
DialTypes ==
  /\ phase \in {"threads", "notified", "observed", "exit", "exits", "joined"}
  /\ actual \in [App -> HostState]
  /\ cache \in [App -> HostState \cup {"NOT_FOUND"}]
  /\ asked \subseteq App /\ lost \subseteq App
  /\ changes \in 0..MaxChanges

TypeInv == DialTypes /\ wild \in BOOLEAN /\ CommandParts /\ ReportParts

\* The parts of the channels make up what is on its way, before and after a
\* step.
LEMMA PartsMakeTheWay ==
  /\ CommandParts => CommandsInFlight \in Seq(Command) /\ cInHand \in Seq(Command)
  /\ ReportParts => ReportsInFlight \in Seq(Report) /\ rInHand \in Seq(Report)
  /\ CommandParts' => CommandsInFlight' \in Seq(Command)
  /\ ReportParts' => ReportsInFlight' \in Seq(Report)
<1>1. ASSUME NEW S, NEW h \in {<<>>} \cup {<<m>> : m \in S}, NEW p \in Seq(S), NEW s \in Seq(S)
      PROVE  h \in Seq(S) /\ h \o p \o s \in Seq(S)
  <2>1. \A m \in S : <<m>> \in Seq(S)
    OBVIOUS
  <2>2. h \in Seq(S)
    BY <2>1, EmptySeq
  <2> QED
    BY <2>2, ConcatProperties
<1> QED
  BY <1>1 DEF CommandParts, ReportParts, CommandsInFlight, ReportsInFlight

\* A command that begins to be queued is the last on its way, ...
LEMMA CommandSent ==
  ASSUME CommandParts, NEW c \in Command, Commands!StartSend(c)
  PROVE  CommandParts' /\ CommandsInFlight' = Append(CommandsInFlight, c)
<1>1. cSending = <<>> /\ cSending' = <<c>> /\ UNCHANGED <<cPending, cInHand, cDelivered>>
  BY DEF Commands!StartSend
<1>2. cInHand \in Seq(Command)
  BY PartsMakeTheWay
<1> QED
  BY <1>1, <1>2, SendIsLast DEF CommandParts, CommandsInFlight

\* ... which the queue and its handler keep, ...
LEMMA CommandMoved ==
  ASSUME CommandParts,
         Commands!EndSend \/ Commands!Take \/ Commands!Close \/ Commands!Expire
           \/ UNCHANGED <<cPending, cInHand, cDelivered, cSending>>
  PROVE  CommandParts' /\ CommandsInFlight' = CommandsInFlight
<1>1. cInHand \in Seq(Command)
  BY PartsMakeTheWay
<1>2. CASE Commands!EndSend
  <2>1. cPending \o cSending \in Seq(Command)
    BY ConcatProperties DEF CommandParts
  <2> QED
    BY <1>1, <1>2, <2>1, QueuedKeepsTheWay DEF Commands!EndSend, CommandParts, CommandsInFlight
<1>3. CASE Commands!Take
  <2>1. cPending # <<>> /\ cInHand = <<>> /\ cInHand' = <<Head(cPending)>> /\ cPending' = Tail(cPending)
        /\ UNCHANGED <<cDelivered, cSending>>
    BY <1>3 DEF Commands!Take
  <2>2. Head(cPending) \in Command /\ Tail(cPending) \in Seq(Command)
    BY <2>1, HeadTailProperties DEF CommandParts
  <2> QED
    BY <2>1, <2>2, TakeKeepsTheWay DEF CommandParts, CommandsInFlight
<1>4. CASE Commands!Close \/ Commands!Expire \/ UNCHANGED <<cPending, cInHand, cDelivered, cSending>>
  BY <1>4 DEF Commands!Close, Commands!Expire, CommandParts, CommandsInFlight
<1> QED
  BY <1>2, <1>3, <1>4

\* ... until it is the first and is delivered.
LEMMA CommandDelivered ==
  ASSUME CommandParts, Commands!Deliver
  PROVE  /\ CommandParts' /\ Head(cInHand) \in Command
         /\ CommandsInFlight = <<Head(cInHand)>> \o CommandsInFlight'
<1>1. PICK c \in Command : cInHand = <<c>>
  BY DEF Commands!Deliver, CommandParts
<1>2. /\ Head(cInHand) = c /\ cInHand' = <<>> /\ UNCHANGED <<cPending, cSending>>
      /\ cDelivered' = cDelivered \o <<c>>
  BY <1>1 DEF Commands!Deliver
<1>3. cDelivered' \in Seq(Command)
  BY <1>2, ConcatProperties DEF CommandParts
<1> QED
  BY <1>1, <1>2, <1>3, DeliveredIsFirst DEF CommandParts, CommandsInFlight

\* The same for the reports.
LEMMA ReportSent ==
  ASSUME ReportParts, NEW r \in Report, Reports!StartSend(r)
  PROVE  ReportParts' /\ ReportsInFlight' = Append(ReportsInFlight, r)
<1>1. rSending = <<>> /\ rSending' = <<r>> /\ UNCHANGED <<rPending, rInHand, rDelivered>>
  BY DEF Reports!StartSend
<1>2. rInHand \in Seq(Report)
  BY PartsMakeTheWay
<1> QED
  BY <1>1, <1>2, SendIsLast DEF ReportParts, ReportsInFlight

\* See CommandMoved.
LEMMA ReportMoved ==
  ASSUME ReportParts,
         Reports!EndSend \/ Reports!Take \/ Reports!Close \/ Reports!Expire
           \/ UNCHANGED <<rPending, rInHand, rDelivered, rSending>>
  PROVE  ReportParts' /\ ReportsInFlight' = ReportsInFlight
<1>1. rInHand \in Seq(Report)
  BY PartsMakeTheWay
<1>2. CASE Reports!EndSend
  <2>1. rPending \o rSending \in Seq(Report)
    BY ConcatProperties DEF ReportParts
  <2> QED
    BY <1>1, <1>2, <2>1, QueuedKeepsTheWay DEF Reports!EndSend, ReportParts, ReportsInFlight
<1>3. CASE Reports!Take
  <2>1. rPending # <<>> /\ rInHand = <<>> /\ rInHand' = <<Head(rPending)>> /\ rPending' = Tail(rPending)
        /\ UNCHANGED <<rDelivered, rSending>>
    BY <1>3 DEF Reports!Take
  <2>2. Head(rPending) \in Report /\ Tail(rPending) \in Seq(Report)
    BY <2>1, HeadTailProperties DEF ReportParts
  <2> QED
    BY <2>1, <2>2, TakeKeepsTheWay DEF ReportParts, ReportsInFlight
<1>4. CASE Reports!Close \/ Reports!Expire \/ UNCHANGED <<rPending, rInHand, rDelivered, rSending>>
  BY <1>4 DEF Reports!Close, Reports!Expire, ReportParts, ReportsInFlight
<1> QED
  BY <1>2, <1>3, <1>4

\* See CommandDelivered.
LEMMA ReportDelivered ==
  ASSUME ReportParts, Reports!Deliver
  PROVE  /\ ReportParts' /\ Head(rInHand) \in Report
         /\ ReportsInFlight = <<Head(rInHand)>> \o ReportsInFlight'
<1>1. PICK r \in Report : rInHand = <<r>>
  BY DEF Reports!Deliver, ReportParts
<1>2. /\ Head(rInHand) = r /\ rInHand' = <<>> /\ UNCHANGED <<rPending, rSending>>
      /\ rDelivered' = rDelivered \o <<r>>
  BY <1>1 DEF Reports!Deliver
<1>3. rDelivered' \in Seq(Report)
  BY <1>2, ConcatProperties DEF ReportParts
<1> QED
  BY <1>1, <1>2, <1>3, DeliveredIsFirst DEF ReportParts, ReportsInFlight

-----------------------------------------------------------------------------
(***************************************************************************)
(* The steps, as far as the properties can see them: the main thread gives *)
(* a command, the host carries one out or loses it, an application changes *)
(* by itself, a report arrives, or nothing of this happens.                *)
(***************************************************************************)
Early == phase \in {"threads", "notified"}

GivesCommand(c) ==
  /\ UNCHANGED <<actual, cache, ReportsInFlight>>
  /\ asked' \in {asked, asked \cup {c.app}}
  /\ \/ CommandsInFlight' = Append(CommandsInFlight, c) /\ lost' = lost \ {c.app}
     \/ lost' = lost \cup {c.app} /\ UNCHANGED CommandsInFlight
     \/ wild' /\ UNCHANGED <<lost, CommandsInFlight>>
ChangesTo(a, s) ==
  /\ UNCHANGED <<cache, asked, lost>>
  /\ actual' = [actual EXCEPT ![a] = s]
Executes(c, s) ==
  /\ ~Early /\ ChangesTo(c.app, s)
  /\ CommandsInFlight = <<c>> \o CommandsInFlight'
  /\ ReportsInFlight' = Append(ReportsInFlight, [app |-> c.app, state |-> s])
LosesCommand(c) ==
  /\ UNCHANGED <<actual, cache, asked, ReportsInFlight>>
  /\ CommandsInFlight = <<c>> \o CommandsInFlight'
  /\ wild' \/ lost' = lost \cup {c.app}
  /\ lost \subseteq lost'
Changes(a, s) ==
  /\ ChangesTo(a, s)
  /\ UNCHANGED CommandsInFlight
  /\ IF Early THEN UNCHANGED ReportsInFlight
     ELSE ReportsInFlight' = Append(ReportsInFlight, [app |-> a, state |-> s])
ReportArrives(r) ==
  /\ UNCHANGED <<actual, asked, lost, CommandsInFlight>>
  /\ ReportsInFlight = <<r>> \o ReportsInFlight'
  /\ cache' = [cache EXCEPT ![r.app] = r.state]
NothingArrives == UNCHANGED <<actual, cache, asked, lost, CommandsInFlight, ReportsInFlight>>

Visible ==
  \/ \E c \in Command : GivesCommand(c) \/ LosesCommand(c)
  \/ \E c \in Command, s \in HostState : Executes(c, s)
  \/ \E a \in App, s \in HostState : Changes(a, s)
  \/ \E r \in Report : ReportArrives(r) /\ UNCHANGED wild
  \/ NothingArrives /\ UNCHANGED wild

\* Every step is one of these, keeps the types, and never goes back to the
\* time when the host did not have the service.
LEMMA VisibleSteps ==
  ASSUME TypeInv, [Next]_vars
  PROVE  TypeInv' /\ Visible /\ (Early' => Early) /\ (wild => wild')
<1>a. DialTypes /\ wild \in BOOLEAN /\ CommandParts /\ ReportParts
  BY DEF TypeInv
<1>b. ASSUME UNCHANGED cVars PROVE CommandParts' /\ UNCHANGED CommandsInFlight
  BY <1>a, <1>b, CommandMoved DEF cVars
<1>c. ASSUME UNCHANGED rVars PROVE ReportParts' /\ UNCHANGED ReportsInFlight
  BY <1>a, <1>c, ReportMoved DEF rVars
<1>d. ASSUME UNCHANGED <<actual, cache, asked, lost, changes, wild>>,
             phase' \in {"threads", "notified", "observed", "exit", "exits", "joined"}, Early' => Early,
             CommandParts', ReportParts', UNCHANGED <<CommandsInFlight, ReportsInFlight>>
      PROVE  TypeInv' /\ Visible /\ (Early' => Early) /\ (wild => wild')
  BY <1>a, <1>d DEF TypeInv, DialTypes, Visible, NothingArrives
<1>e. ASSUME NEW c \in Command, Notify(c), asked' \in {asked, asked \cup {c.app}},
             UNCHANGED <<phase, actual, cache, changes, rVars>>, Sound
      PROVE  TypeInv' /\ Visible /\ (Early' => Early) /\ (wild => wild')
  <2>1. ReportParts' /\ UNCHANGED ReportsInFlight
    BY <1>c, <1>e
  <2>2. CASE Commands!StartSend(c) /\ lost' = lost \ {c.app} /\ UNCHANGED wild
    <3>1. CommandParts' /\ CommandsInFlight' = Append(CommandsInFlight, c)
      BY <1>a, <2>2, CommandSent
    <3> QED
      BY <1>a, <1>e, <2>1, <2>2, <3>1 DEF TypeInv, DialTypes, Visible, GivesCommand, Early, Command
  <2>3. CASE lost' = lost \cup {c.app} /\ UNCHANGED <<wild, cVars>>
    BY <1>a, <1>b, <1>e, <2>1, <2>3 DEF TypeInv, DialTypes, Visible, GivesCommand, Early, Command
  <2>4. CASE wild' = TRUE /\ UNCHANGED <<lost, cVars>>
    BY <1>a, <1>b, <1>e, <2>1, <2>4 DEF TypeInv, DialTypes, Visible, GivesCommand, Early, Command
  <2> QED
    BY <1>e, <2>2, <2>3, <2>4 DEF Notify
<1>1. CASE ServiceNotification \/ SetService \/ MainJoined
  BY <1>1, <1>b, <1>c, <1>d DEF ServiceNotification, SetService, MainJoined, Early
<1>2. CASE ExitRequests
  BY <1>2, <1>a, <1>b, <1>d, ReportMoved DEF ExitRequests, Early
<1>3. CASE ExitResponses
  BY <1>3, <1>a, <1>c, <1>d, CommandMoved DEF ExitResponses, Early
<1>4. ASSUME NEW a \in App, ReadState(a) PROVE TypeInv' /\ Visible /\ (Early' => Early) /\ (wild => wild')
  <2>1. [op |-> "state", app |-> a] \in Command
    BY DEF Command
  <2> QED
    BY <1>4, <1>e, <2>1 DEF ReadState
<1>5. ASSUME NEW a \in App, NEW op \in {"launch", "stop", "hide"}, AskHost(a, op)
      PROVE  TypeInv' /\ Visible /\ (Early' => Early) /\ (wild => wild')
  <2>1. [op |-> op, app |-> a] \in Command
    BY DEF Command
  <2> QED
    BY <1>5, <1>e, <2>1 DEF AskHost
<1>6. CASE CommandQueued \/ TakeCommand
  BY <1>6, <1>a, <1>c, <1>d, CommandMoved DEF CommandQueued, TakeCommand, dialVars, DialTypes, Early
<1>7. CASE ReportQueued \/ TakeReport
  BY <1>7, <1>a, <1>b, <1>d, ReportMoved DEF ReportQueued, TakeReport, dialVars, DialTypes, Early
<1>8. CASE ChannelsEnd
  BY <1>8, <1>a, <1>b, <1>c, <1>d, CommandMoved, ReportMoved DEF ChannelsEnd, dialVars, DialTypes, Early
<1>9. CASE ChannelsSpoil
  BY <1>9, <1>a, <1>b, <1>c, <1>d, CommandMoved, ReportMoved DEF ChannelsSpoil, dialVars, DialTypes, Early
<1>10. CASE UNCHANGED vars
  BY <1>10, <1>a, <1>b, <1>c, <1>d DEF vars, dialVars, DialTypes, Early
<1>11. CASE HostExecutes
  <2> DEFINE c == Head(cInHand)
             s == Effect(c, actual[c.app])
             r == [app |-> c.app, state |-> s]
  <2>1. /\ CommandParts' /\ c \in Command
        /\ CommandsInFlight = <<c>> \o CommandsInFlight'
    BY <1>11, <1>a, CommandDelivered DEF HostExecutes
  <2>2. c.app \in App /\ s \in HostState /\ r \in Report
    BY <1>a, <2>1 DEF Effect, Command, Report, HostState, DialTypes
  <2>3. /\ ~Early /\ actual' = [actual EXCEPT ![c.app] = s] /\ Reports!StartSend(r)
        /\ UNCHANGED <<phase, cache, asked, lost, changes, wild>>
    BY <1>11 DEF HostExecutes, Early
  <2> HIDE DEF c, s
  <2>4. ReportParts' /\ ReportsInFlight' = Append(ReportsInFlight, r)
    BY <1>a, <2>2, <2>3, ReportSent
  <2>5. Executes(c, s) /\ (Early' => Early)
    BY <2>1, <2>3, <2>4 DEF Executes, ChangesTo, Early
  <2>6. TypeInv'
    BY <1>a, <2>1, <2>2, <2>3, <2>4 DEF TypeInv, DialTypes
  <2> QED
    BY <2>1, <2>2, <2>3, <2>5, <2>6 DEF Visible
<1>12. CASE NoObserver
  <2> DEFINE c == Head(cInHand)
  <2>1. /\ CommandParts' /\ c \in Command
        /\ CommandsInFlight = <<c>> \o CommandsInFlight'
    BY <1>12, <1>a, CommandDelivered DEF NoObserver
  <2>2. /\ UNCHANGED <<phase, actual, cache, asked, changes, rVars>>
        /\ \/ lost' = lost \cup {c.app} /\ UNCHANGED wild
           \/ wild' = TRUE /\ UNCHANGED lost
    BY <1>12 DEF NoObserver
  <2> HIDE DEF c
  <2>3. ReportParts' /\ UNCHANGED ReportsInFlight
    BY <1>c, <2>2
  <2>4. LosesCommand(c) /\ (Early' => Early) /\ (wild => wild')
    BY <2>1, <2>2, <2>3 DEF LosesCommand, Early
  <2>5. TypeInv'
    BY <1>a, <2>1, <2>2, <2>3 DEF TypeInv, DialTypes, Command
  <2> QED
    BY <2>1, <2>4, <2>5 DEF Visible
<1>13. ASSUME NEW a \in App, NEW s \in HostState, HostChanges(a, s)
       PROVE  TypeInv' /\ Visible /\ (Early' => Early) /\ (wild => wild')
  <2> DEFINE r == [app |-> a, state |-> s]
  <2>1. r \in Report
    BY DEF Report
  <2>2. /\ actual' = [actual EXCEPT ![a] = s] /\ changes < MaxChanges /\ changes' = changes + 1
        /\ UNCHANGED <<phase, cache, asked, lost, wild, cVars>>
        /\ IF Early THEN UNCHANGED rVars ELSE Reports!StartSend(r)
    BY <1>13 DEF HostChanges, Early
  <2>3. CommandParts' /\ UNCHANGED CommandsInFlight
    BY <1>b, <2>2
  <2>4. ReportParts' /\ IF Early THEN UNCHANGED ReportsInFlight
                        ELSE ReportsInFlight' = Append(ReportsInFlight, r)
    BY <1>a, <1>c, <2>1, <2>2, ReportSent
  <2>5. changes' \in 0..MaxChanges
    BY <1>a, <2>2, DialAssumption DEF DialTypes
  <2>6. Changes(a, s) /\ (Early' => Early)
    BY <2>2, <2>3, <2>4 DEF Changes, ChangesTo, Early
  <2>7. TypeInv'
    BY <1>a, <2>2, <2>3, <2>4, <2>5 DEF TypeInv, DialTypes
  <2> QED
    BY <2>2, <2>6, <2>7 DEF Visible
<1>14. CASE ApplicationStateChanged
  <2> DEFINE r == Head(rInHand)
  <2>1. /\ ReportParts' /\ r \in Report
        /\ ReportsInFlight = <<r>> \o ReportsInFlight'
    BY <1>14, <1>a, ReportDelivered DEF ApplicationStateChanged
  <2>2. /\ UNCHANGED <<phase, actual, asked, lost, changes, wild, cVars>>
        /\ cache' = [cache EXCEPT ![r.app] = r.state]
    BY <1>14 DEF ApplicationStateChanged, UpdateAppStatusCache
  <2> HIDE DEF r
  <2>3. CommandParts' /\ UNCHANGED CommandsInFlight
    BY <1>b, <2>2
  <2>4. ReportArrives(r) /\ (Early' => Early)
    BY <2>1, <2>2, <2>3 DEF ReportArrives, Early
  <2>5. TypeInv'
    BY <1>a, <2>1, <2>2, <2>3 DEF TypeInv, DialTypes, Report
  <2> QED
    BY <2>1, <2>2, <2>4, <2>5 DEF Visible
<1> QED
  BY <1>1, <1>2, <1>3, <1>4, <1>5, <1>6, <1>7, <1>8, <1>9, <1>10, <1>11, <1>12, <1>13, <1>14 DEF Next

\* The types hold in every state.
LEMMA TypeInvariant == Spec => []TypeInv
<1>1. Init => TypeInv
  <2> SUFFICES ASSUME Init PROVE TypeInv
    OBVIOUS
  <2>1. CommandParts /\ ReportParts
    BY EmptySeq DEF Init, Commands!Init, Reports!Init, CommandParts, ReportParts
  <2>2. DialTypes
    BY DialAssumption DEF Init, DialTypes
  <2>3. wild \in BOOLEAN
    BY Zenon DEF Init
  <2> QED
    BY <2>1, <2>2, <2>3 DEF TypeInv
<1>2. TypeInv /\ [Next]_vars => TypeInv'
  BY VisibleSteps
<1> QED
  BY <1>1, <1>2, PTL DEF Spec

\* Type correctness: whatever the order of start, stop, commands and reports,
\* the queues hold commands and reports and the cache holds reported states.
THEOREM DialTypeCorrect == Spec => []TypeOK
<1>1. TypeInv => TypeOK
  BY PartsMakeTheWay DEF TypeInv, DialTypes, CommandParts, ReportParts, TypeOK
<1> QED
  BY <1>1, TypeInvariant, PTL

-----------------------------------------------------------------------------
(***************************************************************************)
(* LastWordIsTrue, without the choice of a last report: of a report that   *)
(* no other follows, and of a cache entry that no report follows.  It is   *)
(* kept by a change that the host does not report, because nothing has     *)
(* been reported before the host has the service.                          *)
(***************************************************************************)
Reported(a) == \E k \in 1..Len(ReportsInFlight) : ReportsInFlight[k].app = a
IsLast(k) ==
  \A j \in 1..Len(ReportsInFlight) : ReportsInFlight[j].app = ReportsInFlight[k].app => j <= k

LastReportIsTrue ==
  \A k \in 1..Len(ReportsInFlight) :
    IsLast(k) => ReportsInFlight[k].state = actual[ReportsInFlight[k].app]
CacheIsTrue == \A a \in App : ~Reported(a) => cache[a] \in {actual[a], "NOT_FOUND"}
EarlyIsSilent == Early => ReportsInFlight = <<>> /\ \A a \in App : cache[a] = "NOT_FOUND"

WordInv == LastReportIsTrue /\ CacheIsTrue /\ EarlyIsSilent

\* What an added report, ...
LEMMA AppendedReport ==
  ASSUME NEW S, NEW q \in Seq(S), NEW m \in S
  PROVE  /\ Len(Append(q, m)) = Len(q) + 1 /\ Len(q) \in Nat
         /\ \A k \in 1..Len(q) : Append(q, m)[k] = q[k]
         /\ Append(q, m)[Len(q) + 1] = m
BY AppendProperties, LenProperties

\* ... and the loss of the first one, do to what is on its way.
LEMMA FirstRemoved ==
  ASSUME NEW S, NEW q \in Seq(S), NEW m \in S
  PROVE  /\ Len(<<m>> \o q) = Len(q) + 1 /\ Len(q) \in Nat
         /\ \A k \in 1..Len(q) : (<<m>> \o q)[k + 1] = q[k]
         /\ (<<m>> \o q)[1] = m
<1>1. <<m>> \in Seq(S) /\ Len(<<m>>) = 1 /\ <<m>>[1] = m
  OBVIOUS
<1> QED
  BY <1>1, ConcatProperties, LenProperties

\* A change that is reported keeps the last words true.
LEMMA ReportKeepsWords ==
  ASSUME TypeInv, WordInv, NEW a \in App, NEW s \in HostState, ~Early, Early' => Early,
         ChangesTo(a, s),
         ReportsInFlight' = Append(ReportsInFlight, [app |-> a, state |-> s])
  PROVE  WordInv'
<1> DEFINE r == [app |-> a, state |-> s]
           n == Len(ReportsInFlight)
<1>1. ReportsInFlight \in Seq(Report) /\ r \in Report
  BY PartsMakeTheWay DEF TypeInv, Report
<1>2. /\ Len(ReportsInFlight') = n + 1 /\ n \in Nat
      /\ \A k \in 1..n : ReportsInFlight'[k] = ReportsInFlight[k]
      /\ ReportsInFlight'[n + 1] = r
  BY <1>1, AppendedReport
<1>3. /\ r.app = a /\ r.state = s
      /\ \A k \in 1..n : ReportsInFlight[k].app \in App
  <2>1. \A k \in 1..n : ReportsInFlight[k] \in Report
    BY <1>1, ElementOfSeq
  <2> QED
    BY <2>1 DEF Report
<1>4. /\ actual'[a] = s
      /\ \A b \in App : b # a => actual'[b] = actual[b] /\ cache'[b] = cache[b]
  BY DEF ChangesTo, TypeInv, DialTypes
<1> HIDE DEF r, n
<1>5. LastReportIsTrue'
  <2> SUFFICES ASSUME NEW k \in 1..(n + 1), IsLast(k)'
               PROVE  ReportsInFlight'[k].state = actual'[ReportsInFlight'[k].app]
    BY <1>2 DEF LastReportIsTrue
  <2>1. CASE k = n + 1
    BY <1>2, <1>3, <1>4, <2>1
  <2>2. CASE k # n + 1
    <3>1. k \in 1..n /\ ReportsInFlight'[k] = ReportsInFlight[k]
      BY <1>2, <2>2
    <3>2. \A j \in 1..(n + 1) : ReportsInFlight'[j].app = ReportsInFlight[k].app => j <= k
      BY <1>2, <3>1 DEF IsLast
    <3>3. ReportsInFlight[k].app # a
      BY <1>2, <1>3, <3>1, <3>2
    <3>4. IsLast(k)
      BY <1>2, <3>2 DEF IsLast, n
    <3>5. ReportsInFlight[k].state = actual[ReportsInFlight[k].app]
      BY <3>1, <3>4 DEF WordInv, LastReportIsTrue, n
    <3> QED
      BY <1>3, <1>4, <3>1, <3>3, <3>5
  <2> QED
    BY <2>1, <2>2
<1>6. CacheIsTrue'
  <2>1. Reported(a)'
    <3>1. n + 1 \in 1..Len(ReportsInFlight')
      BY <1>2
    <3> QED
      BY <1>2, <1>3, <3>1 DEF Reported
  <2>2. ASSUME NEW b \in App, ~Reported(b)' PROVE ~Reported(b)
    BY <1>2, <2>2 DEF Reported, n
  <2> QED
    BY <1>4, <2>1, <2>2 DEF WordInv, CacheIsTrue
<1> QED
  BY <1>5, <1>6 DEF WordInv, EarlyIsSilent

\* A report that arrives is the last word, or another one follows.
LEMMA ArrivalKeepsWords ==
  ASSUME TypeInv, TypeInv', WordInv, Early' => Early, NEW r \in Report, ReportArrives(r)
  PROVE  WordInv'
<1> DEFINE n == Len(ReportsInFlight')
<1>1. ReportsInFlight' \in Seq(Report) /\ ReportsInFlight \in Seq(Report)
  BY PartsMakeTheWay DEF TypeInv
<1>2. /\ Len(ReportsInFlight) = n + 1 /\ n \in Nat
      /\ \A k \in 1..n : ReportsInFlight[k + 1] = ReportsInFlight'[k]
      /\ ReportsInFlight[1] = r
  BY <1>1, FirstRemoved DEF ReportArrives
<1>3. /\ cache'[r.app] = r.state /\ r.app \in App
      /\ \A b \in App : b # r.app => cache'[b] = cache[b]
      /\ actual' = actual
  BY DEF ReportArrives, TypeInv, DialTypes, Report
<1> HIDE DEF n
<1>4. ReportsInFlight # <<>>
  BY <1>2
<1>5. LastReportIsTrue'
  <2> SUFFICES ASSUME NEW k \in 1..n, IsLast(k)'
               PROVE  ReportsInFlight'[k].state = actual'[ReportsInFlight'[k].app]
    BY DEF LastReportIsTrue, n
  <2>1. k + 1 \in 1..(n + 1) /\ ReportsInFlight[k + 1] = ReportsInFlight'[k]
    BY <1>2
  <2>2. IsLast(k + 1)
    <3> SUFFICES ASSUME NEW j \in 1..(n + 1), ReportsInFlight[j].app = ReportsInFlight[k + 1].app
                 PROVE  j <= k + 1
      BY <1>2 DEF IsLast
    <3>1. CASE j = 1
      BY <1>2, <3>1
    <3>2. CASE j # 1
      <4>1. j - 1 \in 1..n /\ ReportsInFlight[j] = ReportsInFlight'[j - 1]
        BY <1>2, <3>2
      <4>2. j - 1 <= k
        BY <2>1, <4>1 DEF IsLast, n
      <4> QED
        BY <1>2, <4>2
    <3> QED
      BY <3>1, <3>2
  <2> QED
    BY <1>2, <1>3, <2>1, <2>2 DEF WordInv, LastReportIsTrue
<1>6. CacheIsTrue'
  <2> SUFFICES ASSUME NEW a \in App, ~Reported(a)' PROVE cache'[a] \in {actual[a], "NOT_FOUND"}
    BY <1>3 DEF CacheIsTrue
  <2>1. \A k \in 2..(n + 1) : ReportsInFlight[k].app # a
    <3> SUFFICES ASSUME NEW k \in 2..(n + 1) PROVE ReportsInFlight[k].app # a
      OBVIOUS
    <3>1. k - 1 \in 1..n /\ ReportsInFlight[k] = ReportsInFlight'[k - 1]
      BY <1>2
    <3> QED
      BY <3>1 DEF Reported, n
  <2>2. CASE r.app = a
    <3>1. 1 \in 1..Len(ReportsInFlight) /\ IsLast(1)
      BY <1>2, <2>1, <2>2 DEF IsLast
    <3> QED
      BY <1>2, <1>3, <2>2, <3>1 DEF WordInv, LastReportIsTrue
  <2>3. CASE r.app # a
    <3>1. ~Reported(a)
      BY <1>2, <2>1, <2>3 DEF Reported
    <3> QED
      BY <1>3, <2>3, <3>1 DEF WordInv, CacheIsTrue
  <2> QED
    BY <2>2, <2>3
<1> QED
  BY <1>4, <1>5, <1>6 DEF WordInv, EarlyIsSilent

\* WordInv holds in every state.
LEMMA WordInvariant == Spec => []WordInv
<1>1. Init => WordInv
  <2> SUFFICES ASSUME Init PROVE WordInv
    OBVIOUS
  <2>1. ReportsInFlight = <<>> /\ \A a \in App : cache[a] = "NOT_FOUND"
    BY DEF Init, Reports!Init, ReportsInFlight
  <2> QED
    BY <2>1 DEF WordInv, LastReportIsTrue, CacheIsTrue, EarlyIsSilent
<1>2. TypeInv /\ WordInv /\ [Next]_vars => WordInv'
  <2> SUFFICES ASSUME TypeInv, WordInv, [Next]_vars PROVE WordInv'
    OBVIOUS
  <2>1. TypeInv' /\ Visible /\ (Early' => Early)
    BY VisibleSteps
  <2>2. ASSUME UNCHANGED <<actual, cache, ReportsInFlight>> PROVE WordInv'
    BY <2>1, <2>2 DEF WordInv, LastReportIsTrue, IsLast, CacheIsTrue, Reported, EarlyIsSilent
  <2>3. ASSUME NEW c \in Command, NEW s \in HostState, Executes(c, s) PROVE WordInv'
    BY <2>1, <2>3, ReportKeepsWords DEF Executes, Command
  <2>4. ASSUME NEW a \in App, NEW s \in HostState, Changes(a, s) PROVE WordInv'
    <3>1. CASE Early
      <4>1. ReportsInFlight' = <<>> /\ \A b \in App : cache'[b] = "NOT_FOUND"
        BY <2>4, <3>1 DEF Changes, ChangesTo, WordInv, EarlyIsSilent
      <4> QED
        BY <4>1 DEF WordInv, LastReportIsTrue, CacheIsTrue, EarlyIsSilent
    <3>2. CASE ~Early
      BY <2>1, <2>4, <3>2, ReportKeepsWords DEF Changes
    <3> QED
      BY <3>1, <3>2
  <2>5. ASSUME NEW r \in Report, ReportArrives(r) PROVE WordInv'
    BY <2>1, <2>5, ArrivalKeepsWords
  <2> QED
    BY <2>1, <2>2, <2>3, <2>4, <2>5 DEF Visible, GivesCommand, LosesCommand, NothingArrives
<1> QED
  BY <1>1, <1>2, TypeInvariant, PTL DEF Spec

\* Commands of clients, changes of the host and a stop of the service, in any
\* order, leave no wrong state behind in the cache.
THEOREM LastWordsAreTrue == Spec => []LastWordIsTrue
<1>1. TypeInv /\ WordInv => LastWordIsTrue
  <2> SUFFICES ASSUME TypeInv, WordInv, NEW a \in App
               PROVE  LastWord(a) \subseteq {actual[a], "NOT_FOUND"}
    BY DEF LastWordIsTrue
  <2>1. DOMAIN ReportsInFlight = 1..Len(ReportsInFlight)
    BY PartsMakeTheWay, LenProperties DEF TypeInv
  <2>2. CASE ReportsOf(a) = {}
    <3>1. ~Reported(a)
      BY <2>1, <2>2 DEF Reported, ReportsOf
    <3> QED
      BY <2>2, <3>1 DEF LastWord, WordInv, CacheIsTrue
  <2>3. CASE ReportsOf(a) # {}
    <3>1. ASSUME NEW k \in ReportsOf(a), \A j \in ReportsOf(a) : j <= k
          PROVE  ReportsInFlight[k].state = actual[a]
      BY <2>1, <3>1 DEF ReportsOf, WordInv, LastReportIsTrue, IsLast
    <3> QED
      BY <2>3, <3>1 DEF LastWord
  <2> QED
    BY <2>2, <2>3
<1> QED
  BY <1>1, TypeInvariant, WordInvariant, PTL

-----------------------------------------------------------------------------
(***************************************************************************)
(* ReadMakesKnown, without the choice of a last report: every report on    *)
(* its way makes its application known, whichever is the last.             *)
(***************************************************************************)
Asked(a) == \E k \in 1..Len(CommandsInFlight) : CommandsInFlight[k].app = a
KnownInv ==
  wild \/ \A a \in asked \ lost : cache[a] # "NOT_FOUND" \/ Reported(a) \/ Asked(a)

\* KnownInv holds in every state.
LEMMA KnownInvariant == Spec => []KnownInv
<1>1. Init => KnownInv
  BY DEF Init, KnownInv
<1>2. TypeInv /\ KnownInv /\ [Next]_vars => KnownInv'
  <2> SUFFICES ASSUME TypeInv, KnownInv, [Next]_vars, ~wild' PROVE KnownInv'
    BY DEF KnownInv
  <2>1. TypeInv' /\ Visible /\ (wild => wild')
    BY VisibleSteps
  <2>2. /\ CommandsInFlight \in Seq(Command) /\ ReportsInFlight \in Seq(Report)
        /\ CommandsInFlight' \in Seq(Command) /\ ReportsInFlight' \in Seq(Report)
    BY <2>1, PartsMakeTheWay DEF TypeInv
  <2>3. \A a \in asked \ lost : cache[a] # "NOT_FOUND" \/ Reported(a) \/ Asked(a)
    BY <2>1 DEF KnownInv
  <2>4. ASSUME NEW c \in Command, CommandsInFlight' = Append(CommandsInFlight, c)
        PROVE  Asked(c.app)' /\ \A a \in App : Asked(a) => Asked(a)'
    <3>1. /\ Len(CommandsInFlight') = Len(CommandsInFlight) + 1 /\ Len(CommandsInFlight) \in Nat
          /\ \A k \in 1..Len(CommandsInFlight) : CommandsInFlight'[k] = CommandsInFlight[k]
          /\ CommandsInFlight'[Len(CommandsInFlight) + 1] = c
      BY <2>2, <2>4, AppendedReport
    <3>2. Len(CommandsInFlight) + 1 \in 1..Len(CommandsInFlight')
      BY <3>1
    <3>3. ASSUME NEW a \in App, Asked(a) PROVE Asked(a)'
      BY <3>1, <3>3 DEF Asked
    <3> QED
      BY <3>1, <3>2, <3>3 DEF Asked
  <2>5. ASSUME NEW c \in Command, CommandsInFlight = <<c>> \o CommandsInFlight'
        PROVE  \A a \in App : a # c.app /\ Asked(a) => Asked(a)'
    <3>1. /\ Len(CommandsInFlight) = Len(CommandsInFlight') + 1 /\ Len(CommandsInFlight') \in Nat
          /\ \A k \in 1..Len(CommandsInFlight') : CommandsInFlight[k + 1] = CommandsInFlight'[k]
          /\ CommandsInFlight[1] = c
      BY <2>2, <2>5, FirstRemoved
    <3> SUFFICES ASSUME NEW a \in App, a # c.app, NEW k \in 1..Len(CommandsInFlight),
                        CommandsInFlight[k].app = a
                 PROVE  Asked(a)'
      BY DEF Asked
    <3>2. k - 1 \in 1..Len(CommandsInFlight') /\ CommandsInFlight'[k - 1] = CommandsInFlight[k]
      BY <3>1
    <3> QED
      BY <3>2 DEF Asked
  <2>6. ASSUME NEW r \in Report, ReportsInFlight' = Append(ReportsInFlight, r)
        PROVE  Reported(r.app)' /\ \A a \in App : Reported(a) => Reported(a)'
    <3>1. /\ Len(ReportsInFlight') = Len(ReportsInFlight) + 1 /\ Len(ReportsInFlight) \in Nat
          /\ \A k \in 1..Len(ReportsInFlight) : ReportsInFlight'[k] = ReportsInFlight[k]
          /\ ReportsInFlight'[Len(ReportsInFlight) + 1] = r
      BY <2>2, <2>6, AppendedReport
    <3>2. Len(ReportsInFlight) + 1 \in 1..Len(ReportsInFlight')
      BY <3>1
    <3>3. ASSUME NEW a \in App, Reported(a) PROVE Reported(a)'
      BY <3>1, <3>3 DEF Reported
    <3> QED
      BY <3>1, <3>2, <3>3 DEF Reported
  <2>7. asked \subseteq App /\ asked' \subseteq App
    BY <2>1 DEF TypeInv, DialTypes
  <2>a. ASSUME UNCHANGED ReportsInFlight PROVE \A a : Reported(a)' = Reported(a)
    BY <2>a DEF Reported
  <2>b. ASSUME UNCHANGED CommandsInFlight PROVE \A a : Asked(a)' = Asked(a)
    BY <2>b DEF Asked
  <2>8. ASSUME NEW c \in Command, GivesCommand(c) PROVE KnownInv'
    <3>1. /\ UNCHANGED <<cache, ReportsInFlight>>
          /\ asked' \subseteq asked \cup {c.app}
          /\ \/ CommandsInFlight' = Append(CommandsInFlight, c) /\ lost' = lost \ {c.app}
             \/ lost' = lost \cup {c.app} /\ UNCHANGED CommandsInFlight
      BY <2>8 DEF GivesCommand
    <3> QED
      BY <2>3, <2>4, <2>7, <2>a, <2>b, <3>1 DEF KnownInv
  <2>9. ASSUME NEW c \in Command, LosesCommand(c) PROVE KnownInv'
    BY <2>3, <2>5, <2>7, <2>9, <2>a DEF LosesCommand, KnownInv
  <2>10. ASSUME NEW c \in Command, NEW s \in HostState, Executes(c, s) PROVE KnownInv'
    <3> DEFINE r == [app |-> c.app, state |-> s]
    <3>1. r \in Report /\ r.app = c.app
      BY DEF Report, Command
    <3>2. /\ UNCHANGED <<cache, asked, lost>> /\ ReportsInFlight' = Append(ReportsInFlight, r)
          /\ CommandsInFlight = <<c>> \o CommandsInFlight'
      BY <2>10 DEF Executes, ChangesTo
    <3> HIDE DEF r
    <3> QED
      BY <2>3, <2>5, <2>6, <2>7, <3>1, <3>2 DEF KnownInv
  <2>11. ASSUME NEW a \in App, NEW s \in HostState, Changes(a, s) PROVE KnownInv'
    <3> DEFINE r == [app |-> a, state |-> s]
    <3>1. r \in Report
      BY DEF Report
    <3>2. /\ UNCHANGED <<cache, asked, lost, CommandsInFlight>>
          /\ UNCHANGED ReportsInFlight \/ ReportsInFlight' = Append(ReportsInFlight, r)
      BY <2>11 DEF Changes, ChangesTo
    <3> HIDE DEF r
    <3>3. \A b \in App : Reported(b) => Reported(b)'
      BY <2>6, <2>a, <3>1, <3>2
    <3> QED
      BY <2>3, <2>7, <2>b, <3>2, <3>3 DEF KnownInv
  <2>12. ASSUME NEW r \in Report, ReportArrives(r) PROVE KnownInv'
    <3>1. /\ UNCHANGED <<asked, lost, CommandsInFlight>>
          /\ ReportsInFlight = <<r>> \o ReportsInFlight'
          /\ cache' = [cache EXCEPT ![r.app] = r.state]
      BY <2>12 DEF ReportArrives
    <3>2. /\ Len(ReportsInFlight) = Len(ReportsInFlight') + 1 /\ Len(ReportsInFlight') \in Nat
          /\ \A k \in 1..Len(ReportsInFlight') : ReportsInFlight[k + 1] = ReportsInFlight'[k]
          /\ ReportsInFlight[1] = r
      BY <2>2, <3>1, FirstRemoved
    <3>3. ASSUME NEW a \in App, a # r.app, Reported(a) PROVE Reported(a)'
      <4>1. PICK k \in 1..Len(ReportsInFlight) : ReportsInFlight[k].app = a
        BY <3>3 DEF Reported
      <4>2. k - 1 \in 1..Len(ReportsInFlight') /\ ReportsInFlight'[k - 1] = ReportsInFlight[k]
        BY <3>2, <3>3, <4>1
      <4> QED
        BY <4>1, <4>2 DEF Reported
    <3>4. cache'[r.app] # "NOT_FOUND" /\ \A a \in App : a # r.app => cache'[a] = cache[a]
      BY <3>1 DEF TypeInv, DialTypes, Report, HostState
    <3> QED
      BY <2>3, <2>7, <2>b, <3>1, <3>3, <3>4 DEF KnownInv
  <2>13. CASE NothingArrives
    BY <2>3, <2>13, <2>a, <2>b DEF NothingArrives, KnownInv
  <2> QED
    BY <2>1, <2>8, <2>9, <2>10, <2>11, <2>12, <2>13 DEF Visible
<1> QED
  BY <1>1, <1>2, TypeInvariant, PTL DEF Spec

\* What a client has read is known, or will be when what is on its way has
\* arrived; only a command given before the observers were set can be lost.
THEOREM ReadsMakeKnown == Spec => []ReadMakesKnown
<1>1. TypeInv /\ KnownInv => ReadMakesKnown
  <2> SUFFICES ASSUME TypeInv, KnownInv, ~wild, NEW a \in asked \ lost
               PROVE  "NOT_FOUND" \notin LastWord(a) \/ a \in {c.app : c \in Range(CommandsInFlight)}
    BY DEF ReadMakesKnown
  <2>1. /\ ReportsInFlight \in Seq(Report) /\ CommandsInFlight \in Seq(Command)
        /\ DOMAIN ReportsInFlight = 1..Len(ReportsInFlight)
        /\ DOMAIN CommandsInFlight = 1..Len(CommandsInFlight)
    BY PartsMakeTheWay, LenProperties DEF TypeInv
  <2>2. CASE Asked(a)
    BY <2>1, <2>2 DEF Asked, Range
  <2>3. CASE Reported(a)
    <3>1. ReportsOf(a) # {}
      BY <2>1, <2>3 DEF Reported, ReportsOf
    <3>2. \A k \in ReportsOf(a) : ReportsInFlight[k].state # "NOT_FOUND"
      <4>1. \A k \in 1..Len(ReportsInFlight) : ReportsInFlight[k] \in Report
        BY <2>1, ElementOfSeq
      <4> QED
        BY <2>1, <4>1 DEF ReportsOf, Report, HostState
    <3> QED
      BY <3>1, <3>2 DEF LastWord
  <2>4. CASE ~Reported(a) /\ cache[a] # "NOT_FOUND"
    <3>1. ReportsOf(a) = {}
      BY <2>1, <2>4 DEF Reported, ReportsOf
    <3> QED
      BY <2>4, <3>1 DEF LastWord
  <2> QED
    BY <2>2, <2>3, <2>4 DEF KnownInv
<1> QED
  BY <1>1, TypeInvariant, KnownInvariant, PTL
=============================================================================
