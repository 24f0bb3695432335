-------------------------- MODULE RestServerProofs --------------------------
(***************************************************************************)
(* Proofs about RestServer, for any applications, prefixes, lists of the   *)
(* host and number of instances, and about Routing, for any requests,      *)
(* names and origins.                                                      *)
(***************************************************************************)
EXTENDS RestServer, Routing, SequenceTheorems, FiniteSetTheorems, TLAPS

-----------------------------------------------------------------------------
\* The types of the records, and what the steps of a handler do to them.

Entry == AppName \cup {System}
Request ==
  [kind : {"none", "POST", "GET", "DELETE", "HIDE"},
   url : Name \cup {Nobody}, app : InstanceId \cup {0},
   entry : Name \cup {Nobody}, anew : BOOLEAN,
   stage : {"idle", "start", "state", "command", "confirm", "answer"},
   freed : BOOLEAN]
Reply ==
  [kind : {"none", "POST", "GET", "DELETE"},
   url : Name \cup {Nobody},
   code : {0, 200, 201, 400, 403, 404, 413, 500, 501, 503},
   state : AppState]

\* The handler that is at work holds an instance, or one that was freed.
HandlerHasInstance ==
  ~MainIdle => req.app \in InstanceId /\ (req.freed \/ req.app \in live)

TypeInv == TypeOK /\ HandlerHasInstance

WorkType ==
  [op : {"none", "cache", "stop", "command", "read", "drop", "next", "clear", "add"},
   app : Name \cup {Nobody}, new : CacheValue, todo : Seq(AppName), saved : Seq(Entry)]

InstanceTypes ==
  /\ live \subseteq InstanceId
  /\ name \in [InstanceId -> Name \cup {Nobody}]
  /\ \A i \in live : name[i] \in Name
  /\ state \in [InstanceId -> AppState]
  /\ held \in live \cup {0}

CommandTypes == stopping \subseteq Name /\ relaunched \in BOOLEAN

\* No request and no reply are well typed.
LEMMA NoRequestType == NoRequest \in Request /\ NoRequest.stage = "idle"
BY DEF NoRequest, Request, AppState

\* See NoRequestType.
LEMMA NoReplyType == NoReply \in Reply
BY DEF NoReply, Reply, AppState

\* What is registered can be asked for.
LEMMA EntriesAreNames == Entry \subseteq Name
BY DEF Entry, Name

\* An instance that is created, or dropped, leaves the list well typed.
LEMMA NewAppType ==
  ASSUME InstanceTypes, NEW i \in InstanceId, NEW n \in Name, NewApp(i, n)
  PROVE  InstanceTypes'
BY DEF InstanceTypes, NewApp, AppState

\* See NewAppType.
LEMMA UnrefAppType ==
  ASSUME InstanceTypes, NEW i \in InstanceId, UnrefApp(i)
  PROVE  InstanceTypes'
BY DEF InstanceTypes, UnrefApp, AppState

\* A command to the host leaves the record of the commands well typed.
LEMMA AskToType ==
  ASSUME CommandTypes, NEW command, NEW n \in Name, AskTo(command, n)
  PROVE  CommandTypes'
<1>1. stopping' \subseteq Name
  BY DEF CommandTypes, AskTo
<1>2. relaunched' \in BOOLEAN
  BY Zenon DEF CommandTypes, AskTo
<1> QED
  BY <1>1, <1>2 DEF CommandTypes

\* The handler that a request starts, and the replies, are well typed.
LEMMA HandleType ==
  ASSUME InstanceTypes, NEW k \in {"POST", "GET", "DELETE", "HIDE"}, NEW n \in Name,
         NEW i \in InstanceId, NEW e \in Name \cup {Nobody}, NEW new \in BOOLEAN,
         NEW s \in {"start", "state"}, Handle(k, n, i, e, new, s)
  PROVE  req' \in Request /\ req'.app = i /\ reply' \in Reply
BY NoReplyType DEF Handle, Request, InstanceTypes, AppState

\* See HandleType.
LEMMA RefuseType ==
  ASSUME NEW c \in {400, 403, 404, 413, 500, 501, 503}, Refuse(c)
  PROVE  req' \in Request /\ req'.stage = "idle" /\ reply' \in Reply
BY NoRequestType, NoReplyType DEF Refuse, Reply, NoReply

\* See HandleType.
LEMMA AnswerType ==
  ASSUME NEW k \in {"POST", "GET", "DELETE"}, NEW n \in Name \cup {Nobody},
         NEW c \in {200, 201}, NEW s \in AppState, Answer(k, n, c, s)
  PROVE  req' \in Request /\ req'.stage = "idle" /\ reply' \in Reply
BY NoRequestType DEF Answer, Reply

\* See HandleType.
LEMMA ReturnType ==
  Return => req' \in Request /\ req'.stage = "idle" /\ reply' \in Reply
BY NoRequestType, NoReplyType DEF Return

\* A lookup finds what is registered.
LEMMA FoundEntry ==
  ASSUME registered \in Seq(Entry), NEW n, NEW e \in FindAppRegistry(n)
  PROVE  e \in Entry
BY DEF FindAppRegistry


-----------------------------------------------------------------------------
(***************************************************************************)
(* The beginning of a request: its handler holds instance i of name n,     *)
(* which was found, or which is new because none was found.                *)
(***************************************************************************)
Holds(n, i) ==
  \/ i \in FindInstanceByName(n) /\ UNCHANGED instanceVars
  \/ FindInstanceByName(n) = {} /\ i \in NextId(n) /\ NewApp(i, n)

\* POST holds an instance of the entry's name, ...
LEMMA PostHolds ==
  ASSUME NEW n \in Name, ReceivePost(n), TypeInv
  PROVE  \E e \in Entry, i \in InstanceId :
           Holds(e, i) /\ \E new \in BOOLEAN : Handle("POST", n, i, e, new, "start")
<1>1. PICK e \in FindAppRegistry(n) :
        \/ \E i \in FindInstanceByName(e) :
             Handle("POST", n, i, e, FALSE, "start") /\ UNCHANGED instanceVars
        \/ /\ FindInstanceByName(e) = {}
           /\ \E i \in NextId(e) : NewApp(i, e) /\ Handle("POST", n, i, e, TRUE, "start")
  BY DEF ReceivePost, FindOrNew
<1>2. e \in Entry
  BY FoundEntry DEF TypeInv, TypeOK, Entry
<1>3. FindInstanceByName(e) \subseteq InstanceId /\ NextId(e) \subseteq InstanceId
  BY DEF FindInstanceByName, NextId, TypeInv, TypeOK
<1> QED
  BY <1>1, <1>2, <1>3 DEF Holds

\* ... GET one of the URL's name, ...
LEMMA GetHolds ==
  ASSUME NEW n \in Name, StartGet(n), TypeInv
  PROVE  \E e \in Entry, i \in InstanceId :
           Holds(n, i) /\ \E new \in BOOLEAN : Handle("GET", n, i, e, new, "state")
<1>1. PICK e \in FindAppRegistry(n) :
        \/ \E i \in FindInstanceByName(n) :
             Handle("GET", n, i, e, FALSE, "state") /\ UNCHANGED instanceVars
        \/ /\ FindInstanceByName(n) = {}
           /\ \E i \in NextId(n) : NewApp(i, n) /\ Handle("GET", n, i, e, TRUE, "state")
  BY DEF StartGet, FindOrNew
<1>2. e \in Entry
  BY FoundEntry DEF TypeInv, TypeOK, Entry
<1>3. FindInstanceByName(n) \subseteq InstanceId /\ NextId(n) \subseteq InstanceId
  BY DEF FindInstanceByName, NextId, TypeInv, TypeOK
<1> QED
  BY <1>1, <1>2, <1>3 DEF Holds

\* ... and a post of additional data answers at once.
LEMMA DataHolds ==
  ASSUME NEW n \in Name, ReceiveDialData(n), TypeInv
  PROVE  \/ UNCHANGED instanceVars /\ \E c \in {400, 413} : Refuse(c)
         \/ Return /\ \E i \in InstanceId : Holds(n, i)
<1>1. FindInstanceByName(n) \subseteq InstanceId /\ NextId(n) \subseteq InstanceId
  BY DEF FindInstanceByName, NextId, TypeInv, TypeOK
<1> QED
  BY <1>1 DEF ReceiveDialData, FindOrNew, Holds

\* What has been found or created is an instance of that name; the others stay
\* as they are.
LEMMA HeldInstance ==
  ASSUME InstanceTypes, NEW n \in Name, NEW i \in InstanceId, Holds(n, i)
  PROVE  /\ InstanceTypes'
         /\ live' = live \cup {i} /\ name'[i] = n
         /\ \A j \in live : name'[j] = name[j] /\ state'[j] = state[j]
         /\ held' = held
<1>1. CASE i \in FindInstanceByName(n) /\ UNCHANGED instanceVars
  BY <1>1 DEF FindInstanceByName, instanceVars, InstanceTypes
<1>2. CASE i \in NextId(n) /\ NewApp(i, n)
  <2>1. i \notin live
    BY <1>2 DEF NextId
  <2> QED
    BY <1>2, <2>1, NewAppType DEF NewApp, InstanceTypes
<1> QED
  BY <1>1, <1>2 DEF Holds

\* A second instance of a name is created for "system" only.
LEMMA HoldsKeepsSingletons ==
  ASSUME InstanceTypes, SingletonApps, NEW n \in Name, NEW i \in InstanceId, Holds(n, i)
  PROVE  SingletonApps'
<1>1. CASE i \in FindInstanceByName(n) /\ UNCHANGED instanceVars
  BY <1>1 DEF instanceVars, SingletonApps
<1>2. CASE FindInstanceByName(n) = {} /\ i \in NextId(n) /\ NewApp(i, n)
  <2>1. \A j \in live : name[j] = n => n = System
    <3> SUFFICES ASSUME NEW j \in live, name[j] = n, n # System PROVE FALSE
      OBVIOUS
    <3>1. j \in FindInstanceByName(n)
      BY DEF FindInstanceByName, SingletonApps, InstanceTypes, InstanceId
    <3> QED
      BY <1>2, <3>1
  <2> QED
    BY <2>1, HeldInstance DEF SingletonApps
<1> QED
  BY <1>1, <1>2 DEF Holds

-----------------------------------------------------------------------------
\* The lists of the registration.

\* The list that the host passed is registered in the reverse order.
LEMMA ReverseType ==
  ASSUME NEW S, NEW s \in Seq(S)
  PROVE  Reverse(s) \in Seq(S)
<1>1. Len(s) \in Nat /\ \A k \in 1..Len(s) : s[k] \in S
  BY LenProperties, ElementOfSeq
<1>2. Reverse(s) = [k \in 1..Len(s) |-> s[(Len(s) - k) + 1]]
  BY DEF Reverse
<1> QED
  BY <1>1, <1>2

\* A list loses its head, or gains one.
LEMMA ListTypes ==
  ASSUME NEW S, NEW s \in Seq(S)
  PROVE  /\ s # <<>> => Head(s) \in S /\ Tail(s) \in Seq(S)
         /\ \A e \in S : <<e>> \o s \in Seq(S)
         /\ <<>> \in Seq(S)
BY HeadTailProperties, ConcatProperties

\* Type correctness of the initial states ...
LEMMA InitTypeInv == Init => TypeInv
<1> SUFFICES ASSUME Init PROVE TypeInv
  OBVIOUS
<1>1. registered \in Seq(Entry)
  <2>1. CmdLine \in Seq(Entry)
    BY ListAssumption DEF Entry
  <2>2. <<System>> \o CmdLine \in Seq(Entry)
    BY <2>1, ListTypes DEF Entry
  <2>3. <<>> \o CmdLine = CmdLine
    BY <2>1, ConcatEmptySeq
  <2> QED
    BY <2>1, <2>2, <2>3 DEF Init
<1>2. InstanceTypes
  <2>1. live \subseteq {1} /\ {1} \subseteq InstanceId
    BY BoundAssumption DEF Init, InstanceId
  <2>2. name = [i \in InstanceId |-> IF i \in live THEN System ELSE Nobody]
        /\ state = [i \in InstanceId |-> "STOPPED"] /\ held = 0
    BY DEF Init
  <2> QED
    BY <2>1, <2>2 DEF InstanceTypes, Name, AppState
<1>3. req \in Request /\ MainIdle /\ reply \in Reply
  BY NoRequestType, NoReplyType DEF Init, MainIdle
<1>4. work \in WorkType
  BY DEF Init, NoWork, CacheValue, WorkType
<1>5. enabled \in BOOLEAN /\ wild \in BOOLEAN /\ relaunched \in BOOLEAN
  BY Zenon DEF Init
<1>6. cache \in [Name -> CacheValue] /\ stopping \subseteq Name /\ registrations \in 0..MaxRegistrations
  BY BoundAssumption DEF Init, CacheValue
<1> QED
  BY <1>1, <1>2, <1>3, <1>4, <1>5, <1>6
     DEF TypeInv, TypeOK, HandlerHasInstance, InstanceTypes, Request, Reply, Entry, WorkType

\* ... of a step of the main thread, ...
LEMMA MainTypes == TypeInv /\ MainThread => TypeInv'
<1> SUFFICES ASSUME TypeInv, MainThread PROVE TypeInv'
  OBVIOUS
<1>a. /\ InstanceTypes /\ req \in Request /\ reply \in Reply /\ CommandTypes
      /\ req.stage # "idle" => req.app \in InstanceId /\ (req.freed \/ req.app \in live)
  BY DEF TypeInv, TypeOK, HandlerHasInstance, MainIdle, InstanceTypes, CommandTypes, Request, Reply
<1>b. ASSUME InstanceTypes', req' \in Request, reply' \in Reply, CommandTypes',
             req'.stage # "idle" => req'.app \in InstanceId /\ (req'.freed \/ req'.app \in live'),
             UNCHANGED threadVars, wild' \in BOOLEAN
      PROVE  TypeInv'
  BY <1>b DEF TypeInv, TypeOK, HandlerHasInstance, MainIdle, InstanceTypes, CommandTypes, Request, Reply, threadVars
<1>c. ASSUME UNCHANGED instanceVars PROVE InstanceTypes'
  BY <1>a, <1>c DEF InstanceTypes, instanceVars
<1>i. wild \in BOOLEAN
  BY DEF TypeInv, TypeOK
<1>j. ASSUME UNCHANGED commandVars PROVE CommandTypes'
  BY <1>a, <1>j DEF CommandTypes, commandVars
<1>k. ASSUME NEW command, NEW n \in Name, AskTo(command, n) PROVE CommandTypes'
  BY <1>a, <1>k, AskToType
<1>d. ASSUME NEW c \in {400, 403, 404, 413, 500, 501, 503}, Refuse(c),
             InstanceTypes', UNCHANGED <<threadVars, commandVars, wild>>
      PROVE  TypeInv'
  BY <1>a, <1>b, <1>d, <1>i, <1>j, RefuseType
<1>l. ASSUME Return, InstanceTypes', UNCHANGED <<threadVars, commandVars, wild>>
      PROVE  TypeInv'
  BY <1>a, <1>b, <1>l, <1>i, <1>j, ReturnType
<1>e. ASSUME NEW s \in {"state", "command", "confirm", "answer"}, GoTo(s), req.stage # "idle",
             InstanceTypes', UNCHANGED <<live, threadVars, reply, wild>>, CommandTypes'
      PROVE  TypeInv'
  <2>1. req' \in Request /\ req'.app = req.app /\ req'.freed = req.freed
    BY <1>a, <1>e DEF GoTo, Request
  <2> QED
    BY <1>a, <1>b, <1>e, <1>i, <2>1
<1>f. ASSUME NEW s \in AppState, NEW k \in {"POST", "GET", "DELETE"}, NEW c \in {200, 201},
             Answer(k, req.url, c, s), InstanceTypes', UNCHANGED <<threadVars, commandVars, wild>>
      PROVE  TypeInv'
  <2>1. req.url \in Name \cup {Nobody}
    BY <1>a DEF Request
  <2>2. req' \in Request /\ req'.stage = "idle" /\ reply' \in Reply
    BY <1>f, <2>1, AnswerType
  <2> QED
    BY <1>a, <1>b, <1>f, <1>i, <1>j, <2>2
<1>g. ASSUME NEW stage \in {"start", "state", "command", "confirm", "answer"}, At(stage)
      PROVE  /\ req.stage # "idle" /\ req.app \in live /\ req.app \in InstanceId
             /\ name[req.app] \in Name /\ state[req.app] \in AppState
  BY <1>a, <1>g DEF At, InstanceTypes
<1>1. CASE RefuseRequest
  BY <1>1, <1>c, <1>d DEF RefuseRequest
<1>2. ASSUME NEW n \in Name, ReceivePost(n) PROVE TypeInv'
  <2>1. PICK e \in Entry, i \in InstanceId :
          Holds(e, i) /\ \E new \in BOOLEAN : Handle("POST", n, i, e, new, "start")
    BY <1>2, PostHolds
  <2>2. e \in Name
    BY EntriesAreNames
  <2>3. PICK new \in BOOLEAN : Handle("POST", n, i, e, new, "start")
    BY <2>1
  <2>4. req' \in Request /\ req'.app = i /\ reply' \in Reply
    BY <1>a, <2>2, <2>3, HandleType
  <2>5. InstanceTypes' /\ i \in live'
    BY <1>a, <2>1, <2>2, HeldInstance
  <2> QED
    BY <1>2, <1>a, <1>b, <1>i, <1>j, <2>4, <2>5 DEF ReceivePost
<1>3. ASSUME NEW n \in Name, StartGet(n) PROVE TypeInv'
  <2>1. PICK e \in Entry, i \in InstanceId :
          Holds(n, i) /\ \E new \in BOOLEAN : Handle("GET", n, i, e, new, "state")
    BY <1>3, GetHolds
  <2>2. PICK new \in BOOLEAN : Handle("GET", n, i, e, new, "state")
    BY <2>1
  <2>3. req' \in Request /\ req'.app = i /\ reply' \in Reply
    BY <1>a, <2>2, HandleType, EntriesAreNames
  <2>4. InstanceTypes' /\ i \in live'
    BY <1>a, <2>1, HeldInstance
  <2> QED
    BY <1>3, <1>a, <1>b, <1>i, <1>j, <2>3, <2>4 DEF StartGet
<1>4. ASSUME NEW n \in Name, ReceiveDialData(n) PROVE TypeInv'
  <2>1. UNCHANGED <<threadVars, commandVars, wild>>
    BY <1>4 DEF ReceiveDialData
  <2>2. CASE UNCHANGED instanceVars /\ \E c \in {400, 413} : Refuse(c)
    BY <2>1, <2>2, <1>c, <1>d
  <2>3. ASSUME Return, NEW i \in InstanceId, Holds(n, i) PROVE TypeInv'
    BY <1>a, <1>l, <2>1, <2>3, HeldInstance
  <2> QED
    BY <1>4, <2>2, <2>3, DataHolds
<1>5. ASSUME NEW n \in Name, NEW k \in {"DELETE", "HIDE"}, NEW i \in FindInstanceByName(n),
             Handle(k, n, i, Nobody, FALSE, "state"),
             UNCHANGED <<instanceVars, threadVars, commandVars, wild>>
      PROVE  TypeInv'
  <2>1. i \in InstanceId /\ i \in live'
    BY <1>5, <1>a DEF FindInstanceByName, InstanceTypes, instanceVars
  <2>2. req' \in Request /\ req'.app = i /\ reply' \in Reply
    BY <1>5, <1>a, <2>1, HandleType
  <2> QED
    BY <1>5, <1>a, <1>b, <1>c, <1>i, <1>j, <2>1, <2>2
<1>6. ASSUME NEW n \in Name, ReceiveDelete(n) PROVE TypeInv'
  <2>1. UNCHANGED <<instanceVars, threadVars, commandVars, wild>>
    BY <1>6 DEF ReceiveDelete
  <2>2. ASSUME NEW c \in {403, 404}, Refuse(c) PROVE TypeInv'
    BY <1>c, <1>d, <2>1, <2>2
  <2>3. ASSUME NEW i \in FindInstanceByName(n), Handle("DELETE", n, i, Nobody, FALSE, "state")
        PROVE  TypeInv'
    BY <1>5, <2>1, <2>3
  <2> QED
    BY <1>6, <2>2, <2>3 DEF ReceiveDelete
<1>7. ASSUME NEW n \in Name, ReceiveHide(n) PROVE TypeInv'
  <2>1. UNCHANGED <<instanceVars, threadVars, commandVars, wild>>
    BY <1>7 DEF ReceiveHide
  <2>2. ASSUME NEW c \in {403, 404}, Refuse(c) PROVE TypeInv'
    BY <1>c, <1>d, <2>1, <2>2
  <2>3. ASSUME NEW i \in FindInstanceByName(n), Handle("HIDE", n, i, Nobody, FALSE, "state")
        PROVE  TypeInv'
    BY <1>5, <2>1, <2>3
  <2> QED
    BY <1>7, <2>2, <2>3 DEF ReceiveHide
<1>8. CASE RefuseLocalRequest
  BY <1>8, <1>c, <1>d DEF RefuseLocalRequest
<1>9. CASE PostStart
  <2>1. CASE GoTo("state") /\ UNCHANGED instanceVars /\ UNCHANGED reply
             /\ (AskTo("launch", req.entry) \/ UNCHANGED commandVars)
    <3>1. /\ stopping' \subseteq stopping \/ UNCHANGED commandVars
          /\ relaunched' \in BOOLEAN
      BY <1>a, <2>1 DEF AskTo, CommandTypes, commandVars
    <3>2. CommandTypes'
      BY <1>a, <3>1 DEF CommandTypes, commandVars
    <3> QED
      BY <1>9, <1>a, <1>c, <1>e, <1>g, <2>1, <3>2 DEF PostStart, instanceVars
  <2>2. CASE UnrefApp(req.app) /\ Refuse(503) /\ UNCHANGED commandVars
    <3>1. InstanceTypes'
      BY <1>9, <1>a, <1>g, <2>2, UnrefAppType DEF PostStart
    <3> QED
      BY <1>9, <1>d, <2>2, <3>1 DEF PostStart
  <2> QED
    BY <1>9, <2>1, <2>2 DEF PostStart
<1>10. \A n : PlatState(n) \subseteq AppState
  BY DEF PlatState, ToAppState, AppState
<1>11. CASE ReadState
  <2>1. PICK s \in PlatState(name[req.app]) :
       /\ state' = [state EXCEPT ![req.app] = s]
       /\ \/ GoTo("answer") /\ UNCHANGED reply
          \/ Refuse(404)
          \/ GoTo("command") /\ UNCHANGED reply
          \/ Return
    BY <1>11 DEF ReadState
  <2>2. s \in AppState /\ req.stage # "idle" /\ UNCHANGED <<live, name, held, threadVars, commandVars, wild>>
    BY <1>10, <1>11, <1>g DEF ReadState
  <2>3. InstanceTypes'
    BY <1>a, <2>1, <2>2 DEF InstanceTypes
  <2> QED
    BY <1>a, <1>d, <1>e, <1>j, <1>l, <2>1, <2>2, <2>3
<1>12. CASE DeleteStop
  <2>1. CommandTypes' /\ req.stage # "idle"
    BY <1>12, <1>g, <1>k DEF DeleteStop
  <2> QED
    BY <1>12, <1>c, <1>e, <2>1 DEF DeleteStop, instanceVars
<1>13. CASE HideCommand
  <2>1. CASE AskTo("hide", name[req.app]) /\ GoTo("confirm") /\ UNCHANGED reply
    <3>1. CommandTypes' /\ req.stage # "idle"
      BY <1>13, <1>g, <1>k, <2>1 DEF HideCommand
    <3> QED
      BY <1>13, <1>c, <1>e, <2>1, <3>1 DEF HideCommand, instanceVars
  <2>2. CASE Refuse(500) /\ UNCHANGED commandVars
    BY <1>13, <1>c, <1>d, <2>2 DEF HideCommand
  <2> QED
    BY <1>13, <2>1, <2>2 DEF HideCommand
<1>14. CASE Confirm
  <2>1. InstanceTypes' /\ req.stage # "idle"
    BY <1>14, <1>a, <1>g, <1>10 DEF Confirm, InstanceTypes
  <2> QED
    BY <1>14, <1>a, <1>e, <1>j, <2>1 DEF Confirm
<1>15. CASE PostAnswer
  <2>1. state[req.app] \in AppState
    BY <1>15, <1>g DEF PostAnswer
  <2> QED
    BY <1>15, <1>c, <1>f, <2>1 DEF PostAnswer
<1>16. CASE GetAnswer
  <2>1. req.app \in InstanceId /\ state[req.app] \in AppState
    BY <1>16, <1>g DEF GetAnswer
  <2>2. InstanceTypes'
    BY <1>16, <1>a, <1>c, <2>1, UnrefAppType DEF GetAnswer
  <2>3. \A v : Told(state[req.app], v) \in AppState
    BY <2>1 DEF Told, AppState
  <2> QED
    BY <1>16, <1>f, <2>2, <2>3 DEF GetAnswer
<1>17. CASE DeleteAnswer
  <2>1. req.app \in InstanceId
    BY <1>17, <1>g DEF DeleteAnswer
  <2>2. InstanceTypes'
    BY <1>17, <1>a, <2>1, UnrefAppType DEF DeleteAnswer
  <2> QED
    BY <1>17, <1>f, <2>2 DEF DeleteAnswer, AppState
<1>18. CASE HideAnswer
  BY <1>18, <1>c, <1>l DEF HideAnswer
<1>19. CASE UseAfterFree
  <2>1. wild' \in BOOLEAN
    BY <1>19, Zenon DEF UseAfterFree
  <2> QED
    BY <1>19, <1>a, <1>b, <1>c, <1>j, <2>1 DEF UseAfterFree, instanceVars
<1> QED
  BY <1>1, <1>2, <1>3, <1>4, <1>6, <1>7, <1>8, <1>9, <1>11, <1>12, <1>13, <1>14, <1>15,
     <1>16, <1>17, <1>18, <1>19 DEF MainThread, ReceiveGet, ReceiveLocalGet

\* ... and of a step of the request handler thread.
LEMMA ThreadTypes == TypeInv /\ RequestHandlerThread => TypeInv'
<1> SUFFICES ASSUME TypeInv, RequestHandlerThread PROVE TypeInv'
  OBVIOUS
<1>a. /\ InstanceTypes /\ req \in Request /\ registered \in Seq(Entry)
      /\ cache \in [Name -> CacheValue] /\ work \in WorkType /\ registrations \in 0..MaxRegistrations
      /\ req.stage # "idle" => req.app \in InstanceId /\ (req.freed \/ req.app \in live)
      /\ CommandTypes /\ enabled \in BOOLEAN
  BY DEF TypeInv, TypeOK, HandlerHasInstance, MainIdle, InstanceTypes, CommandTypes, Request, Entry,
         WorkType
<1>b. ASSUME InstanceTypes', req' \in Request, registered' \in Seq(Entry),
             cache' \in [Name -> CacheValue], work' \in WorkType, registrations' \in 0..MaxRegistrations,
             req'.stage # "idle" => req'.app \in InstanceId /\ (req'.freed \/ req'.app \in live'),
             CommandTypes', enabled' \in BOOLEAN, UNCHANGED <<reply, wild>>
      PROVE  TypeInv'
  BY <1>b DEF TypeInv, TypeOK, HandlerHasInstance, MainIdle, InstanceTypes, CommandTypes, Request, Entry,
         WorkType
<1>c. ASSUME UNCHANGED instanceVars PROVE InstanceTypes'
  BY <1>a, <1>c DEF InstanceTypes, instanceVars
<1>g. ASSUME UNCHANGED commandVars PROVE CommandTypes'
  BY <1>a, <1>g DEF CommandTypes, commandVars
<1>d. ASSUME UNCHANGED <<instanceVars, req, reply, commandVars, enabled, wild>>,
             registered' \in Seq(Entry), cache' \in [Name -> CacheValue], work' \in WorkType,
             registrations' \in 0..MaxRegistrations
      PROVE  TypeInv'
  BY <1>a, <1>b, <1>c, <1>d, <1>g DEF instanceVars
<1>e. NoWork \in WorkType
  BY DEF NoWork, CacheValue, WorkType
<1>h. ASSUME NEW op \in {"stop", "command", "read", "drop", "next", "clear", "add"},
             work' = [work EXCEPT !.op = op]
      PROVE  work' \in WorkType
  BY <1>a, <1>h DEF WorkType
<1>f. <<>> \in Seq(Entry) /\ AppName \subseteq Entry
  BY DEF Entry
<1>1. ASSUME NEW r \in Reports, StateChangedErase(r[1], r[2]) PROVE TypeInv'
  <2>1. r[2] \in CacheValue /\ r[1] \in Name
    BY ListAssumption DEF Name
  <2>2. work' \in WorkType
    BY <1>1, <1>e, <2>1 DEF StateChangedErase, WorkType
  <2> QED
    BY <1>1, <1>a, <1>d, <2>2 DEF StateChangedErase
<1>2. CASE StateChangedInsert
  <2>1. cache' \in [Name -> CacheValue]
    BY <1>2, <1>a DEF StateChangedInsert, WorkType
  <2> QED
    BY <1>2, <1>a, <1>d, <1>e, <2>1 DEF StateChangedInsert
<1>3. ASSUME NEW b \in BOOLEAN, ActivationChanged(b) PROVE TypeInv'
  BY <1>3, <1>a, <1>b, <1>c, <1>g DEF ActivationChanged, instanceVars
<1>4. ASSUME NEW list \in AppLists, RegisterApplications(list) PROVE TypeInv'
  <2>1. Reverse(list) \in Seq(AppName)
    BY ListAssumption, ReverseType
  <2>2. work' \in WorkType
    BY <1>4, <1>a, <1>e, <2>1 DEF RegisterApplications, WorkType
  <2>3. registrations' \in 0..MaxRegistrations
    BY <1>4, <1>a, BoundAssumption DEF RegisterApplications
  <2> QED
    BY <1>4, <1>a, <1>d, <2>2, <2>3 DEF RegisterApplications
<1>5. CASE UnregisterFind
  <2>1. UNCHANGED <<registered, cache, enabled, registrations, live, name, state, req, reply,
                    commandVars, wild>>
    BY <1>5 DEF UnregisterFind
  <2>2. work' \in WorkType
    BY <1>5, <1>h DEF UnregisterFind
  <2>3. held' \in live \cup {0}
    BY <1>5, <1>a DEF UnregisterFind, FindInstanceByName, InstanceTypes
  <2>4. InstanceTypes'
    BY <1>a, <2>1, <2>3 DEF InstanceTypes
  <2> QED
    BY <1>a, <1>b, <1>g, <2>1, <2>2, <2>4
<1>11. CASE UnregisterCommand
  <2>1. UNCHANGED <<registered, cache, enabled, registrations, instanceVars, req, reply, wild>>
    BY <1>11 DEF UnregisterCommand
  <2>2. work' \in WorkType
    BY <1>11, <1>h DEF UnregisterCommand
  <2>3. name[held] \in Name
    BY <1>11, <1>a DEF UnregisterCommand, InstanceTypes
  <2>4. CommandTypes'
    BY <1>11, <1>a, <1>g, <2>3, AskToType DEF UnregisterCommand
  <2> QED
    BY <1>a, <1>b, <1>c, <2>1, <2>2, <2>4 DEF instanceVars
<1>12. CASE UnregisterRead
  <2>1. UNCHANGED <<registered, cache, enabled, registrations, live, name, held, req, reply,
                    commandVars, wild>>
    BY <1>12 DEF UnregisterRead
  <2>2. work' \in WorkType
    BY <1>12, <1>h DEF UnregisterRead
  <2>3. \A v : ToAppState(v) \in AppState
    BY DEF ToAppState, AppState
  <2>4. InstanceTypes'
    BY <1>12, <1>a, <2>1, <2>3 DEF UnregisterRead, InstanceTypes
  <2> QED
    BY <1>a, <1>b, <1>g, <2>1, <2>2, <2>4
<1>13. CASE UnregisterDrop
  <2>1. held \in live /\ held \in InstanceId
    BY <1>13, <1>a DEF UnregisterDrop, InstanceTypes
  <2>2. InstanceTypes' /\ live' = live \ {held}
    BY <1>13, <1>a, <2>1, UnrefAppType DEF UnregisterDrop, UnrefApp
  <2>3. /\ req' \in Request /\ req'.app = req.app /\ req'.stage = req.stage
        /\ req.stage # "idle" /\ req.app = held => req'.freed
        /\ req.freed => req'.freed
    BY <1>13, <1>a DEF UnregisterDrop, LoseInstance, MainIdle, Request
  <2>4. req'.stage # "idle" => req'.app \in InstanceId /\ (req'.freed \/ req'.app \in live')
    BY <1>a, <2>2, <2>3
  <2>5. work' \in WorkType
    BY <1>13, <1>h DEF UnregisterDrop
  <2> QED
    BY <1>13, <1>a, <1>b, <1>g, <2>2, <2>3, <2>4, <2>5 DEF UnregisterDrop
<1>14. CASE UnregisterUseAfterFree
  <2>1. wild' \in BOOLEAN
    BY <1>14, Zenon DEF UnregisterUseAfterFree
  <2> QED
    BY <1>14, <2>1 DEF UnregisterUseAfterFree, TypeInv, TypeOK, HandlerHasInstance, MainIdle,
       instanceVars, threadVars, commandVars
<1>15. CASE UnregisterNext
  <2>1. registered' \in Seq(Entry)
    BY <1>15, <1>a, ListTypes DEF UnregisterNext
  <2>2. work' \in WorkType
    BY <1>15, <1>h DEF UnregisterNext
  <2>3. CommandTypes'
    BY <1>15, <1>a DEF UnregisterNext, CommandTypes
  <2> QED
    BY <1>15, <1>a, <1>b, <1>c, <2>1, <2>2, <2>3 DEF UnregisterNext, instanceVars
<1>6. CASE UnregisterRestore
  <2>1. registered' \in Seq(Entry) /\ work' \in WorkType
    BY <1>6, <1>a, <1>f DEF UnregisterRestore, WorkType
  <2> QED
    BY <1>6, <1>a, <1>d, <2>1 DEF UnregisterRestore
<1>7. CASE UnregisterClear
  <2>1. registered' \in Seq(Entry)
    BY <1>7, <1>a, ListTypes DEF UnregisterClear
  <2>2. req' \in Request /\ req'.app = req.app /\ req'.stage = req.stage /\ (req.freed => req'.freed)
    BY <1>7, <1>a DEF UnregisterClear, LoseEntry, Request
  <2> QED
    BY <1>7, <1>a, <1>b, <1>c, <1>g, <2>1, <2>2 DEF UnregisterClear, instanceVars
<1>8. CASE RegisterBegin
  <2>1. work' \in WorkType
    BY <1>8, <1>h DEF RegisterBegin
  <2> QED
    BY <1>8, <1>a, <1>d, <2>1 DEF RegisterBegin
<1>9. CASE RegisterAppRegistry
  <2>1. work.todo \in Seq(AppName)
    BY <1>a DEF WorkType
  <2>2. Head(work.todo) \in AppName /\ Tail(work.todo) \in Seq(AppName)
    BY <1>9, <2>1, ListTypes DEF RegisterAppRegistry
  <2>3. work' \in WorkType
    BY <1>9, <1>a, <2>2 DEF RegisterAppRegistry, WorkType
  <2>4. <<Head(work.todo)>> \o registered \in Seq(Entry)
    BY <1>a, <1>f, <2>2, ListTypes
  <2>5. registered' \in Seq(Entry)
    BY <1>9, <1>a, <2>4 DEF RegisterAppRegistry
  <2> QED
    BY <1>9, <1>a, <1>d, <2>3, <2>5 DEF RegisterAppRegistry
<1>10. CASE RegisterSystem
  <2>1. UNCHANGED <<cache, enabled, registrations, req, reply, commandVars, wild>> /\ work' = NoWork
    BY <1>10 DEF RegisterSystem
  <2>2. ASSUME registered' = <<System>> \o registered, NEW i \in NextId(System), NewApp(i, System)
        PROVE  TypeInv'
    <3>1. i \in InstanceId /\ System \in Name
      BY DEF NextId, Name
    <3>2. InstanceTypes' /\ live \subseteq live'
      BY <1>a, <2>2, <3>1, NewAppType DEF NewApp
    <3>3. registered' \in Seq(Entry)
      BY <1>a, <2>2, ListTypes DEF Entry
    <3> QED
      BY <1>a, <1>b, <1>e, <1>g, <2>1, <3>2, <3>3
  <2>3. CASE UNCHANGED <<registered, instanceVars>>
    BY <1>a, <1>d, <1>e, <2>1, <2>3
  <2> QED
    BY <1>10, <2>2, <2>3 DEF RegisterSystem
<1> QED
  BY <1>1, <1>2, <1>3, <1>4, <1>5, <1>6, <1>7, <1>8, <1>9, <1>10, <1>11, <1>12,
     <1>13, <1>14, <1>15 DEF RequestHandlerThread

\* The types hold in every state.
LEMMA TypeInvariant == Spec => []TypeInv
<1>1. TypeInv /\ UNCHANGED vars => TypeInv'
  BY DEF vars, TypeInv, TypeOK, HandlerHasInstance, MainIdle
<1>2. TypeInv /\ [Next]_vars => TypeInv'
  BY <1>1, MainTypes, ThreadTypes DEF Next
<1> QED
  BY <1>2, InitTypeInv, PTL DEF Spec

\* Type correctness: no interleaving of the requests with the reports and
\* registrations of the host leaves a variable of the REST server ill typed.
THEOREM RestTypeCorrect == Spec => []TypeOK
<1>1. TypeInv => TypeOK
  BY DEF TypeInv
<1> QED
  BY <1>1, TypeInvariant, PTL

-----------------------------------------------------------------------------
(***************************************************************************)
(* The invariant of the handlers.  Until the other thread frees it, the    *)
(* instance that a handler holds is the one of its name, so that what is   *)
(* dropped at the end is what the client asked for; a DELETE has told the  *)
(* host to stop before it gets there; and while a handler is at work no    *)
(* reply stands that its reads of the state could contradict.              *)
(***************************************************************************)
Registering == {"stop", "command", "read", "drop", "next", "clear", "add"}
RegistrationsCounted == work.op \in Registering => registrations > 0
HeldInRegistration == held # 0 => work.op \in {"command", "read", "drop"}
RegistrationTold ==
  work.op \in {"read", "drop"} /\ held # 0 /\ name[held] # System =>
    name[held] \in stopping \/ relaunched
ThreadInv == RegistrationsCounted /\ HeldInRegistration /\ RegistrationTold

HandlerNames ==
  ~MainIdle /\ ~req.freed =>
    /\ req.stage = "start" => name[req.app] = req.entry
    /\ req.kind \in {"GET", "DELETE", "HIDE"} => name[req.app] = req.url
ToldToStop ==
  ~MainIdle /\ ~req.freed /\ req.kind = "DELETE" /\ req.stage \in {"confirm", "answer"} =>
    name[req.app] \in stopping
BusyHasNoReply == ~MainIdle => reply = NoReply
NoInstanceIsLeft ==
  SaysStopped /\ reply.url # System =>
    \A i \in live : name[i] = reply.url =>
      i = held \/ (reply.kind = "GET" /\ state[i] = "HIDE")

RestInv ==
  /\ SingletonApps
  /\ HeldInstanceIsLive
  /\ HandlerNames
  /\ ToldToStop
  /\ BusyHasNoReply
  /\ NoInstanceIsLeft
  /\ ThreadInv

\* What the main thread does to the instance that a registration holds: it may
\* free it, and it may send a command about it.
LEMMA MainAndHeld ==
  TypeInv /\ MainThread =>
    /\ UNCHANGED threadVars
    /\ \/ /\ UNCHANGED commandVars
          /\ held' = 0 \/ (held' = held /\ (held # 0 => name'[held] = name[held]))
       \/ UNCHANGED instanceVars /\ \E command, n : AskTo(command, n)
<1> DEFINE Kept == held' = 0 \/ (held' = held /\ (held # 0 => name'[held] = name[held]))
<1> SUFFICES ASSUME TypeInv, MainThread
             PROVE  /\ UNCHANGED threadVars
                    /\ \/ UNCHANGED commandVars /\ Kept
                       \/ UNCHANGED instanceVars /\ \E command, n : AskTo(command, n)
  OBVIOUS
<1>a. InstanceTypes
  BY DEF TypeInv, TypeOK, InstanceTypes
<1>b. ASSUME UNCHANGED instanceVars PROVE Kept
  BY <1>b DEF instanceVars
<1>c. ASSUME NEW n \in Name, NEW i \in InstanceId, Holds(n, i) PROVE Kept
  <2>1. held' = held /\ \A j \in live : name'[j] = name[j]
    BY <1>a, <1>c, HeldInstance
  <2>2. held # 0 => held \in live
    BY <1>a DEF InstanceTypes
  <2> QED
    BY <2>1, <2>2
<1>d. ASSUME NEW i, UnrefApp(i) PROVE Kept
  <2>1. CASE held = i
    BY <1>d, <2>1 DEF UnrefApp
  <2>2. CASE held # i
    <3>1. held' = held /\ name' = [name EXCEPT ![i] = Nobody]
      BY <1>d, <2>2 DEF UnrefApp
    <3>2. held # 0 => held \in InstanceId
      BY <1>a DEF InstanceTypes
    <3> QED
      BY <1>a, <2>2, <3>1, <3>2 DEF InstanceTypes
  <2> QED
    BY <2>1, <2>2
<1>e. ASSUME UNCHANGED <<live, name, held>> PROVE Kept
  BY <1>e
<1> HIDE DEF Kept
<1>1. CASE RefuseRequest \/ RefuseLocalRequest \/ PostAnswer \/ HideAnswer \/ UseAfterFree
  BY <1>1, <1>b DEF RefuseRequest, RefuseLocalRequest, PostAnswer, HideAnswer, UseAfterFree
<1>2. ASSUME NEW n \in Name, ReceiveDelete(n) \/ ReceiveHide(n)
      PROVE  UNCHANGED <<threadVars, commandVars>> /\ Kept
  BY <1>2, <1>b DEF ReceiveDelete, ReceiveHide
<1>3. ASSUME NEW n \in Name, ReceivePost(n) PROVE UNCHANGED <<threadVars, commandVars>> /\ Kept
  BY <1>3, <1>c, PostHolds, EntriesAreNames DEF ReceivePost
<1>4. ASSUME NEW n \in Name, StartGet(n) PROVE UNCHANGED <<threadVars, commandVars>> /\ Kept
  BY <1>4, <1>c, GetHolds DEF StartGet
<1>5. ASSUME NEW n \in Name, ReceiveDialData(n)
      PROVE  UNCHANGED <<threadVars, commandVars>> /\ Kept
  BY <1>5, <1>b, <1>c, DataHolds DEF ReceiveDialData
<1>6. CASE PostStart
  BY <1>6, <1>b, <1>d DEF PostStart
<1>7. CASE ReadState \/ Confirm
  BY <1>7, <1>e DEF ReadState, Confirm
<1>8. CASE DeleteStop \/ HideCommand
  BY <1>8, <1>b DEF DeleteStop, HideCommand
<1>9. CASE GetAnswer \/ DeleteAnswer
  BY <1>9, <1>b, <1>d DEF GetAnswer, DeleteAnswer
<1> QED
  BY <1>1, <1>2, <1>3, <1>4, <1>5, <1>6, <1>7, <1>8, <1>9
     DEF MainThread, ReceiveGet, ReceiveLocalGet

\* See ThreadInv: a command of the main thread about the instance that a
\* registration holds is a stop, or the registration is overtaken.
LEMMA MainKeepsThreadInv == TypeInv /\ ThreadInv /\ MainThread => ThreadInv'
<1> SUFFICES ASSUME TypeInv, ThreadInv, MainThread PROVE ThreadInv'
  OBVIOUS
<1>1. UNCHANGED <<work, registrations>>
  BY MainAndHeld DEF threadVars
<1>2. CASE UNCHANGED commandVars
           /\ (held' = 0 \/ (held' = held /\ (held # 0 => name'[held] = name[held])))
  BY <1>1, <1>2 DEF ThreadInv, RegistrationsCounted, HeldInRegistration, RegistrationTold, commandVars
<1>3. ASSUME UNCHANGED instanceVars, NEW command, NEW n, AskTo(command, n) PROVE ThreadInv'
  <2>1. RegistrationsCounted' /\ HeldInRegistration'
    BY <1>1, <1>3 DEF ThreadInv, RegistrationsCounted, HeldInRegistration, instanceVars
  <2>2. CASE held # 0 /\ name[held] = n
    <3>1. name[held] \in stopping' \/ relaunched'
      BY <1>3, <2>2, Zenon DEF AskTo
    <3> QED
      BY <1>3, <2>1, <3>1 DEF ThreadInv, RegistrationTold, instanceVars
  <2>3. CASE ~(held # 0 /\ name[held] = n)
    <3>1. relaunched' = relaunched /\ (held # 0 /\ name[held] \in stopping => name[held] \in stopping')
      BY <1>3, <2>3 DEF AskTo
    <3> QED
      BY <1>1, <1>3, <2>1, <3>1 DEF ThreadInv, RegistrationTold, instanceVars
  <2> QED
    BY <2>2, <2>3
<1> QED
  BY <1>2, <1>3, MainAndHeld

\* A step of the main thread keeps RestInv.
LEMMA MainKeepsRestInv == TypeInv /\ RestInv /\ MainThread => RestInv'
<1> SUFFICES ASSUME TypeInv, RestInv, MainThread PROVE RestInv'
  OBVIOUS
<1>a. /\ InstanceTypes /\ req \in Request
      /\ req.stage # "idle" => req.app \in InstanceId /\ (req.freed \/ req.app \in live)
  BY DEF TypeInv, TypeOK, HandlerHasInstance, MainIdle, InstanceTypes, Request
<1>t. ThreadInv'
  BY MainKeepsThreadInv DEF RestInv
<1>b. ASSUME SingletonApps', req' = NoRequest, UNCHANGED threadVars, NoInstanceIsLeft'
      PROVE  RestInv'
  <2>1. MainIdle'
    BY <1>b, NoRequestType DEF MainIdle
  <2> QED
    BY <1>b, <1>t, <2>1 DEF RestInv, HeldInstanceIsLive, HandlerNames, ToldToStop, BusyHasNoReply
<1>c. ASSUME UNCHANGED <<live, name>> PROVE SingletonApps'
  BY <1>c DEF RestInv, SingletonApps
<1>d. ASSUME NEW c, Refuse(c), SingletonApps', UNCHANGED threadVars PROVE RestInv'
  <2>1. reply'.kind = "none"
    BY <1>d DEF Refuse, NoReply
  <2> QED
    BY <1>b, <1>d, <2>1 DEF Refuse, NoInstanceIsLeft, SaysStopped
<1>e. ASSUME NEW n, NEW c, NEW s, Return \/ Answer("POST", n, c, s),
             SingletonApps', UNCHANGED threadVars
      PROVE  RestInv'
  <2>1. reply'.kind \in {"none", "POST"}
    BY <1>e DEF Answer, Return, NoReply
  <2> QED
    BY <1>b, <1>e, <2>1 DEF Answer, Return, NoInstanceIsLeft, SaysStopped
<1>f. ASSUME NEW s \in {"state", "command", "confirm", "answer"}, GoTo(s), req.stage # "idle",
             UNCHANGED <<live, name, threadVars, reply>>,
             ~req.freed /\ req.kind = "DELETE" /\ s \in {"confirm", "answer"} => name[req.app] \in stopping'
      PROVE  RestInv'
  <2>1. /\ req'.stage = s /\ req'.app = req.app /\ req'.freed = req.freed /\ req'.kind = req.kind
        /\ req'.url = req.url
    BY <1>a, <1>f DEF GoTo, Request
  <2>2. reply' = NoReply
    BY <1>f DEF RestInv, BusyHasNoReply, MainIdle
  <2>3. NoInstanceIsLeft'
    BY <2>2 DEF NoInstanceIsLeft, SaysStopped, NoReply
  <2> QED
    BY <1>c, <1>f, <1>t, <2>1, <2>2, <2>3
       DEF RestInv, HeldInstanceIsLive, HandlerNames, ToldToStop,
           BusyHasNoReply, MainIdle, threadVars
<1>g. ASSUME NEW k \in {"POST", "GET", "DELETE", "HIDE"}, NEW n, NEW i \in live', NEW e, NEW new,
             NEW s \in {"start", "state"}, Handle(k, n, i, e, new, s),
             SingletonApps', UNCHANGED threadVars,
             s = "start" => name'[i] = e, k # "POST" => name'[i] = n
      PROVE  RestInv'
  <2>1. /\ req'.stage = s /\ req'.app = i /\ req'.kind = k /\ req'.url = n /\ req'.entry = e
        /\ reply' = NoReply
    BY <1>g DEF Handle
  <2>2. NoInstanceIsLeft'
    BY <2>1 DEF NoInstanceIsLeft, SaysStopped, NoReply
  <2> QED
    BY <1>g, <1>t, <2>1, <2>2
       DEF RestInv, HeldInstanceIsLive, HandlerNames, ToldToStop,
           BusyHasNoReply, MainIdle, threadVars
<1>h. ASSUME NEW i \in InstanceId, UnrefApp(i) PROVE SingletonApps'
  BY <1>a, <1>h DEF UnrefApp, InstanceTypes, RestInv, SingletonApps
<1>i. ASSUME NEW stage \in {"start", "state", "command", "confirm", "answer"}, At(stage)
      PROVE  req.stage # "idle" /\ req.stage = stage /\ ~req.freed /\ req.app \in live /\ req.app \in InstanceId
  BY <1>a, <1>i DEF At
<1>1. CASE RefuseRequest
  BY <1>1, <1>c, <1>d DEF RefuseRequest, instanceVars
<1>2. ASSUME NEW n \in Name, ReceivePost(n) PROVE RestInv'
  <2>1. PICK e \in Entry, i \in InstanceId :
          Holds(e, i) /\ \E new \in BOOLEAN : Handle("POST", n, i, e, new, "start")
    BY <1>2, PostHolds
  <2>2. i \in live' /\ name'[i] = e /\ SingletonApps'
    BY <1>a, <2>1, EntriesAreNames, HeldInstance, HoldsKeepsSingletons DEF RestInv
  <2> QED
    BY <1>2, <1>g, <2>1, <2>2 DEF ReceivePost
<1>3. ASSUME NEW n \in Name, StartGet(n) PROVE RestInv'
  <2>1. PICK e \in Entry, i \in InstanceId :
          Holds(n, i) /\ \E new \in BOOLEAN : Handle("GET", n, i, e, new, "state")
    BY <1>3, GetHolds
  <2>2. i \in live' /\ name'[i] = n /\ SingletonApps'
    BY <1>a, <2>1, HeldInstance, HoldsKeepsSingletons DEF RestInv
  <2> QED
    BY <1>3, <1>g, <2>1, <2>2 DEF StartGet
<1>4. ASSUME NEW n \in Name, ReceiveDialData(n) PROVE RestInv'
  <2>1. UNCHANGED threadVars
    BY <1>4 DEF ReceiveDialData
  <2>2. CASE UNCHANGED instanceVars /\ \E c \in {400, 413} : Refuse(c)
    BY <2>1, <2>2, <1>c, <1>d DEF instanceVars
  <2>3. ASSUME Return, NEW i \in InstanceId, Holds(n, i) PROVE RestInv'
    <3>1. SingletonApps'
      BY <1>a, <2>3, HoldsKeepsSingletons DEF RestInv
    <3> QED
      BY <1>e, <2>1, <2>3, <3>1
  <2> QED
    BY <1>4, <2>2, <2>3, DataHolds
<1>5. ASSUME NEW n \in Name, NEW k \in {"DELETE", "HIDE"}, NEW i \in FindInstanceByName(n),
             Handle(k, n, i, Nobody, FALSE, "state"), UNCHANGED <<instanceVars, threadVars>>
      PROVE  RestInv'
  <2>1. i \in live' /\ name'[i] = n
    BY <1>5 DEF FindInstanceByName, instanceVars
  <2> QED
    BY <1>5, <1>c, <1>g, <2>1 DEF instanceVars
<1>6. ASSUME NEW n \in Name, ReceiveDelete(n) PROVE RestInv'
  <2>1. UNCHANGED <<instanceVars, threadVars>>
    BY <1>6 DEF ReceiveDelete
  <2>2. ASSUME NEW c, Refuse(c) PROVE RestInv'
    BY <1>c, <1>d, <2>1, <2>2 DEF instanceVars
  <2>3. ASSUME NEW i \in FindInstanceByName(n), Handle("DELETE", n, i, Nobody, FALSE, "state")
        PROVE  RestInv'
    BY <1>5, <2>1, <2>3
  <2> QED
    BY <1>6, <2>2, <2>3 DEF ReceiveDelete
<1>7. ASSUME NEW n \in Name, ReceiveHide(n) PROVE RestInv'
  <2>1. UNCHANGED <<instanceVars, threadVars>>
    BY <1>7 DEF ReceiveHide
  <2>2. ASSUME NEW c, Refuse(c) PROVE RestInv'
    BY <1>c, <1>d, <2>1, <2>2 DEF instanceVars
  <2>3. ASSUME NEW i \in FindInstanceByName(n), Handle("HIDE", n, i, Nobody, FALSE, "state")
        PROVE  RestInv'
    BY <1>5, <2>1, <2>3
  <2> QED
    BY <1>7, <2>2, <2>3 DEF ReceiveHide
<1>8. CASE RefuseLocalRequest
  BY <1>8, <1>c, <1>d DEF RefuseLocalRequest, instanceVars
<1>9. CASE PostStart
  <2>1. CASE GoTo("state") /\ UNCHANGED <<instanceVars, reply>>
    BY <1>9, <1>f, <1>i, <2>1 DEF PostStart, instanceVars
  <2>2. CASE UnrefApp(req.app) /\ Refuse(503)
    BY <1>9, <1>d, <1>h, <1>i, <2>2 DEF PostStart
  <2> QED
    BY <1>9, <2>1, <2>2 DEF PostStart
<1>10. CASE ReadState
  <2>1. UNCHANGED <<live, name, threadVars>> /\ req.stage # "idle"
    BY <1>10, <1>i DEF ReadState
  <2>2. CASE req.kind \in {"POST", "GET"} /\ GoTo("answer") /\ UNCHANGED reply
    BY <1>f, <2>1, <2>2
  <2>3. CASE Refuse(404)
    BY <1>c, <1>d, <2>1, <2>3
  <2>4. CASE GoTo("command") /\ UNCHANGED reply
    BY <1>f, <2>1, <2>4
  <2>5. CASE Return
    BY <1>c, <1>e, <2>1, <2>5
  <2> QED
    BY <1>10, <2>2, <2>3, <2>4, <2>5 DEF ReadState
<1>11. CASE DeleteStop
  <2>1. name[req.app] \in stopping'
    BY <1>11 DEF DeleteStop, AskTo
  <2> QED
    BY <1>11, <1>f, <1>i, <2>1 DEF DeleteStop, instanceVars
<1>12. CASE HideCommand
  <2>1. UNCHANGED <<live, name, threadVars>> /\ req.stage # "idle" /\ req.kind = "HIDE"
    BY <1>12, <1>i DEF HideCommand, instanceVars
  <2>2. CASE GoTo("confirm") /\ UNCHANGED reply
    BY <1>f, <2>1, <2>2
  <2>3. CASE Refuse(500)
    BY <1>c, <1>d, <2>1, <2>3
  <2> QED
    BY <1>12, <2>2, <2>3 DEF HideCommand
<1>13. CASE Confirm
  <2>1. ~req.freed /\ req.kind = "DELETE" => name[req.app] \in stopping'
    BY <1>13, <1>i DEF Confirm, RestInv, ToldToStop, MainIdle
  <2> QED
    BY <1>13, <1>f, <1>i, <2>1 DEF Confirm
<1>14. CASE PostAnswer
  BY <1>14, <1>c, <1>e DEF PostAnswer, instanceVars
<1>15. CASE GetAnswer
  <2>1. /\ req.app \in live /\ req.app \in InstanceId /\ name[req.app] = req.url
    BY <1>15, <1>i DEF GetAnswer, RestInv, HandlerNames, MainIdle
  <2>2. PICK v \in ClientVersions : Answer("GET", req.url, 200, Told(state[req.app], v))
    BY <1>15 DEF GetAnswer
  <2>3. /\ reply'.kind = "GET" /\ reply'.url = req.url /\ reply'.state = Told(state[req.app], v)
        /\ req' = NoRequest /\ UNCHANGED threadVars
    BY <1>15, <2>2 DEF Answer, GetAnswer
  <2>4. \A j \in live : name[j] = req.url /\ req.url # System => j = req.app
    BY <2>1 DEF RestInv, SingletonApps
  <2>5. CASE state[req.app] = "STOPPED"
    <3>1. UnrefApp(req.app)
      BY <1>15, <2>5 DEF GetAnswer
    <3>2. \A j \in live' : j \in live /\ j # req.app /\ name'[j] = name[j]
      BY <1>a, <2>1, <3>1 DEF UnrefApp, InstanceTypes
    <3>3. NoInstanceIsLeft'
      BY <2>3, <2>4, <3>2 DEF NoInstanceIsLeft, SaysStopped
    <3> QED
      BY <1>b, <1>h, <2>1, <2>3, <3>1, <3>3
  <2>6. CASE state[req.app] # "STOPPED"
    <3>1. UNCHANGED <<live, name, state>>
      BY <1>15, <2>6 DEF GetAnswer, instanceVars
    <3>2. reply'.state = "STOPPED" => state[req.app] = "HIDE"
      BY <2>3, <2>6 DEF Told
    <3>3. NoInstanceIsLeft'
      BY <2>3, <2>4, <3>1, <3>2 DEF NoInstanceIsLeft, SaysStopped
    <3> QED
      BY <1>b, <1>c, <2>3, <3>1, <3>3
  <2> QED
    BY <2>5, <2>6
<1>16. CASE DeleteAnswer
  <2>1. /\ req.app \in live /\ req.app \in InstanceId /\ name[req.app] = req.url
    BY <1>16, <1>i DEF DeleteAnswer, RestInv, HandlerNames, MainIdle
  <2>2. /\ reply'.kind = "DELETE" /\ reply'.url = req.url /\ req' = NoRequest
        /\ UNCHANGED threadVars /\ UnrefApp(req.app)
    BY <1>16 DEF Answer, DeleteAnswer
  <2>3. \A j \in live : name[j] = req.url /\ req.url # System => j = req.app
    BY <2>1 DEF RestInv, SingletonApps
  <2>4. \A j \in live' : j \in live /\ j # req.app /\ name'[j] = name[j]
    BY <1>a, <2>1, <2>2 DEF UnrefApp, InstanceTypes
  <2>5. NoInstanceIsLeft'
    BY <2>2, <2>3, <2>4 DEF NoInstanceIsLeft, SaysStopped
  <2> QED
    BY <1>b, <1>h, <2>1, <2>2, <2>5
<1>17. CASE HideAnswer
  BY <1>17, <1>c, <1>e DEF HideAnswer, instanceVars
<1>18. CASE UseAfterFree
  BY <1>18, <1>t DEF UseAfterFree, instanceVars, threadVars, commandVars, RestInv, SingletonApps,
     HeldInstanceIsLive, HandlerNames, ToldToStop, BusyHasNoReply, NoInstanceIsLeft, SaysStopped, MainIdle
<1> QED
  BY <1>1, <1>2, <1>3, <1>4, <1>6, <1>7, <1>8, <1>9, <1>10, <1>11, <1>12, <1>13, <1>14, <1>15,
     <1>16, <1>17, <1>18 DEF MainThread, ReceiveGet, ReceiveLocalGet

\* A step of the request handler thread keeps RestInv: it takes an instance
\* away from a handler only in a registration, and marks it as freed.
LEMMA ThreadKeepsRestInv == TypeInv /\ RestInv /\ RequestHandlerThread => RestInv'
<1> SUFFICES ASSUME TypeInv, RestInv, RequestHandlerThread PROVE RestInv'
  OBVIOUS
<1>a. /\ InstanceTypes /\ req \in Request /\ registered \in Seq(Entry)
      /\ req.stage # "idle" => req.app \in InstanceId /\ (req.freed \/ req.app \in live)
      /\ registrations \in Nat
  BY BoundAssumption
     DEF TypeInv, TypeOK, HandlerHasInstance, MainIdle, InstanceTypes, Request, Entry
<1>w. \A op : [work EXCEPT !.op = op].op = op
  BY DEF TypeInv, TypeOK
<1>b. ASSUME UNCHANGED <<instanceVars, req, reply, commandVars>>, registrations' >= registrations,
             registrations' \in Nat, ThreadInv'
      PROVE  RestInv'
  BY <1>a, <1>b DEF instanceVars, commandVars, RestInv, SingletonApps, HeldInstanceIsLive, HandlerNames,
     ToldToStop, BusyHasNoReply, NoInstanceIsLeft, SaysStopped, MainIdle
<1>c. ASSUME work.op \notin {"command", "read", "drop"} PROVE held = 0
  BY <1>c DEF RestInv, ThreadInv, HeldInRegistration
<1>d. ASSUME held' = 0, work'.op \in Registering => registrations' > 0 PROVE ThreadInv'
  BY <1>d DEF ThreadInv, RegistrationsCounted, HeldInRegistration, RegistrationTold
<1>e. ASSUME work.op \in Registering PROVE registrations > 0
  BY <1>e DEF RestInv, ThreadInv, RegistrationsCounted
<1>f. ASSUME work.op \in {"none", "cache", "stop", "clear", "add", "next"},
             UNCHANGED <<instanceVars, req, reply, commandVars>>,
             registrations' \in Nat, registrations' >= registrations,
             work'.op \in Registering => registrations' > 0
      PROVE  RestInv'
  <2>1. held' = 0
    BY <1>c, <1>f DEF instanceVars
  <2> QED
    BY <1>b, <1>d, <1>f, <2>1
<1>1. ASSUME NEW n, NEW v, StateChangedErase(n, v) PROVE RestInv'
  <2>1. work'.op = "cache" /\ work.op = "none"
    BY <1>1 DEF StateChangedErase, NoWork, ThreadIdle, WorkAt
  <2> QED
    BY <1>1, <1>a, <1>f, <2>1 DEF StateChangedErase, Registering
<1>2. CASE StateChangedInsert
  <2>1. work'.op = "none" /\ work.op = "cache"
    BY <1>2 DEF StateChangedInsert, NoWork, WorkAt
  <2> QED
    BY <1>2, <1>a, <1>f, <2>1 DEF StateChangedInsert, Registering
<1>3. ASSUME NEW b, ActivationChanged(b) PROVE RestInv'
  <2>1. work'.op = "none" /\ work.op = "none"
    BY <1>3 DEF ActivationChanged, ThreadIdle, WorkAt
  <2> QED
    BY <1>3, <1>a, <1>f, <2>1 DEF ActivationChanged, Registering
<1>4. ASSUME NEW list, RegisterApplications(list) PROVE RestInv'
  <2>1. registrations' = registrations + 1 /\ UNCHANGED <<instanceVars, req, reply, commandVars>>
        /\ work.op = "none"
    BY <1>4 DEF RegisterApplications, ThreadIdle, WorkAt
  <2>2. registrations' > 0 /\ registrations' \in Nat /\ registrations' >= registrations
    BY <1>a, <2>1
  <2> QED
    BY <1>f, <2>1, <2>2
<1>5. CASE UnregisterFind
  <2>1. /\ work.op = "stop" /\ work'.op \in {"command", "next"}
        /\ UNCHANGED <<registrations, live, name, state, req, reply, commandVars>>
        /\ held' # 0 => work'.op = "command"
        /\ held = 0 /\ registrations > 0
    <3>1. work.op = "stop" /\ UNCHANGED <<registrations, live, name, state, req, reply, commandVars>>
      BY <1>5 DEF UnregisterFind, WorkAt
    <3>2. held = 0 /\ registrations > 0
      BY <1>c, <1>e, <3>1 DEF Registering
    <3>3. work'.op \in {"command", "next"} /\ (held' # 0 => work'.op = "command")
      BY <1>5, <1>w, <3>2 DEF UnregisterFind
    <3> QED
      BY <3>1, <3>2, <3>3
  <2>2. ThreadInv'
    BY <2>1 DEF ThreadInv, RegistrationsCounted, HeldInRegistration, RegistrationTold
  <2>3. NoInstanceIsLeft'
    BY <1>a, <2>1 DEF RestInv, NoInstanceIsLeft, SaysStopped, InstanceTypes, InstanceId
  <2> QED
    BY <2>1, <2>2, <2>3 DEF commandVars, RestInv, SingletonApps, HeldInstanceIsLive, HandlerNames,
       ToldToStop, BusyHasNoReply, MainIdle
<1>11. CASE UnregisterCommand
  <2>1. /\ work.op = "command" /\ held # 0 /\ work'.op \in {"read", "drop"}
        /\ UNCHANGED <<registrations, instanceVars, req, reply>>
        /\ stopping \subseteq stopping'
        /\ name[held] = System \/ name[held] \in stopping'
    BY <1>11, <1>w DEF UnregisterCommand, WorkAt, AskTo, commandVars
  <2>2. ThreadInv'
    BY <1>e, <2>1 DEF ThreadInv, RegistrationsCounted, HeldInRegistration, RegistrationTold,
       Registering, instanceVars
  <2> QED
    BY <2>1, <2>2 DEF instanceVars, RestInv, SingletonApps, HeldInstanceIsLive, HandlerNames,
       ToldToStop, BusyHasNoReply, NoInstanceIsLeft, SaysStopped, MainIdle
<1>12. CASE UnregisterRead
  <2>1. /\ work.op = "read" /\ held # 0 /\ work'.op = "drop"
        /\ UNCHANGED <<registrations, live, name, held, req, reply, commandVars>>
        /\ \A i \in InstanceId : i # held => state'[i] = state[i]
    BY <1>12, <1>a, <1>w DEF UnregisterRead, WorkAt, InstanceTypes
  <2>2. ThreadInv'
    BY <1>e, <2>1 DEF RestInv, ThreadInv, RegistrationsCounted, HeldInRegistration, RegistrationTold,
       Registering, commandVars
  <2>3. NoInstanceIsLeft'
    BY <1>a, <2>1 DEF RestInv, NoInstanceIsLeft, SaysStopped, InstanceTypes
  <2> QED
    BY <2>1, <2>2, <2>3 DEF commandVars, RestInv, SingletonApps, HeldInstanceIsLive, HandlerNames,
       ToldToStop, BusyHasNoReply, MainIdle
<1>13. CASE UnregisterDrop
  <2>1. /\ work.op = "drop" /\ held # 0 /\ work'.op = "next"
        /\ UNCHANGED <<registrations, reply, commandVars>> /\ UnrefApp(held) /\ LoseInstance(held)
    BY <1>13, <1>w DEF UnregisterDrop, WorkAt
  <2>2. held \in InstanceId /\ held \in live /\ registrations > 0
    BY <1>a, <1>e, <2>1 DEF InstanceTypes, Registering
  <2>3. /\ live' = live \ {held} /\ held' = 0
        /\ \A j \in InstanceId : j # held => name'[j] = name[j] /\ state'[j] = state[j]
    BY <1>a, <2>1, <2>2 DEF UnrefApp, InstanceTypes
  <2>4. /\ req'.app = req.app /\ req'.stage = req.stage /\ req'.kind = req.kind
        /\ req'.url = req.url /\ req'.entry = req.entry
        /\ req.stage # "idle" /\ req.app = held => req'.freed
        /\ req.freed => req'.freed
    BY <1>a, <2>1 DEF LoseInstance, MainIdle, Request
  <2>5. SingletonApps'
    BY <1>a, <2>3 DEF RestInv, SingletonApps, InstanceTypes
  <2>6. HeldInstanceIsLive'
    BY <2>1, <2>2, <2>3, <2>4 DEF RestInv, HeldInstanceIsLive, MainIdle
  <2>7. ~MainIdle' /\ ~req'.freed => name'[req.app] = name[req.app]
    BY <1>a, <2>3, <2>4 DEF MainIdle
  <2>8. HandlerNames'
    BY <2>4, <2>7 DEF RestInv, HandlerNames, MainIdle
  <2>9. ToldToStop'
    BY <2>1, <2>4, <2>7 DEF RestInv, ToldToStop, MainIdle, commandVars
  <2>10. BusyHasNoReply'
    BY <2>1, <2>4 DEF RestInv, BusyHasNoReply, MainIdle
  <2>11. NoInstanceIsLeft'
    BY <1>a, <2>1, <2>3 DEF RestInv, NoInstanceIsLeft, SaysStopped, InstanceTypes
  <2>12. ThreadInv'
    BY <1>d, <2>1, <2>2, <2>3
  <2> QED
    BY <2>5, <2>6, <2>8, <2>9, <2>10, <2>11, <2>12 DEF RestInv
<1>14. CASE UnregisterUseAfterFree
  <2>1. UNCHANGED <<instanceVars, req, reply, commandVars, work, registrations>>
    BY <1>14 DEF UnregisterUseAfterFree, threadVars
  <2>2. ThreadInv'
    BY <2>1 DEF RestInv, ThreadInv, RegistrationsCounted, HeldInRegistration, RegistrationTold,
       instanceVars, commandVars
  <2> QED
    BY <1>a, <1>b, <2>1, <2>2
<1>15. CASE UnregisterNext
  <2>1. /\ work.op = "next" /\ UNCHANGED <<registrations, instanceVars, req, reply, stopping>>
    BY <1>15 DEF UnregisterNext, WorkAt
  <2>2. held = 0 /\ registrations > 0
    BY <1>c, <1>e, <2>1 DEF Registering
  <2>3. ThreadInv'
    BY <1>d, <2>1, <2>2 DEF instanceVars
  <2> QED
    BY <2>1, <2>3 DEF instanceVars, RestInv, SingletonApps, HeldInstanceIsLive, HandlerNames,
       ToldToStop, BusyHasNoReply, NoInstanceIsLeft, SaysStopped, MainIdle
<1>6. CASE UnregisterRestore
  BY <1>6, <1>a, <1>e, <1>f DEF UnregisterRestore, WorkAt, Registering
<1>7. CASE UnregisterClear
  <2>1. work.op = "clear" /\ UNCHANGED <<instanceVars, reply, commandVars, registrations>>
    BY <1>7 DEF UnregisterClear, WorkAt
  <2>2. held = 0 /\ registrations > 0
    BY <1>c, <1>e, <2>1 DEF Registering
  <2>4. ThreadInv'
    BY <1>d, <2>1, <2>2 DEF instanceVars
  <2>3. /\ req'.app = req.app /\ req'.stage = req.stage /\ req'.kind = req.kind
        /\ req'.url = req.url /\ req'.entry = req.entry /\ (req.freed => req'.freed)
    BY <1>7, <1>a DEF UnregisterClear, LoseEntry, Request
  <2> QED
    BY <1>a, <2>1, <2>2, <2>3, <2>4 DEF instanceVars, commandVars, RestInv, SingletonApps, HeldInstanceIsLive,
       HandlerNames, ToldToStop, BusyHasNoReply, NoInstanceIsLeft, SaysStopped, MainIdle
<1>8. CASE RegisterBegin
  BY <1>8, <1>a, <1>e, <1>f DEF RegisterBegin, WorkAt, Registering
<1>9. CASE RegisterAppRegistry
  BY <1>9, <1>a, <1>e, <1>f DEF RegisterAppRegistry, WorkAt, Registering
<1>10. CASE RegisterSystem
  <2>1. UNCHANGED <<registrations, req, reply, commandVars>> /\ work'.op = "none" /\ work.op = "add"
    BY <1>10 DEF RegisterSystem, NoWork, WorkAt
  <2>2. ASSUME NEW i \in NextId(System), NewApp(i, System) PROVE RestInv'
    <3>1. i \in InstanceId /\ i \notin live
      BY DEF NextId
    <3>2. /\ live' = live \cup {i} /\ name'[i] = System /\ held' = held
          /\ \A j \in InstanceId : j # i => name'[j] = name[j] /\ state'[j] = state[j]
      BY <1>a, <2>2, <3>1 DEF NewApp, InstanceTypes
    <3>3. SingletonApps'
      BY <1>a, <3>1, <3>2 DEF RestInv, SingletonApps, InstanceTypes
    <3>4. HeldInstanceIsLive' /\ BusyHasNoReply'
      BY <2>1, <3>2 DEF RestInv, HeldInstanceIsLive, BusyHasNoReply, MainIdle
    <3>5. ~MainIdle /\ ~req.freed => name'[req.app] = name[req.app]
      BY <1>a, <3>1, <3>2 DEF MainIdle
    <3>6. HandlerNames' /\ ToldToStop'
      BY <2>1, <3>5 DEF RestInv, HandlerNames, ToldToStop, MainIdle, commandVars
    <3>7. NoInstanceIsLeft'
      BY <1>a, <2>1, <3>1, <3>2 DEF RestInv, NoInstanceIsLeft, SaysStopped, InstanceTypes
    <3>8. ThreadInv'
      BY <1>c, <1>d, <2>1, <3>2 DEF Registering
    <3> QED
      BY <3>3, <3>4, <3>6, <3>7, <3>8 DEF RestInv
  <2>3. CASE UNCHANGED <<registered, instanceVars>>
    BY <1>a, <1>f, <2>1, <2>3 DEF Registering
  <2> QED
    BY <1>10, <2>2, <2>3 DEF RegisterSystem
<1> QED
  BY <1>1, <1>2, <1>3, <1>4, <1>5, <1>6, <1>7, <1>8, <1>9, <1>10, <1>11, <1>12,
     <1>13, <1>14, <1>15 DEF RequestHandlerThread

\* RestInv holds in every state.
LEMMA RestInvariant == Spec => []RestInv
<1>1. Init => RestInv
  <2> SUFFICES ASSUME Init PROVE RestInv
    OBVIOUS
  <2>1. MainIdle /\ reply.kind = "none" /\ work.op = "none" /\ held = 0
    BY DEF Init, NoRequest, NoReply, NoWork, MainIdle
  <2>2. SingletonApps
    BY DEF Init, SingletonApps
  <2> QED
    BY <2>1, <2>2 DEF RestInv, HeldInstanceIsLive, HandlerNames, ToldToStop, BusyHasNoReply,
       NoInstanceIsLeft, SaysStopped, ThreadInv, RegistrationsCounted, HeldInRegistration,
       RegistrationTold, Registering
<1>2. RestInv /\ UNCHANGED vars => RestInv'
  BY DEF vars, RestInv, SingletonApps, HeldInstanceIsLive, HandlerNames, ToldToStop,
         BusyHasNoReply, NoInstanceIsLeft, SaysStopped, ThreadInv, RegistrationsCounted,
         HeldInRegistration, RegistrationTold, MainIdle
<1>3. TypeInv /\ RestInv /\ [Next]_vars => RestInv'
  BY <1>2, MainKeepsRestInv, ThreadKeepsRestInv DEF Next
<1> QED
  BY <1>1, <1>3, TypeInvariant, PTL DEF Spec

\* No interleaving of requests and registrations leaves two instances of one
\* application: what gdial_app_find_instance_by_name finds is the only one.
THEOREM AppsAreSingletons == Spec => []SingletonApps
<1>1. RestInv => SingletonApps
  BY DEF RestInv
<1> QED
  BY <1>1, RestInvariant, PTL

\* The instance a handler works on exists until the handler is done, unless
\* RegisterApplications() has freed it.
THEOREM HeldInstancesLive == Spec => []HeldInstanceIsLive
<1>1. RestInv => HeldInstanceIsLive
  BY DEF RestInv
<1> QED
  BY <1>1, RestInvariant, PTL

\* Whoever uses the name under which an application is registered, and is told
\* that it is stopped, can launch it anew: POST looks for an instance of that
\* very name, and the GET or the DELETE that said so has dropped the only one, or
\* left a hidden one, unless a registration is about to drop it.
THEOREM StoppedCanBeLaunched == Spec => []StoppedReplyAllowsLaunch
<1>1. RestInv => StoppedReplyAllowsLaunch
  BY DEF RestInv, NoInstanceIsLeft, StoppedReplyAllowsLaunch, FindInstanceByName
<1> QED
  BY <1>1, RestInvariant, PTL

\* A step that drops an instance drops "system", an application that was seen
\* stopped, one that the host was last told to stop, or the one that was launched
\* or hidden since the registration told the host to stop it.
LEMMA DropsOnlyStopped ==
  TypeInv /\ RestInv /\ Next =>
    \A i \in live \ live' : \/ name[i] = System
                            \/ state[i] = "STOPPED"
                            \/ name[i] \in stopping'
                            \/ i = held /\ relaunched
<1> SUFFICES ASSUME TypeInv, RestInv, Next, NEW i \in live \ live'
             PROVE  \/ name[i] = System \/ state[i] = "STOPPED" \/ name[i] \in stopping'
                    \/ i = held /\ relaunched
  OBVIOUS
<1>a. InstanceTypes /\ req \in Request
  BY DEF TypeInv, TypeOK, InstanceTypes, Request
<1>b. ASSUME UNCHANGED live \/ live \subseteq live' PROVE FALSE
  BY <1>b
<1>c. ASSUME NEW n \in Name, NEW j \in InstanceId, Holds(n, j) PROVE FALSE
  BY <1>a, <1>b, <1>c, HeldInstance
<1>d. ASSUME NEW j, UnrefApp(j) PROVE i = j
  BY <1>d DEF UnrefApp
<1>e. ASSUME UNCHANGED instanceVars PROVE FALSE
  BY <1>b, <1>e DEF instanceVars
<1>1. CASE MainThread
  <2>1. ASSUME NEW n \in Name, ReceivePost(n) PROVE FALSE
    BY <2>1, <1>c, PostHolds, EntriesAreNames
  <2>2. ASSUME NEW n \in Name, StartGet(n) PROVE FALSE
    BY <2>2, <1>c, GetHolds
  <2>3. ASSUME NEW n \in Name, ReceiveDialData(n) PROVE FALSE
    BY <2>3, <1>c, <1>e, DataHolds
  <2>4. CASE PostStart
    <3>1. req.entry = System /\ UnrefApp(req.app) /\ At("start")
      BY <1>e, <2>4 DEF PostStart
    <3>2. name[req.app] = req.entry
      BY <3>1 DEF At, RestInv, HandlerNames, MainIdle
    <3> QED
      BY <1>d, <3>1, <3>2
  <2>5. CASE GetAnswer
    <3>1. state[req.app] = "STOPPED" /\ UnrefApp(req.app)
      BY <1>e, <2>5 DEF GetAnswer
    <3> QED
      BY <1>d, <3>1
  <2>6. CASE DeleteAnswer
    <3>1. UnrefApp(req.app) /\ UNCHANGED stopping /\ name[req.app] \in stopping
      BY <2>6 DEF DeleteAnswer, At, RestInv, ToldToStop, MainIdle, commandVars
    <3> QED
      BY <1>d, <3>1
  <2>7. CASE ReadState \/ Confirm
    BY <1>b, <2>7 DEF ReadState, Confirm
  <2>8. CASE DeleteStop \/ HideCommand \/ PostAnswer \/ HideAnswer \/ UseAfterFree
             \/ RefuseLocalRequest \/ RefuseRequest
    BY <1>e, <2>8 DEF DeleteStop, HideCommand, PostAnswer, HideAnswer, UseAfterFree, RefuseLocalRequest,
       RefuseRequest
  <2>9. ASSUME NEW n \in Name, ReceiveDelete(n) \/ ReceiveHide(n) PROVE FALSE
    BY <1>e, <2>9 DEF ReceiveDelete, ReceiveHide
  <2> QED
    BY <1>1, <2>1, <2>2, <2>3, <2>4, <2>5, <2>6, <2>7, <2>8, <2>9
       DEF MainThread, ReceiveGet, ReceiveLocalGet
<1>2. CASE RequestHandlerThread
  <2>1. CASE UnregisterDrop
    <3>1. UnrefApp(held) /\ held # 0 /\ work.op = "drop" /\ UNCHANGED stopping
      BY <2>1 DEF UnregisterDrop, WorkAt, commandVars
    <3>2. name[held] = System \/ name[held] \in stopping \/ relaunched
      BY <3>1 DEF RestInv, ThreadInv, RegistrationTold
    <3> QED
      BY <1>d, <3>1, <3>2
  <2>5. CASE UnregisterFind \/ UnregisterRead
    BY <1>b, <2>5 DEF UnregisterFind, UnregisterRead
  <2>6. CASE UnregisterCommand \/ UnregisterUseAfterFree \/ UnregisterNext
    BY <1>e, <2>6 DEF UnregisterCommand, UnregisterUseAfterFree, UnregisterNext
  <2>2. CASE RegisterSystem
    <3>1. live \subseteq live'
      BY <2>2, <1>e DEF RegisterSystem, NewApp
    <3> QED
      BY <1>b, <3>1
  <2>3. ASSUME NEW n, NEW v, StateChangedErase(n, v) \/ ActivationChanged(n) \/ RegisterApplications(n)
        PROVE  FALSE
    BY <1>e, <2>3 DEF StateChangedErase, ActivationChanged, RegisterApplications
  <2>4. CASE StateChangedInsert \/ UnregisterRestore \/ UnregisterClear \/ RegisterBegin
             \/ RegisterAppRegistry
    BY <1>e, <2>4 DEF StateChangedInsert, UnregisterRestore, UnregisterClear, RegisterBegin,
                      RegisterAppRegistry
  <2> QED
    BY <1>2, <2>1, <2>2, <2>3, <2>4, <2>5, <2>6 DEF RequestHandlerThread
<1> QED
  BY <1>1, <1>2 DEF Next

\* No path of the two threads loses a running application, but for the
\* registration that a launch overtakes between its stop and its unref.
THEOREM NoRunningAppIsDropped == Spec => DroppedOnlyWhenStopped
<1>1. TypeInv /\ RestInv /\ [Next]_vars =>
        [\A i \in live \ live' : \/ name[i] = System
                                 \/ state[i] = "STOPPED"
                                 \/ name[i] \in stopping'
                                 \/ i = held /\ relaunched]_vars
  BY DropsOnlyStopped
<1> QED
  BY <1>1, TypeInvariant, RestInvariant, PTL DEF Spec, DroppedOnlyWhenStopped

-----------------------------------------------------------------------------
\* The way of a request to its handler.

\* When nothing is empty, the place of an element is its number in the path.
LEMMA PlaceIsNumber ==
  ASSUME NEW p \in Seq(STRING), Given(p) = DOMAIN p, NEW k \in DOMAIN p
  PROVE  Place(p, k) = k
<1>1. k \in Nat /\ k \in 1..Len(p)
  OBVIOUS
<1>2. {j \in Given(p) : j <= k} = 1..k
  BY <1>1
<1>3. Cardinality(1..k) = k
  BY <1>1, FS_Interval
<1> QED
  BY <1>2, <1>3 DEF Place

\* The lengths that the callback tells apart.
LEMMA OneToFour ==
  \A n \in 1..4 : /\ n < 2 \/ n \in {2, 3, 4}
                  /\ 1 \in 1..n
                  /\ n \in {2, 3, 4} => 2 \in 1..n
                  /\ n \in {3, 4} => 3 \in 1..n /\ n \in 1..n
OBVIOUS

\* The comparison does what it is for: when it finds no difference, the four
\* copies are the elements of the path, and the last of them is the last one.
THEOREM CopiesAreThePath ==
  ASSUME NEW p \in Seq(STRING), Len(p) \in 1..4, CopyCheck(p) = "same"
  PROVE  /\ BaseElem(p) = p[1]
         /\ Len(p) \in {2, 3, 4} => AppElem(p) = p[2]
         /\ Len(p) \in {3, 4} => InstanceElem(p) = p[3] /\ LastElem(p) = p[Len(p)]
<1>1. /\ Given(p) = DOMAIN p
      /\ \A k \in Given(p) : Copied(p)[Place(p, k)] = p[k]
  BY DEF CopyCheck
<1>2. \A k \in 1..Len(p) : Copied(p)[k] = p[k]
  BY <1>1, PlaceIsNumber
<1>3. Len(p) = 3 => Copied(p)[4] = Copied(p)[3]
  BY DEF Copied, Last
<1>4. /\ 1 \in 1..Len(p)
      /\ Len(p) \in {2, 3, 4} => 2 \in 1..Len(p)
      /\ Len(p) \in {3, 4} => 3 \in 1..Len(p) /\ Len(p) \in 1..Len(p)
  BY OneToFour, Zenon
<1> QED
  BY <1>2, <1>3, <1>4 DEF BaseElem, AppElem, InstanceElem, LastElem

\* A request that reaches an application passed every test of the callback, and
\* has the form that its handler is for.
LEMMA HandledRequest ==
  ASSUME NEW r \in HttpRequest, r.server = "apps",
         Route(r).handler \in {"launch", "state", "stop", "hide"}
  PROVE  /\ r.flaw = "none"
         /\ r.path[1] = "base" /\ r.path[2] \in Registered
         /\ IsAllowedOrigin(r.path[2], r.origin)
         /\ \/ Len(r.path) = 2 /\ r.method \in {"POST", "GET"}
               /\ Route(r).handler \in {"launch", "state"}
            \/ Len(r.path) = 3 /\ r.method = "DELETE" /\ r.path[3] \in {"run", "num"} /\ r.instance
            \/ Len(r.path) = 4 /\ r.method = "POST" /\ r.path[3] \in {"run", "num"} /\ r.instance
               /\ r.path[4] = "hide"
<1> DEFINE p == r.path
<1> USE DEF Refused, Overrun, NoStatus, Call
<1>1. p \in Seq(STRING) /\ Len(p) \in 1..4
  BY RequestAssumption
<1>2. r.flaw = "none" /\ CopyCheck(p) = "same"
  BY DEF Route, CopyCheck
<1>3. /\ ~(Len(p) < 2) /\ BaseElem(p) = "base" /\ AppElem(p) \in Registered
      /\ IsAllowedOrigin(AppElem(p), r.origin)
      /\ Route(r) = RouteByShape(r)
  <2>1. Route(r) =
          IF Len(p) < 2 \/ BaseElem(p) # "base" \/ AppElem(p) = "" THEN Refused(501)
          ELSE IF AppElem(p) \notin Registered THEN Refused(404)
          ELSE IF ~IsAllowedOrigin(AppElem(p), r.origin) THEN Refused(403)
          ELSE RouteByShape(r)
    BY <1>2 DEF Route
  <2>2. \A c : Refused(c).handler # Route(r).handler
    OBVIOUS
  <2> HIDE DEF Refused, p
  <2> QED
    BY <2>1, <2>2, Zenon
<1>4. Len(p) \in {2, 3, 4}
  BY <1>1, <1>3, OneToFour, Zenon
<1>5. /\ p[1] = BaseElem(p) /\ p[2] = AppElem(p)
      /\ Len(p) \in {3, 4} => InstanceElem(p) = p[3] /\ LastElem(p) = p[Len(p)]
  BY <1>4, <1>1, <1>2, CopiesAreThePath
<1>6. CASE Len(p) = 2
  BY <1>1, <1>2, <1>3, <1>5, <1>6 DEF RouteByShape, RouteApp
<1>7. CASE Len(p) = 3
  <2>1. Route(r) = RouteInstance(r)
    BY <1>3, <1>7 DEF RouteByShape, RouteDialData
  <2>2. r.method = "DELETE" /\ CheckInstance(r)
    BY <2>1 DEF RouteInstance
  <2> QED
    BY <1>2, <1>3, <1>5, <1>7, <2>2 DEF CheckInstance
<1>8. CASE Len(p) = 4
  <2>1. Route(r) = RouteHide(r) /\ LastElem(p) = "hide"
    BY <1>3, <1>8 DEF RouteByShape
  <2>2. r.method = "POST" /\ CheckInstance(r)
    BY <2>1 DEF RouteHide
  <2> QED
    BY <1>2, <1>3, <1>5, <1>8, <2>1, <2>2 DEF CheckInstance
<1> QED
  BY <1>4, <1>6, <1>7, <1>8, Zenon

\* A request is not answered otherwise than the callback routes it.
RoutedInv ==
  /\ request \in HttpRequest
  /\ request.server = "apps" => outcome \in {Waiting, Route(request)}

\* See RoutedInv.
LEMMA RoutedInvariant == RoutingSpec => []RoutedInv
<1>1. RoutingInit => RoutedInv
  BY DEF RoutingInit, RoutedInv
<1>2. RoutedInv /\ [RoutingNext]_routingVars => RoutedInv'
  <2> SUFFICES ASSUME RoutedInv, [RoutingNext]_routingVars PROVE RoutedInv'
    OBVIOUS
  <2>1. CASE AppsCallback
    BY <2>1 DEF AppsCallback, RoutedInv
  <2>2. CASE LocalCallback
    BY <2>2 DEF LocalCallback, RoutedInv
  <2>3. CASE UNCHANGED routingVars
    BY <2>3 DEF routingVars, RoutedInv
  <2> QED
    BY <2>1, <2>2, <2>3 DEF RoutingNext
<1> QED
  BY <1>1, <1>2, PTL DEF RoutingSpec

\* See HandledRequest: the request of the state, once it has reached one.
LEMMA ReachedIsRouted ==
  ASSUME RoutedInv, ReachesApp, request.server = "apps"
  PROVE  /\ request \in HttpRequest /\ outcome = Route(request)
         /\ Route(request).handler \in {"launch", "state", "stop", "hide"}
BY DEF RoutedInv, ReachesApp, Waiting

\* Each line of the comment, for each name and instance.
LEMMA DocumentedForms ==
  ASSUME NEW n \in Registered, NEW i \in {"run", "num"}
  PROVE  {<<"POST", <<"base", n>>>>, <<"GET", <<"base", n>>>>, <<"DELETE", <<"base", n, i>>>>,
          <<"POST", <<"base", n, i, "hide">>>>} \subseteq Documented
<1> DEFINE F(m, j) == {<<"POST", <<"base", m>>>>, <<"GET", <<"base", m>>>>,
          <<"GET", <<"base", m, j>>>>, <<"DELETE", <<"base", m, j>>>>,
          <<"POST", <<"base", m, j, "hide">>>>, <<"POST", <<"base", m, "dial_data">>>>}
<1>1. Documented = UNION {F(m, j) : m \in Registered, j \in {"run", "num"}}
  BY DEF Documented
<1>2. {<<"POST", <<"base", n>>>>, <<"GET", <<"base", n>>>>, <<"DELETE", <<"base", n, i>>>>,
       <<"POST", <<"base", n, i, "hide">>>>} \subseteq F(n, i)
  BY Zenon
<1> HIDE DEF F
<1>3. F(n, i) \in {F(m, j) : m \in Registered, j \in {"run", "num"}}
  OBVIOUS
<1>4. F(n, i) \subseteq UNION {F(m, j) : m \in Registered, j \in {"run", "num"}}
  BY <1>3
<1> QED
  BY <1>1, <1>2, <1>4

\* Only a request of the documented form, for a registered name, reaches an
\* application, and only one with an instance is stopped or hidden: for any
\* names, whatever is cut off or empty in the path.
THEOREM OnlyDocumentedIsHandled == RoutingSpec => []HandledIsDocumented
<1>1. RoutedInv => HandledIsDocumented
  <2> SUFFICES ASSUME RoutedInv, ReachesApp, request.server = "apps"
               PROVE  /\ <<request.method, request.path>> \in Documented
                      /\ request.flaw = "none"
                      /\ outcome.handler \in {"stop", "hide"} => request.instance
    BY DEF HandledIsDocumented
  <2> DEFINE p == request.path
             n == p[2]
             i == p[3]
  <2>1. p \in Seq(STRING)
    BY ReachedIsRouted, RequestAssumption
  <2>2. /\ request.flaw = "none" /\ p[1] = "base" /\ n \in Registered
        /\ \/ Len(p) = 2 /\ request.method \in {"POST", "GET"}
              /\ outcome.handler \in {"launch", "state"}
           \/ Len(p) = 3 /\ request.method = "DELETE" /\ i \in {"run", "num"} /\ request.instance
           \/ Len(p) = 4 /\ request.method = "POST" /\ i \in {"run", "num"} /\ request.instance
              /\ p[4] = "hide"
    BY ReachedIsRouted, HandledRequest
  <2>3. CASE Len(p) = 2
    <3>1. p = <<"base", n>>
      BY <2>1, <2>2, <2>3
    <3>2. {<<"POST", p>>, <<"GET", p>>} \subseteq Documented
      BY <2>2, <3>1, DocumentedForms, Zenon
    <3> QED
      BY <2>2, <2>3, <3>2
  <2>4. CASE Len(p) = 3
    <3>1. p = <<"base", n, i>>
      BY <2>1, <2>2, <2>4
    <3>2. i \in {"run", "num"}
      BY <2>2, <2>4
    <3>3. <<"DELETE", p>> \in Documented
      BY <2>2, <3>1, <3>2, DocumentedForms, Zenon
    <3> QED
      BY <2>2, <2>4, <3>3
  <2>5. CASE Len(p) = 4
    <3>1. p = <<"base", n, i, "hide">>
      BY <2>1, <2>2, <2>5
    <3>2. i \in {"run", "num"}
      BY <2>2, <2>5
    <3>3. <<"POST", p>> \in Documented
      BY <2>2, <3>1, <3>2, DocumentedForms, Zenon
    <3> QED
      BY <2>2, <2>5, <3>3
  <2> QED
    BY <2>2, <2>3, <2>4, <2>5
<1> QED
  BY <1>1, RoutedInvariant, PTL

\* The origins that the entry of an application lists are respected, and YouTube
\* is not reached without one.
THEOREM OriginsAreRespected == RoutingSpec => []OriginIsRespected
<1>1. RoutedInv => OriginIsRespected
  <2> SUFFICES ASSUME RoutedInv, ReachesApp, request.server = "apps"
               PROVE  OriginIsRespected
    BY DEF OriginIsRespected
  <2>1. IsAllowedOrigin(request.path[2], request.origin)
    BY ReachedIsRouted, HandledRequest
  <2> QED
    BY <2>1 DEF IsAllowedOrigin, IsAllowedYoutubeOrigin, EntryAllows,
       OriginIsRespected
<1> QED
  BY <1>1, RoutedInvariant, PTL
=============================================================================
