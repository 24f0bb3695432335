-------------------------- MODULE DiscoveryProofs --------------------------
(***************************************************************************)
(* Proofs about Discovery, for any names, options and features.            *)
(***************************************************************************)
EXTENDS Discovery, TLAPS

-----------------------------------------------------------------------------
\* What server_activation_handler and the setters do to the cached
\* description, and that Next is made of the actions treated below.

\* A freed or kept description, and the response that uses it, are well typed.
LEMMA SetFriendlyNameType ==
  ASSUME TypeOK, NEW n \in HostName \cup {Empty}, SetFriendlyName(n)
  PROVE  /\ friendly' \in AppName
         /\ ddXml' \in Doc
         /\ response' \in [doc : Doc, alive : BOOLEAN, busy : BOOLEAN]
<1>1. NoDoc \in Doc
  BY DEF NoDoc, Doc, AppName
<1> QED
  BY <1>1 DEF TypeOK, SetFriendlyName, DropDdXml, AppName

\* Type correctness: no event of the host, request, start or stop leaves a
\* variable of the discovery ill typed.
THEOREM DiscoveryTypeCorrect == Spec => []TypeOK
<1>1. Init => TypeOK
  <2> SUFFICES ASSUME Init PROVE TypeOK
    OBVIOUS
  <2>1. NoDoc \in Doc /\ NoResponse \in [doc : Doc, alive : BOOLEAN, busy : BOOLEAN]
    BY DEF NoDoc, Doc, AppName, NoResponse
  <2>2. handler \in [Caller -> [at : {"idle", "name", "available", "enable"},
                               status : BOOLEAN, name : HostName \cup {Empty}]]
    BY DEF Init, NoCall
  <2>3. available \in BOOLEAN /\ enabled \in BOOLEAN
    BY Zenon DEF Init
  <2>5. wakeup \in 0..MaxWakeup
    BY MaxWakeupAssumption DEF Init
  <2>4. /\ phase = "down" /\ up = "none" /\ option \in Option \cup {NoName}
        /\ {friendly, manufacturer, model} \subseteq AppName
        /\ ddXml = NoDoc /\ response = NoResponse
    BY DEF Init, AppName
  <2> QED
    BY <2>1, <2>2, <2>3, <2>4, <2>5 DEF TypeOK
<1>2. TypeOK /\ [Next]_vars => TypeOK'
  <2> SUFFICES ASSUME TypeOK, [Next]_vars PROVE TypeOK'
    OBVIOUS
  <2>0. NoDoc \in Doc /\ NoResponse \in [doc : Doc, alive : BOOLEAN, busy : BOOLEAN]
    BY DEF NoDoc, Doc, AppName, NoResponse
  <2>1. ASSUME NEW n \in Option, NEW ok \in BOOLEAN, SsdpNew(n, ok) PROVE TypeOK'
    BY <2>1, MaxWakeupAssumption DEF SsdpNew, TypeOK
  <2>2. CASE GetDdXml
    <3>1. Description \in Doc
      BY DEF TypeOK, Description, Doc, AppName
    <3> QED
      BY <2>2, <3>1 DEF GetDdXml, TypeOK, names
  <2>3. CASE ResponseWritten
    BY <2>3, <2>0 DEF ResponseWritten, TypeOK, names
  <2>4. ASSUME NEW n \in HostName \cup {Empty}, FriendlyNameChanged(n) PROVE TypeOK'
    BY <2>4, SetFriendlyNameType DEF FriendlyNameChanged, TypeOK
  <2>5. ASSUME NEW n \in HostName \cup {Empty}, SetManufacturerName(n) PROVE TypeOK'
    BY <2>5, <2>0 DEF SetManufacturerName, DropDdXml, TypeOK, AppName
  <2>6. ASSUME NEW n \in HostName \cup {Empty}, SetModelName(n) PROVE TypeOK'
    BY <2>6, <2>0 DEF SetModelName, DropDdXml, TypeOK, AppName
  <2>7. ASSUME NEW n \in HostName \cup {Empty}, NEW b \in BOOLEAN, ActivationChanged(b, n)
        PROVE TypeOK'
    BY <2>7 DEF ActivationChanged, TypeOK, names, Caller
  <2>8. ASSUME NEW b \in BOOLEAN, NetworkStandbyMode(b) PROVE TypeOK'
    BY <2>8, MaxWakeupAssumption DEF NetworkStandbyMode, TypeOK, names
  <2>9. ASSUME NEW c \in Caller, ActivationName(c) PROVE TypeOK'
    <3>1. handler[c].name \in HostName \cup {Empty}
      BY DEF TypeOK
    <3> QED
      BY <2>9, <3>1, SetFriendlyNameType DEF ActivationName, TypeOK
  <2>10. ASSUME NEW c \in Caller, ActivationAvailable(c) PROVE TypeOK'
    BY <2>10 DEF ActivationAvailable, TypeOK, names
  <2>11. ASSUME NEW c \in Caller, ActivationEnable(c) PROVE TypeOK'
    <3>1. handler' \in [Caller -> [at : {"idle", "name", "available", "enable"},
                                   status : BOOLEAN, name : HostName \cup {Empty}]]
      BY <2>11 DEF ActivationEnable, TypeOK, NoCall
    <3>2. enabled' \in BOOLEAN
      BY <2>11 DEF ActivationEnable, TypeOK
    <3>3. phase' \in {"down", "serving", "deactivating", "deactivated", "joined"}
      BY <2>11 DEF ActivationEnable, TypeOK
    <3> QED
      BY <2>11, <3>1, <3>2, <3>3 DEF ActivationEnable, TypeOK, names
  <2>12. CASE StopBegins
    BY <2>12 DEF StopBegins, TypeOK, names, Caller
  <2>13. CASE ThreadsJoined
    BY <2>13, <2>0 DEF ThreadsJoined, TypeOK, names
  <2>14. CASE SsdpDestroy
    <3>1. available' \in BOOLEAN /\ enabled' \in BOOLEAN
      BY <2>14, Zenon DEF SsdpDestroy
    <3>4. wakeup' \in 0..MaxWakeup
      BY <2>14, MaxWakeupAssumption DEF SsdpDestroy
    <3>2. ddXml' \in Doc /\ response' \in [doc : Doc, alive : BOOLEAN, busy : BOOLEAN]
      BY <2>14, <2>0 DEF SsdpDestroy, DropDdXml, TypeOK
    <3>3. /\ phase' = "down" /\ up' = "none" /\ option' = NoName
          /\ UNCHANGED <<friendly, manufacturer, model, handler>>
      BY <2>14 DEF SsdpDestroy
    <3> QED
      BY <3>1, <3>2, <3>3, <3>4 DEF TypeOK
  <2>15. CASE UNCHANGED vars
    BY <2>15 DEF vars, names, TypeOK
  <2> QED
    BY <2>1, <2>2, <2>3, <2>4, <2>5, <2>6, <2>7, <2>8, <2>9, <2>10, <2>11,
       <2>12, <2>13, <2>14, <2>15 DEF Next
<1> QED
  BY <1>1, <1>2, PTL DEF Spec

-----------------------------------------------------------------------------
(***************************************************************************)
(* The cached description.  The names change only together with the cache, *)
(* but the options change without it, in gdial_ssdp_new: the cache must be *)
(* empty whenever the service is down.                                     *)
(***************************************************************************)
NoCacheWhenDown == phase = "down" => ddXml = NoDoc

CacheInv == DdXmlCurrent /\ NoCacheWhenDown

\* CacheInv is inductive: whichever thread changes a name, and however often
\* the service is restarted, what is cached is what would be built.
LEMMA CacheInductive == CacheInv /\ [Next]_vars => CacheInv'
<1> SUFFICES ASSUME CacheInv, [Next]_vars PROVE CacheInv'
  OBVIOUS
<1> USE DEF CacheInv, DdXmlCurrent, NoCacheWhenDown
<1>0. ASSUME UNCHANGED <<names, ddXml>>, phase' = "down" => phase = "down" PROVE CacheInv'
  BY <1>0 DEF names, Description
<1>1. ASSUME NEW n \in Option, NEW ok \in BOOLEAN, SsdpNew(n, ok) PROVE CacheInv'
  BY <1>1 DEF SsdpNew
<1>2. CASE GetDdXml
  <2>1. Description' = Description
    BY <1>2 DEF GetDdXml, names, Description
  <2> QED
    BY <1>2, <2>1 DEF GetDdXml
<1>3. CASE ResponseWritten
  BY <1>3, <1>0 DEF ResponseWritten
<1>4. ASSUME NEW n \in HostName \cup {Empty}, FriendlyNameChanged(n) PROVE CacheInv'
  BY <1>4, <1>0 DEF FriendlyNameChanged, SetFriendlyName, DropDdXml, RequestIdle, names
<1>5. ASSUME NEW n \in HostName \cup {Empty}, SetManufacturerName(n) PROVE CacheInv'
  BY <1>5 DEF SetManufacturerName, DropDdXml
<1>6. ASSUME NEW n \in HostName \cup {Empty}, SetModelName(n) PROVE CacheInv'
  BY <1>6 DEF SetModelName, DropDdXml
<1>7. ASSUME NEW n \in HostName \cup {Empty}, NEW b \in BOOLEAN, ActivationChanged(b, n)
      PROVE CacheInv'
  BY <1>7, <1>0 DEF ActivationChanged
<1>8. ASSUME NEW b \in BOOLEAN, NetworkStandbyMode(b) PROVE CacheInv'
  BY <1>8, <1>0 DEF NetworkStandbyMode
<1>9. ASSUME NEW c \in Caller, ActivationName(c) PROVE CacheInv'
  BY <1>9, <1>0 DEF ActivationName, SetFriendlyName, DropDdXml, names
<1>10. ASSUME NEW c \in Caller, ActivationAvailable(c) PROVE CacheInv'
  BY <1>10, <1>0 DEF ActivationAvailable
<1>11. ASSUME NEW c \in Caller, ActivationEnable(c) PROVE CacheInv'
  BY <1>11, <1>0 DEF ActivationEnable
<1>12. CASE StopBegins
  BY <1>12, <1>0 DEF StopBegins
<1>13. CASE ThreadsJoined
  BY <1>13, <1>0 DEF ThreadsJoined
<1>14. CASE SsdpDestroy
  BY <1>14 DEF SsdpDestroy, DropDdXml
<1>15. CASE UNCHANGED vars
  BY <1>15, <1>0 DEF vars
<1> QED
  BY <1>1, <1>2, <1>3, <1>4, <1>5, <1>6, <1>7, <1>8, <1>9, <1>10, <1>11,
     <1>12, <1>13, <1>14, <1>15 DEF Next

\* The cached dd.xml is never stale.
THEOREM CacheIsCurrent == Spec => []DdXmlCurrent
<1>1. Init => CacheInv
  BY DEF Init, CacheInv, DdXmlCurrent, NoCacheWhenDown
<1>2. CacheInv => DdXmlCurrent
  BY DEF CacheInv
<1> QED
  BY <1>1, <1>2, CacheInductive, PTL DEF Spec

-----------------------------------------------------------------------------
(***************************************************************************)
(* Announced and served.  The handler announces in one step and serves in  *)
(* the next; while the service is up only the request handler thread runs  *)
(* it, so what the first step did is still so at the second.               *)
(***************************************************************************)
StopHandlerOnlyInStop == phase # "deactivating" => handler["stop"] = NoCall
QuietWhenDown ==
  phase = "down" => ~available /\ ~enabled /\ handler["request"] = NoCall
JoinedIsIdle == phase = "joined" => handler["request"] = NoCall
AnnouncedNeedsClient == available => up = "client"
HalfWay ==
  phase = "serving" /\ handler["request"].at = "enable" /\ up = "client" =>
    (available <=> handler["request"].status)

ActivationInv ==
  /\ AnnouncedIsServed
  /\ StopHandlerOnlyInStop
  /\ QuietWhenDown
  /\ JoinedIsIdle
  /\ AnnouncedNeedsClient
  /\ HalfWay

\* ActivationInv is inductive, relative to TypeOK.
LEMMA ActivationInductive == TypeOK /\ ActivationInv /\ [Next]_vars => ActivationInv'
<1> SUFFICES ASSUME TypeOK, ActivationInv, [Next]_vars PROVE ActivationInv'
  OBVIOUS
<1> USE DEF ActivationInv, AnnouncedIsServed, StopHandlerOnlyInStop, QuietWhenDown,
            JoinedIsIdle, AnnouncedNeedsClient, HalfWay, RequestIdle
<1>0. ASSUME UNCHANGED <<phase, up, available, enabled, handler>> PROVE ActivationInv'
  BY <1>0
<1>1. ASSUME NEW n \in Option, NEW ok \in BOOLEAN, SsdpNew(n, ok) PROVE ActivationInv'
  BY <1>1 DEF SsdpNew, NoCall
<1>2. CASE GetDdXml
  BY <1>2, <1>0 DEF GetDdXml
<1>3. CASE ResponseWritten
  BY <1>3, <1>0 DEF ResponseWritten
<1>4. ASSUME NEW n \in HostName \cup {Empty}, FriendlyNameChanged(n) PROVE ActivationInv'
  BY <1>4, <1>0 DEF FriendlyNameChanged
<1>5. ASSUME NEW n \in HostName \cup {Empty}, SetManufacturerName(n) PROVE ActivationInv'
  BY <1>5, <1>0 DEF SetManufacturerName
<1>6. ASSUME NEW n \in HostName \cup {Empty}, SetModelName(n) PROVE ActivationInv'
  BY <1>6, <1>0 DEF SetModelName
<1>7. ASSUME NEW n \in HostName \cup {Empty}, NEW b \in BOOLEAN, ActivationChanged(b, n)
      PROVE ActivationInv'
  BY <1>7 DEF ActivationChanged, NoCall, TypeOK, Caller
<1>8. ASSUME NEW b \in BOOLEAN, NetworkStandbyMode(b) PROVE ActivationInv'
  BY <1>8, <1>0 DEF NetworkStandbyMode
<1>9. ASSUME NEW c \in Caller, handler[c].at # "idle"
      PROVE  /\ c = "stop" => phase = "deactivating"
             /\ c = "request" => phase \notin {"down", "joined"}
             /\ c \in {"stop", "request"}
  BY <1>9 DEF NoCall, Caller
<1>10. ASSUME NEW c \in Caller, ActivationName(c) PROVE ActivationInv'
  <2>1. /\ handler'[c].at = "available" /\ handler[c].at # "idle"
        /\ \A d \in Caller \ {c} : handler'[d] = handler[d]
    BY <1>10 DEF ActivationName, TypeOK
  <2>2. UNCHANGED <<phase, up, available, enabled>>
    BY <1>10 DEF ActivationName
  <2>3. handler'[c] # NoCall
    BY <2>1 DEF NoCall
  <2> QED
    BY <1>9, <2>1, <2>2, <2>3 DEF Caller
<1>11. ASSUME NEW c \in Caller, ActivationAvailable(c) PROVE ActivationInv'
  <2>1. /\ handler'[c].at = "enable" /\ handler[c].at # "idle"
        /\ handler'[c].status = handler[c].status
        /\ \A d \in Caller \ {c} : handler'[d] = handler[d]
    BY <1>11 DEF ActivationAvailable, TypeOK
  <2>2. UNCHANGED <<phase, up, enabled>>
    BY <1>11 DEF ActivationAvailable
  <2>3. handler'[c] # NoCall
    BY <2>1 DEF NoCall
  <2>4. /\ up = "client" => (available' <=> handler[c].status)
        /\ up # "client" => (available' <=> available)
    BY <1>11 DEF ActivationAvailable, TypeOK
  <2> QED
    BY <1>9, <2>1, <2>2, <2>3, <2>4 DEF Caller
<1>16. ASSUME NEW c \in Caller, ActivationEnable(c) PROVE ActivationInv'
  <2>1. /\ handler'[c] = NoCall /\ handler[c].at = "enable"
        /\ \A d \in Caller \ {c} : handler'[d] = handler[d]
    BY <1>16 DEF ActivationEnable, TypeOK
  <2>2. UNCHANGED <<up, available>> /\ (enabled' <=> handler[c].status)
    BY <1>16 DEF ActivationEnable, TypeOK
  <2>3. phase' = IF c = "stop" THEN "deactivated" ELSE phase
    BY <1>16 DEF ActivationEnable
  <2>4. CASE c = "request"
    <3>1. handler'["stop"] = handler["stop"] /\ phase' = phase /\ phase \notin {"down", "joined"}
      BY <1>9, <2>1, <2>3, <2>4 DEF Caller
    <3>2. phase = "serving" /\ up = "client" => (available <=> enabled')
      BY <2>1, <2>2, <2>4
    <3> QED
      BY <2>1, <2>2, <2>4, <3>1, <3>2 DEF NoCall
  <2>5. CASE c = "stop"
    BY <1>9, <2>1, <2>2, <2>3, <2>5 DEF Caller, NoCall
  <2> QED
    BY <2>4, <2>5 DEF Caller
<1>12. CASE StopBegins
  BY <1>12 DEF StopBegins, NoCall, TypeOK, Caller
<1>13. CASE ThreadsJoined
  BY <1>13 DEF ThreadsJoined
<1>14. CASE SsdpDestroy
  BY <1>14 DEF SsdpDestroy
<1>15. CASE UNCHANGED vars
  BY <1>15, <1>0 DEF vars
<1> QED
  BY <1>1, <1>2, <1>3, <1>4, <1>5, <1>6, <1>7, <1>8, <1>10, <1>11,
     <1>12, <1>13, <1>14, <1>15, <1>16 DEF Next

\* Until the service is stopped, and outside a change of the activation, a
\* device that is announced is served, and one that is served is announced.
THEOREM AnnouncedServed == Spec => []AnnouncedIsServed
<1>1. Init => ActivationInv
  BY DEF Init, ActivationInv, AnnouncedIsServed, StopHandlerOnlyInStop, QuietWhenDown,
         JoinedIsIdle, AnnouncedNeedsClient, HalfWay, Caller
<1>2. ActivationInv => AnnouncedIsServed
  BY DEF ActivationInv
<1> QED
  BY <1>1, <1>2, ActivationInductive, DiscoveryTypeCorrect, PTL DEF Spec
=============================================================================
