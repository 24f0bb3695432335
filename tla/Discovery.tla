----------------------------- MODULE Discovery -----------------------------
(***************************************************************************)
(* SSDP discovery (gdial-ssdp.c) and the activation of the service         *)
(* (server_activation_handler): the device description dd.xml, which is    *)
(* built on demand from names that the host may change and is then cached; *)
(* the announcement of the device on the network; and the REST handler     *)
(* that a discovered device must have.                                     *)
(*                                                                         *)
(* The main thread answers GET dd.xml, one response at a time here.  The   *)
(* request handler thread applies the host's events.  The host's own       *)
(* thread starts and stops the service, and stop_GDialServer() runs        *)
(* server_activation_handler() too, beside the request handler thread.     *)
(* The names are protected by a mutex, so each access to them is one step; *)
(* the activation handler as a whole is not.                               *)
(***************************************************************************)
EXTENDS Naturals

CONSTANTS HostName,     \* the names the host sets (friendly, maker, model)
          Empty,        \* the empty string
          NoName,       \* a NULL pointer
          Option,       \* friendly names of the command line
          DefaultName,  \* maker and model of the command line
          FeatureFriendlyName,
          FeatureWolWake,
          MaxWakeup     \* bound on the WAKEUP headers of the client

ASSUME NameAssumption ==
  /\ NoName \notin HostName \cup Option \cup {Empty, DefaultName}
  /\ Empty \notin HostName \cup Option \cup {DefaultName}
ASSUME FeatureAssumption ==
  FeatureFriendlyName \in BOOLEAN /\ FeatureWolWake \in BOOLEAN
ASSUME MaxWakeupAssumption == MaxWakeup \in Nat \ {0}

VARIABLES phase,        \* where the host's start and stop are
          up,           \* "none", "options" (gdial_ssdp_new failed after setting
                        \* gdial_options_) or "client" (it succeeded)
          option,       \* gdial_options_->friendly_name
          friendly, manufacturer, model,    \* app_friendly_name, ...
          ddXml,        \* dd_xml_response_str_
          response,     \* the answer to GET dd.xml that is being written
          available,    \* the resource group is announced
          enabled,      \* the handler of the apps URI is installed
          wakeup,       \* WAKEUP headers of the client
          handler       \* the calls of server_activation_handler, per thread

names == <<option, friendly, manufacturer, model>>
vars == <<phase, up, names, ddXml, response, available, enabled, wakeup, handler>>

Caller == {"request", "stop"}
AppName == HostName \cup {Empty, NoName}
NoDoc == [friendly |-> NoName, manufacturer |-> NoName, model |-> NoName]
Doc == [friendly : AppName \cup Option, manufacturer : AppName \cup {DefaultName},
        model : AppName \cup {DefaultName}]
NoResponse == [doc |-> NoDoc, alive |-> FALSE, busy |-> FALSE]
NoCall == [at |-> "idle", status |-> FALSE, name |-> Empty]

TypeOK ==
  /\ phase \in {"down", "serving", "deactivating", "deactivated", "joined"}
  /\ up \in {"none", "options", "client"}
  /\ option \in Option \cup {NoName}
  /\ {friendly, manufacturer, model} \subseteq AppName
  /\ ddXml \in Doc
  /\ response \in [doc : Doc, alive : BOOLEAN, busy : BOOLEAN]
  /\ available \in BOOLEAN /\ enabled \in BOOLEAN
  /\ wakeup \in 0..MaxWakeup
  /\ handler \in [Caller -> [at : {"idle", "name", "available", "enable"},
                             status : BOOLEAN, name : HostName \cup {Empty}]]

Init ==
  /\ phase = "down"
  /\ up = "none"
  /\ option = NoName
  /\ friendly = NoName /\ manufacturer = NoName /\ model = NoName
  /\ ddXml = NoDoc
  /\ response = NoResponse
  /\ available = FALSE /\ enabled = FALSE
  /\ wakeup = 0
  /\ handler = [c \in Caller |-> NoCall]

-----------------------------------------------------------------------------
\* The host's thread: start.

\* gdial_ssdp_new.  Its failure (no address, no client) leaves the options set
\* and is ignored by start_GDialServer().
SsdpNew(name, ok) ==
  /\ phase = "down"
  /\ phase' = "serving"
  /\ up' = IF ok THEN "client" ELSE "options"
  /\ option' = name
  /\ wakeup' = IF ok /\ FeatureWolWake THEN 1 ELSE 0
  /\ UNCHANGED <<friendly, manufacturer, model, ddXml, response, available,
                 enabled, handler>>

-----------------------------------------------------------------------------
\* The main thread.

\* What the template is filled with.
Description ==
  [friendly |-> IF FeatureFriendlyName /\ friendly \notin {NoName, Empty}
                THEN friendly ELSE option,
   manufacturer |-> IF manufacturer = NoName THEN DefaultName ELSE manufacturer,
   model |-> IF model = NoName THEN DefaultName ELSE model]

\* ssdp_http_server_callback: the response body is the cached string itself
\* (SOUP_MEMORY_STATIC).
GetDdXml ==
  /\ phase \in {"serving", "deactivating", "deactivated"}
  /\ up = "client"
  /\ ~response.busy
  /\ ddXml' = IF ddXml = NoDoc THEN Description ELSE ddXml
  /\ response' = [doc |-> ddXml', alive |-> TRUE, busy |-> TRUE]
  /\ UNCHANGED <<phase, up, names, available, enabled, wakeup, handler>>

\* The main loop has written the response to the socket.
ResponseWritten ==
  /\ phase \in {"serving", "deactivating", "deactivated"}
  /\ response.busy
  /\ response' = NoResponse
  /\ UNCHANGED <<phase, up, names, ddXml, available, enabled, wakeup, handler>>

-----------------------------------------------------------------------------
\* The request handler thread, which runs until it is joined.

RequestIdle ==
  /\ phase \in {"serving", "deactivating", "deactivated"}
  /\ handler["request"] = NoCall

\* g_free(dd_xml_response_str_): a response being written has lost its body.
DropDdXml ==
  /\ ddXml' = NoDoc
  /\ response' = [response EXCEPT !.alive = FALSE]

\* gdial_ssdp_set_friendlyname
SetFriendlyName(n) ==
  IF up # "none" /\ FeatureFriendlyName
  THEN friendly' = n /\ DropDdXml
  ELSE UNCHANGED <<friendly, ddXml, response>>

FriendlyNameChanged(n) ==
  /\ RequestIdle
  /\ SetFriendlyName(n)
  /\ UNCHANGED <<phase, up, option, manufacturer, model, available, enabled,
                 wakeup, handler>>

\* gdial_ssdp_set_manufacturername
SetManufacturerName(n) ==
  /\ RequestIdle
  /\ manufacturer' = n
  /\ DropDdXml
  /\ UNCHANGED <<phase, up, option, friendly, model, available, enabled, wakeup, handler>>

\* gdial_ssdp_set_modelname
SetModelName(n) ==
  /\ RequestIdle
  /\ model' = n
  /\ DropDdXml
  /\ UNCHANGED <<phase, up, option, friendly, manufacturer, available, enabled,
                 wakeup, handler>>

\* MUTANT of NetworkStandbyMode: one header is removed.
NetworkStandbyModeRemovesOne(b) ==
  /\ RequestIdle
  /\ up = "client"
  /\ b => wakeup < MaxWakeup
  /\ wakeup' = IF b THEN wakeup + 1 ELSE wakeup - 1
  /\ UNCHANGED <<phase, up, names, ddXml, response, available, enabled, handler>>

\* gdial_ssdp_networkstandbymode_handler: a header is appended each time, and
\* all of them are removed.
NetworkStandbyMode(b) ==
  /\ RequestIdle
  /\ up = "client"
  /\ b => wakeup < MaxWakeup
  /\ wakeup' = IF b THEN wakeup + 1 ELSE 0
  /\ UNCHANGED <<phase, up, names, ddXml, response, available, enabled, handler>>

\* ActivationChanged: the request handler thread calls server_activation_handler.
ActivationChanged(b, n) ==
  /\ RequestIdle
  /\ handler' = [handler EXCEPT !["request"] = [at |-> "name", status |-> b, name |-> n]]
  /\ UNCHANGED <<phase, up, names, ddXml, response, available, enabled, wakeup>>

-----------------------------------------------------------------------------
\* server_activation_handler, in either thread.

ActivationName(c) ==
  /\ handler[c].at = "name"
  /\ SetFriendlyName(handler[c].name)
  /\ handler' = [handler EXCEPT ![c].at = "available"]
  /\ UNCHANGED <<phase, up, option, manufacturer, model, available, enabled, wakeup>>

\* gdial_ssdp_set_available: if there is a resource group.
ActivationAvailable(c) ==
  /\ handler[c].at = "available"
  /\ available' = IF up = "client" THEN handler[c].status ELSE available
  /\ handler' = [handler EXCEPT ![c].at = "enable"]
  /\ UNCHANGED <<phase, up, names, ddXml, response, enabled, wakeup>>

\* MUTANT of ActivationEnable: the handler is never removed.
ActivationEnableOnly(c) ==
  /\ handler[c].at = "enable"
  /\ enabled' = (enabled \/ handler[c].status)
  /\ handler' = [handler EXCEPT ![c] = NoCall]
  /\ phase' = IF c = "stop" THEN "deactivated" ELSE phase
  /\ UNCHANGED <<up, names, ddXml, response, available, wakeup>>

\* The property "enable" of the REST server.
ActivationEnable(c) ==
  /\ handler[c].at = "enable"
  /\ enabled' = handler[c].status
  /\ handler' = [handler EXCEPT ![c] = NoCall]
  /\ phase' = IF c = "stop" THEN "deactivated" ELSE phase
  /\ UNCHANGED <<up, names, ddXml, response, available, wakeup>>

-----------------------------------------------------------------------------
\* The host's thread: stop_GDialServer().

StopBegins ==
  /\ phase = "serving"
  /\ phase' = "deactivating"
  /\ handler' = [handler EXCEPT !["stop"] = [at |-> "name", status |-> FALSE, name |-> Empty]]
  /\ UNCHANGED <<up, names, ddXml, response, available, enabled, wakeup>>

\* The threads are joined, the servers disconnected: a response that was
\* being written is dropped.
ThreadsJoined ==
  /\ phase = "deactivated"
  /\ RequestIdle
  /\ phase' = "joined"
  /\ response' = NoResponse
  /\ UNCHANGED <<up, names, ddXml, available, enabled, wakeup, handler>>

\* MUTANT of SsdpDestroy: the cached description survives a restart.
SsdpDestroyKeepsCache ==
  /\ phase = "joined"
  /\ phase' = "down"
  /\ up' = "none" /\ option' = NoName
  /\ available' = FALSE /\ enabled' = FALSE /\ wakeup' = 0
  /\ UNCHANGED <<friendly, manufacturer, model, ddXml, response, handler>>

\* gdial_ssdp_destroy, and the REST server is gone.  The host's names stay.
SsdpDestroy ==
  /\ phase = "joined"
  /\ phase' = "down"
  /\ up' = "none" /\ option' = NoName
  /\ DropDdXml
  /\ available' = FALSE /\ enabled' = FALSE /\ wakeup' = 0
  /\ UNCHANGED <<friendly, manufacturer, model, handler>>

-----------------------------------------------------------------------------
Next ==
  \/ \E n \in Option, ok \in BOOLEAN : SsdpNew(n, ok)
  \/ GetDdXml
  \/ ResponseWritten
  \/ \E n \in HostName \cup {Empty} :
       \/ FriendlyNameChanged(n)
       \/ SetManufacturerName(n)
       \/ SetModelName(n)
       \/ \E b \in BOOLEAN : ActivationChanged(b, n)
  \/ \E b \in BOOLEAN : NetworkStandbyMode(b)
  \/ \E c \in Caller :
       \/ ActivationName(c)
       \/ ActivationAvailable(c)
       \/ ActivationEnable(c)
  \/ StopBegins
  \/ ThreadsJoined
  \/ SsdpDestroy

Spec == Init /\ [][Next]_vars
-----------------------------------------------------------------------------
(***************************************************************************)
(* Properties                                                              *)
(***************************************************************************)

\* The cached dd.xml is never stale: whatever names the host sets, from the
\* activation handler of either thread or between a stop and a start with
\* other options, a cached description is what would be built now.
DdXmlCurrent == ddXml # NoDoc => ddXml = Description

\* Outside a change of the activation, and until the service is stopped, a
\* device that is announced has its REST handler, and one that has its REST
\* handler is announced (if SSDP came up at all).  While stop_GDialServer()
\* runs the activation handler beside the request handler thread, this fails.
AnnouncedIsServed ==
  phase = "serving" /\ RequestIdle =>
    /\ available => enabled
    /\ enabled /\ up = "client" => available

-----------------------------------------------------------------------------
\* What the code or its comments say and TLC refutes (README, section 5).

\* gdial-ssdp.c:95: "there is no variant here, so we can cache the response."
\* The cached string that a response uses as its body is not freed before the
\* response is written.
ServedBodyIsAlive == response.busy => response.alive
=============================================================================
