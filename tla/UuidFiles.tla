----------------------------- MODULE UuidFiles -----------------------------
(***************************************************************************)
(* The URIs that are named by a uuid.  The local URI of an application     *)
(* (gdial_app_registry.c): registration takes it from a file under /tmp,   *)
(* or draws a uuid and writes that file.  A launch hands it to the         *)
(* application as part of the additionalDataUrl, and the application,      *)
(* which outlives this server, posts its data there; the local server      *)
(* finds the registry entry by the uuid in the path.  The URI of the REST  *)
(* server itself (gdialservice.cpp) comes from a file under /opt in the    *)
(* same way, unless XDIAL_STATIC_APPS_LOCATION fixes it, and is handed to  *)
(* clients by dd.xml; its owner is the Device here.                        *)
(*                                                                         *)
(* File names are cut off at 63 characters; applications are assumed to    *)
(* have names short enough (44 characters) to have files of their own.     *)
(***************************************************************************)
EXTENDS Naturals, FiniteSets

CONSTANTS AppName,      \* the applications, without "system"
          Device,       \* the owner of the REST server's own URI
          Uuid,         \* the uuids that can be drawn (a bound)
          Blank,        \* the uuid that is read from an empty file
          None

Owner == AppName \cup {Device}

ASSUME UuidAssumption ==
  /\ Blank \notin Uuid
  /\ None \notin Uuid \cup {Blank} \cup Owner
  /\ Device \notin AppName

VARIABLES file,         \* the uuid files: None, Blank or a uuid
          uri,          \* app_uri of the registered applications, None of others
          reg,          \* the registration in progress
          handed,       \* the URI that the running application was given
          delivered,    \* who posted data last, and the entry that took it
          drawn,        \* history: the uuids drawn so far
          unkept        \* history: whose file does not hold the uuid in use

vars == <<file, uri, reg, handed, delivered, drawn, unkept>>

NoReg == [stage |-> "idle", app |-> None, uuid |-> None]
NoPost == [from |-> None, to |-> None]

TypeOK ==
  /\ file \in [Owner -> Uuid \cup {Blank, None}]
  /\ uri \in [Owner -> Uuid \cup {Blank, None}]
  /\ reg \in [stage : {"idle", "open", "write"}, app : Owner \cup {None},
              uuid : Uuid \cup {None}]
  /\ reg.stage # "idle" => reg.app \in Owner /\ reg.uuid \in drawn /\ uri[reg.app] = None
  /\ handed \in [Owner -> Uuid \cup {Blank, None}]
  /\ delivered \in [from : Owner \cup {None}, to : Owner \cup {None}]
  /\ drawn \subseteq Uuid
  /\ unkept \subseteq Owner

Init ==
  /\ file = [a \in Owner |-> None]
  /\ uri = [a \in Owner |-> None]
  /\ reg = NoReg
  /\ handed = [a \in Owner |-> None]
  /\ delivered = NoPost
  /\ drawn = {}
  /\ unkept = {}

-----------------------------------------------------------------------------
\* gdial_app_registry_new

\* MUTANT of Enter: the registration goes on.
EnterGoesOn(a, u) ==
  /\ uri' = [uri EXCEPT ![a] = u]
  /\ reg' = reg

\* The entry is complete, and the handler of its URI is installed.
Enter(a, u) ==
  /\ uri' = [uri EXCEPT ![a] = u]
  /\ reg' = NoReg

\* fopen "r" and fgets: an empty file leaves the buffer blank.
ReadUuidFile(a) ==
  /\ reg.stage = "idle"
  /\ uri[a] = None
  /\ file[a] # None
  /\ Enter(a, file[a])
  /\ UNCHANGED <<file, handed, delivered, drawn, unkept>>

\* MUTANT of DrawUuid: the generator repeats itself after a restart.
DrawUuidAgain(a) ==
  /\ reg.stage = "idle"
  /\ uri[a] = None
  /\ \E u \in Uuid : reg' = [stage |-> "open", app |-> a, uuid |-> u] /\ drawn' = drawn \cup {u}
  /\ unkept' = IF file[a] = None THEN unkept ELSE unkept \cup {a}
  /\ UNCHANGED <<file, uri, handed, delivered>>

\* There is no file, or it cannot be opened: uuid_generate_random.
DrawUuid(a) ==
  /\ reg.stage = "idle"
  /\ uri[a] = None
  /\ \E u \in Uuid \ drawn : reg' = [stage |-> "open", app |-> a, uuid |-> u] /\ drawn' = drawn \cup {u}
  /\ unkept' = IF file[a] = None THEN unkept ELSE unkept \cup {a}
  /\ UNCHANGED <<file, uri, handed, delivered>>

\* fopen "w" empties the file, or fails: then the uuid is used all the same.
OpenUuidFile ==
  /\ reg.stage = "open"
  /\ \/ /\ file' = [file EXCEPT ![reg.app] = Blank]
        /\ reg' = [reg EXCEPT !.stage = "write"]
        /\ UNCHANGED <<uri, unkept>>
     \/ /\ Enter(reg.app, reg.uuid)
        /\ unkept' = unkept \cup {reg.app}
        /\ UNCHANGED file
  /\ UNCHANGED <<handed, delivered, drawn>>

\* MUTANT of WriteUuidFile: the file is never written.
WriteUuidFileNot ==
  /\ reg.stage = "write"
  /\ Enter(reg.app, reg.uuid)
  /\ UNCHANGED <<file, handed, delivered, drawn, unkept>>

\* fprintf and fclose, which nobody checks; a full disk leaves the file empty.
WriteUuidFile ==
  /\ reg.stage = "write"
  /\ \/ /\ file' = [file EXCEPT ![reg.app] = reg.uuid]
        /\ UNCHANGED unkept
     \/ /\ unkept' = unkept \cup {reg.app}
        /\ UNCHANGED file
  /\ Enter(reg.app, reg.uuid)
  /\ UNCHANGED <<handed, delivered, drawn>>

-----------------------------------------------------------------------------
\* gdial_rest_server_unregister_all_apps
UnregisterAllApps ==
  /\ reg.stage = "idle"
  /\ uri' = [a \in Owner |-> IF a = Device THEN uri[a] ELSE None]
  /\ UNCHANGED <<file, reg, handed, delivered, drawn, unkept>>

\* gdial_rest_server_new_additional_data_url: a launch hands out the URI (and
\* dd.xml that of the Device).
HandOut(a) ==
  /\ uri[a] # None
  /\ handed' = [handed EXCEPT ![a] = uri[a]]
  /\ UNCHANGED <<file, uri, reg, delivered, drawn, unkept>>

\* gdial_rest_server_find_app_registry_by_uuid.  The path of a blank URI has
\* no element for a uuid, and is refused (501) before the lookup.
FindAppRegistryByUuid(u) == {a \in Owner : u # Blank /\ uri[a] = u}

\* The application posts its data to the URI it was given (a client sends a
\* request); if no entry has this uuid the answer is 404.
PostData(a) ==
  /\ handed[a] # None
  /\ LET found == FindAppRegistryByUuid(handed[a])
     IN  \/ \E e \in found : delivered' = [from |-> a, to |-> e]
         \/ found = {} /\ delivered' = [from |-> a, to |-> None]
  /\ UNCHANGED <<file, uri, reg, handed, drawn, unkept>>

\* The server ends at any point and is started again; the files and the
\* running applications stay.
Crash ==
  /\ uri' = [a \in Owner |-> None]
  /\ reg' = NoReg
  /\ unkept' = IF reg.stage = "idle" THEN unkept ELSE unkept \cup {reg.app}
  /\ UNCHANGED <<file, handed, delivered, drawn>>

\* The device restarts: /tmp is empty, no application runs, but the Device's
\* file is still there, and clients still know its URI.
Reboot ==
  /\ file' = [a \in Owner |-> IF a = Device THEN file[a] ELSE None]
  /\ uri' = [a \in Owner |-> None]
  /\ handed' = [a \in Owner |-> IF a = Device THEN handed[a] ELSE None]
  /\ reg' = NoReg
  /\ delivered' = NoPost
  /\ unkept' = (unkept \cap {Device}) \cup ({reg.app} \cap {Device})
  /\ UNCHANGED drawn

\* start_GDialServer() settles the Device's uuid before it registers the
\* applications; registration happens then and on the handler thread.
Settle(a) ==
  /\ a # Device => uri[Device] # None
  /\ ReadUuidFile(a) \/ DrawUuid(a)

Next ==
  \/ \E a \in Owner : Settle(a) \/ HandOut(a) \/ PostData(a)
  \/ OpenUuidFile
  \/ WriteUuidFile
  \/ UnregisterAllApps
  \/ Crash
  \/ Reboot

Spec == Init /\ [][Next]_vars

-----------------------------------------------------------------------------
\* What is sent to a URI that was handed out at any time is taken by the entry
\* it was handed out for, or by none: not by that of an application registered
\* since, and not by another one whose file is empty too.
PostReachesItsOwnEntry == delivered.to \in {delivered.from, None}

\* An application that is registered again, after UnregisterAllApps or after a
\* crash, has the URI that it was given before, so that its data still arrives,
\* and the Device has it even after a reboot, unless the file could not be
\* written or read.
UriOutlivesTheServer ==
  \A a \in Owner \ unkept :
    handed[a] # None /\ uri[a] # None => uri[a] = handed[a]
=============================================================================
