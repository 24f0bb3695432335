------------------------------- MODULE Routing -------------------------------
(***************************************************************************)
(* Which handler an HTTP request reaches, if any (gdial-rest.c).  A path   *)
(* is the list of elements that g_strsplit makes of it, at most four for   *)
(* the REST server and three for the local one.  An element is known by    *)
(* what the callbacks tell apart: "" is an empty one, "long" one that does *)
(* not fit its buffer and "cut off" what is left of it there, "base" and   *)
(* "uuid" the element that names the server or an entry of the local one,  *)
(* "num" a number.  Each request is a behaviour of its own: it is          *)
(* received, and then it is routed.                                        *)
(***************************************************************************)
EXTENDS Naturals, Sequences, SequencesExt, FiniteSets

CONSTANTS HttpRequest,  \* the requests to be routed
          Registered,   \* the names that match a registry entry
          YouTube,      \* the names that begin with "YouTube"
          Restricted    \* the names whose entry lists allowed origins

Method == {"OPTIONS", "POST", "GET", "DELETE", "other"}
Origin == {"none", "empty", "https listed", "https", "package listed", "package", "other"}

\* What is wrong with a request before its path is looked at.
Flaw == {"none", "family", "uri", "length", "host"}

ASSUME RequestAssumption ==
  \A r \in HttpRequest :
    /\ r.server \in {"apps", "local"} /\ r.method \in Method
    /\ r.flaw \in Flaw /\ r.origin \in Origin
    /\ r.loopback \in BOOLEAN /\ r.instance \in BOOLEAN
    /\ r.path \in Seq(STRING)
    /\ Len(r.path) \in 1..4 /\ (r.server = "local" => Len(r.path) <= 3)

VARIABLES request, outcome

routingVars == <<request, outcome>>

\* An answer without a handler, and the handler that is called.
Refused(code) == [handler |-> "none", code |-> code]
Call(handler) == [handler |-> handler, code |-> 200]
Waiting == [handler |-> "waiting", code |-> 0]

\* Nothing set the status of the answer; the element list was overrun.
NoStatus == [handler |-> "none", code |-> 0]
Overrun == [handler |-> "overrun", code |-> 0]

-----------------------------------------------------------------------------
\* Origins.

\* gdial_app_registry_is_allowed_origin: the origin ends with a listed one.
EntryAllows(n, o) == n \in Restricted => o \in {"https listed", "package listed"}

\* gdial_rest_server_is_allowed_youtube_origin
IsAllowedYoutubeOrigin(n, o) ==
  \/ o \in {"https listed", "https"} /\ n \in Registered /\ EntryAllows(n, o)
  \/ o \in {"package listed", "package"}

\* MUTANT of IsAllowedOrigin: the test for a missing header comes first.
IsAllowedOriginNoneFirst(n, o) ==
  \/ o \in {"none", "empty"}
  \/ n \in YouTube /\ IsAllowedYoutubeOrigin(n, o)
  \/ n \notin YouTube /\ (o = "other" \/ EntryAllows(n, o))

\* gdial_rest_server_is_allowed_origin
IsAllowedOrigin(n, o) ==
  IF n \in YouTube THEN IsAllowedYoutubeOrigin(n, o)
  ELSE \/ o \in {"none", "empty", "other"}
       \/ n \in Registered /\ EntryAllows(n, o)

-----------------------------------------------------------------------------
\* Paths.

\* g_strlcpy into a buffer.
Copy(e) == IF e = "long" THEN "cut off" ELSE e

\* base, app_name, instance and last_elem: the last is a copy of the last
\* element, whatever its place.
Copied(p) ==
  [i \in 1..4 |-> IF i = 4 THEN Copy(Last(p)) ELSE IF i <= Len(p) THEN Copy(p[i]) ELSE ""]

\* The elements that are not empty, and the place of one among them.
Given(p) == {k \in DOMAIN p : p[k] # ""}
Place(p, k) == Cardinality({j \in Given(p) : j <= k})

\* MUTANT of CopyCheck: nothing is compared.
CopyCheckNot(p) == IF Given(p) # DOMAIN p THEN "overrun" ELSE "same"

\* "Make sure path remains same as given": the i-th copy is compared with the
\* i-th element that is not empty.  As many elements are asked for as there are
\* with the empty ones, so that the search may go past the end of the list.
CopyCheck(p) ==
  IF \E k \in Given(p) : Copied(p)[Place(p, k)] # p[k] THEN "differs"
  ELSE IF Given(p) # DOMAIN p THEN "overrun" ELSE "same"

\* What the path is known by from then on.
BaseElem(p) == Copied(p)[1]
AppElem(p) == Copied(p)[2]
InstanceElem(p) == Copied(p)[3]
LastElem(p) == Copied(p)[4]

\* gdial_rest_server_check_instance: "run", or any number.
CheckInstance(r) == r.instance /\ InstanceElem(r.path) \in {"run", "num"}

\* An application and nothing else.
RouteApp(r) ==
  CASE r.method = "OPTIONS" -> Call("options")
    [] r.method = "POST" -> Call("launch")
    [] r.method = "GET" -> Call("state")
    [] OTHER -> Refused(501)

\* .../dial_data, which the local server replaced: no handler is left.
RouteDialData(r) ==
  CASE ~r.loopback -> Refused(500)
    [] r.loopback /\ r.method = "OPTIONS" -> Call("options")
    [] r.loopback /\ r.method = "POST" -> NoStatus
    [] OTHER -> Refused(501)

\* .../<instance>
RouteInstance(r) ==
  CASE r.method = "OPTIONS" -> Call("options")
    [] r.method = "DELETE" -> IF CheckInstance(r) THEN Call("stop") ELSE Refused(404)
    [] r.method = "POST" -> Refused(404)
    [] OTHER -> Refused(501)

\* .../<instance>/hide
RouteHide(r) ==
  CASE r.method = "OPTIONS" -> Call("options")
    [] r.method = "POST" -> IF CheckInstance(r) THEN Call("hide") ELSE Refused(404)
    [] r.method = "DELETE" -> Refused(404)
    [] OTHER -> Refused(501)

\* The number of elements and the last of them select what is asked for.
RouteByShape(r) ==
  LET p == r.path
  IN  CASE Len(p) = 2 -> RouteApp(r)
        [] Len(p) = 3 -> IF LastElem(p) = "dial_data" THEN RouteDialData(r) ELSE RouteInstance(r)
        [] Len(p) = 4 -> IF LastElem(p) = "hide" THEN RouteHide(r) ELSE Refused(501)

\* The tests before the path is split: only IPv4, a valid and not too long
\* URI, and a Host header.
FlawCode(flaw) ==
  CASE flaw = "family" -> 501 [] flaw \in {"uri", "length"} -> 500 [] flaw = "host" -> 403

\* gdial_rest_http_server_apps_callback
Route(r) ==
  LET p == r.path
      check == CopyCheck(p)
  IN  CASE r.flaw # "none" -> Refused(FlawCode(r.flaw))
        [] r.flaw = "none" /\ check = "differs" -> Refused(501)
        [] r.flaw = "none" /\ check = "overrun" -> Overrun
        [] OTHER ->
             IF Len(p) < 2 \/ BaseElem(p) # "base" \/ AppElem(p) = "" THEN Refused(501)
             ELSE IF AppElem(p) \notin Registered THEN Refused(404)
             ELSE IF ~IsAllowedOrigin(AppElem(p), r.origin) THEN Refused(403)
             ELSE RouteByShape(r)

\* gdial_local_rest_http_server_callback: empty elements are passed over.  The
\* entry is found by its uuid (gdial_rest_server_find_app_registry_by_uuid).
RouteLocal(r) ==
  LET given == SelectSeq(r.path, LAMBDA e : e # "")
  IN  IF Len(given) # 2 \/ Copy(Last(given)) # "dial_data" THEN Refused(501)
      ELSE CASE Head(given) # "uuid" -> Refused(404)
             [] Head(given) = "uuid" /\ r.method = "POST" -> Call("data")
             [] Head(given) = "uuid" /\ r.method = "GET" -> Call("state")
             [] OTHER -> Refused(501)

-----------------------------------------------------------------------------
RoutingInit == request \in HttpRequest /\ outcome = Waiting

AppsCallback ==
  /\ outcome = Waiting
  /\ request.server = "apps"
  /\ outcome' = Route(request)
  /\ UNCHANGED request

LocalCallback ==
  /\ outcome = Waiting
  /\ request.server = "local"
  /\ outcome' = RouteLocal(request)
  /\ UNCHANGED request

RoutingNext == AppsCallback \/ LocalCallback

RoutingSpec == RoutingInit /\ [][RoutingNext]_routingVars

-----------------------------------------------------------------------------
\* The requests of the comment "Valid http paths (DIAL 2.1)".
Documented ==
  UNION {{<<"POST", <<"base", n>>>>, <<"GET", <<"base", n>>>>,
          <<"GET", <<"base", n, i>>>>, <<"DELETE", <<"base", n, i>>>>,
          <<"POST", <<"base", n, i, "hide">>>>, <<"POST", <<"base", n, "dial_data">>>>} :
         n \in Registered, i \in {"run", "num"}}

ReachesApp == outcome.handler \in {"launch", "state", "stop", "hide"}

\* Only a request of the documented form, for a registered name, reaches a
\* handler that acts on an application, and it stops or hides only one that has
\* an instance: no element is passed over, cut off or taken for another.
HandledIsDocumented ==
  ReachesApp /\ request.server = "apps" =>
    /\ <<request.method, request.path>> \in Documented
    /\ request.flaw = "none"
    /\ outcome.handler \in {"stop", "hide"} => request.instance

\* The comment of gdial_rest_server_is_allowed_youtube_origin: a request for
\* YouTube without an Origin header is rejected, and it has to match one that
\* is listed, or a package; other entries that list origins reach a handler
\* only from these, or from a page that is neither https nor a package.
OriginIsRespected ==
  ReachesApp /\ request.server = "apps" =>
    LET n == request.path[2]
    IN  /\ n \in YouTube => request.origin \notin {"none", "empty", "other"}
        /\ n \in Restricted => request.origin # "https"
        /\ n \in Restricted \ YouTube => request.origin # "package"

-----------------------------------------------------------------------------
\* What the code or its comments say and TLC refutes (README, section 5).

\* The comment "Valid http paths" lists what a client can ask for: each of these requests,
\* well-formed and from an allowed origin, is handed to a handler.
DocumentedIsServed ==
  /\ outcome # Waiting
  /\ <<request.method, request.path>> \in Documented
  /\ request.flaw = "none" /\ request.instance /\ request.loopback
  /\ request.origin = "package listed"
  => outcome.handler # "none"

\* The comments "do not allow any element to be empty, stop on first one" and
\* "URI must not end with '/'": such a path is answered with an error.
EmptyElementIsRefused ==
  outcome # Waiting /\ request.server = "apps" /\ "" \in Range(request.path)
    => outcome.handler = "none"
=============================================================================
