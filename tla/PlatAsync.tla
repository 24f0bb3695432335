------------------------------ MODULE PlatAsync ------------------------------
(***************************************************************************)
(* The asynchronous state query that follows every start of an application *)
(* (gdial-plat-app.c and gdial-app.c).  gdial_plat_application_state_async *)
(* allocates a context, gives it to a timeout source and enters it in a    *)
(* table; the source reports the state to the instance, and its destroy    *)
(* notification takes the context out of the table, which frees it.        *)
(*                                                                         *)
(* The source is dispatched by a thread of the host, if at all             *)
(* (DefaultContext), beside the main thread.  The table has no lock: two   *)
(* accesses at once, like the use of a freed context, leave the process    *)
(* corrupt, and nothing is said of a corrupt one.                          *)
(*                                                                         *)
(* The other asynchronous calls (start, stop, removal) have no caller.     *)
(***************************************************************************)
EXTENDS Naturals, Sequences, SequencesExt, FiniteSets, DefaultContext

CONSTANTS App,          \* applications
          Context,      \* addresses of contexts (a bound on those in use)
          MaxTerms      \* bound on the calls of gdial_plat_term()

ASSUME AsyncAssumption ==
  /\ None \notin App \cup Context
  /\ MaxTerms \in Nat

VARIABLES live,         \* application_instances_, the newest first
          inited,       \* gdial_plat_app_async_contexts exists
          table,        \* its keys
          owner,        \* [Context -> App]: the name in an allocated context
          sources,      \* the contexts given to sources not yet destroyed
          adding,       \* the main thread has added this context's source
          dispatcher,   \* what the thread of the default context is doing
          signal,       \* the last state-changed signal: for whom, and to whom
          early,        \* history: contexts whose source ended before they
                        \* were entered in the table
          orphans,      \* history: contexts freed before their source ended
          terms,        \* history: calls of gdial_plat_term()
          corrupt       \* freed memory or a table in use was accessed

asyncVars == <<live, inited, table, owner, sources, adding, dispatcher, signal,
               early, orphans, terms, corrupt>>

NoSignal == [for |-> None, to |-> None]
DispatcherIdle == [stage |-> "idle", context |-> None]
Allocated == {c \in Context : owner[c] # None}

AsyncTypeOK ==
  /\ live \in Seq(App)
  /\ inited \in BOOLEAN
  /\ table \subseteq Context /\ sources \subseteq Context
  /\ owner \in [Context -> App \cup {None}]
  /\ adding \in (Allocated \ table) \cup {None}
  /\ dispatcher \in [stage : {"idle", "callback", "destroy"}, context : Context \cup {None}]
  /\ signal \in [for : App \cup {None}, to : App \cup {None}]
  /\ early \subseteq Context /\ orphans \subseteq Context
  /\ terms \in 0..MaxTerms
  /\ corrupt \in BOOLEAN

AsyncInit ==
  /\ live = <<>>
  /\ inited = FALSE
  /\ table = {}
  /\ owner = [c \in Context |-> None]
  /\ sources = {}
  /\ adding = None
  /\ dispatcher = DispatcherIdle
  /\ signal = NoSignal
  /\ early = {} /\ orphans = {}
  /\ terms = 0
  /\ corrupt = FALSE

-----------------------------------------------------------------------------
\* The main thread.

\* gdial_plat_init
PlatInit ==
  /\ ~corrupt
  /\ ~inited
  /\ inited' = TRUE
  /\ table' = {}
  /\ UNCHANGED <<live, owner, sources, adding, dispatcher, signal, early,
                 orphans, terms, corrupt>>

\* gdial_app_start, after a launch found or created the instance: the context
\* is allocated and its source added.  malloc does not return what is in use.
StateAsync(a) ==
  /\ ~corrupt
  /\ inited
  /\ adding = None
  /\ live' = IF a \in Range(live) THEN live ELSE <<a>> \o live
  /\ \E c \in Context \ (Allocated \cup orphans) :
       /\ owner' = [owner EXCEPT ![c] = a]
       /\ sources' = sources \cup {c}
       /\ adding' = c
  /\ UNCHANGED <<inited, table, dispatcher, signal, early, orphans, terms, corrupt>>

\* MUTANT of Insert: the context is entered again and again.
InsertAgain ==
  /\ ~corrupt
  /\ adding # None
  /\ table' = table \cup {adding}
  /\ UNCHANGED <<live, inited, owner, sources, adding, dispatcher, signal, early,
                 orphans, terms, corrupt>>

\* g_hash_table_insert, the next statement: the source may have ended by now.
Insert ==
  /\ ~corrupt
  /\ adding # None
  /\ table' = table \cup {adding}
  /\ early' = IF adding \in sources THEN early ELSE early \cup {adding}
  /\ adding' = None
  /\ UNCHANGED <<live, inited, owner, sources, dispatcher, signal, orphans,
                 terms, corrupt>>

\* gdial_app_dispose
DropInstance(a) ==
  /\ ~corrupt
  /\ adding = None
  /\ \E k \in DOMAIN live : live[k] = a /\ live' = RemoveAt(live, k)
  /\ UNCHANGED <<inited, table, owner, sources, adding, dispatcher, signal,
                 early, orphans, terms, corrupt>>

\* gdial_plat_term, when the main thread has ended: the table is released with
\* the contexts in it; their sources stay.
PlatTerm ==
  /\ ~corrupt
  /\ inited
  /\ adding = None
  /\ terms < MaxTerms
  /\ terms' = terms + 1
  /\ inited' = FALSE
  /\ table' = {}
  /\ owner' = [c \in Context |-> IF c \in table THEN None ELSE owner[c]]
  /\ orphans' = orphans \cup (table \cap sources)
  /\ early' = early \ table
  /\ UNCHANGED <<live, sources, adding, dispatcher, signal, corrupt>>

-----------------------------------------------------------------------------
\* The thread of the host that runs the default main context.

Dispatch ==
  /\ ~corrupt
  /\ HostRunsLoop
  /\ dispatcher = DispatcherIdle
  /\ \E c \in sources : dispatcher' = [stage |-> "callback", context |-> c]
  /\ UNCHANGED <<live, inited, table, owner, sources, adding, signal, early,
                 orphans, terms, corrupt>>

\* GSourceFunc_application_state_async_cb and gdial_plat_app_state_cb: every
\* instance has the id 0, so that the first of the list is found.
StateCallback ==
  /\ ~corrupt
  /\ dispatcher.stage = "callback"
  /\ dispatcher.context \notin orphans
  /\ signal' = IF live = <<>> THEN NoSignal
               ELSE [for |-> owner[dispatcher.context], to |-> Head(live)]
  /\ dispatcher' = [dispatcher EXCEPT !.stage = "destroy"]
  /\ UNCHANGED <<live, inited, table, owner, sources, adding, early, orphans,
                 terms, corrupt>>

\* MUTANT of DestroySource: the context stays in the table.
DestroySourceOnly ==
  /\ ~corrupt
  /\ dispatcher.stage = "destroy"
  /\ dispatcher.context \notin orphans
  /\ sources' = sources \ {dispatcher.context}
  /\ dispatcher' = DispatcherIdle
  /\ UNCHANGED <<live, inited, table, owner, adding, signal, early, orphans,
                 terms, corrupt>>

\* MUTANT of DestroySource: the context is taken from the table, not freed.
DestroySourceSteals ==
  /\ ~corrupt
  /\ dispatcher.stage = "destroy"
  /\ dispatcher.context \notin orphans
  /\ sources' = sources \ {dispatcher.context}
  /\ table' = table \ {dispatcher.context}
  /\ dispatcher' = DispatcherIdle
  /\ UNCHANGED <<live, inited, owner, adding, signal, early, orphans, terms, corrupt>>

\* GDestroyNotify_async_source_destory: a context that is not in the table (or
\* if there is no table) is not freed.
DestroySource ==
  /\ ~corrupt
  /\ dispatcher.stage = "destroy"
  /\ dispatcher.context \notin orphans
  /\ sources' = sources \ {dispatcher.context}
  /\ table' = table \ {dispatcher.context}
  /\ owner' = IF dispatcher.context \in table
              THEN [owner EXCEPT ![dispatcher.context] = None]
              ELSE owner
  /\ dispatcher' = DispatcherIdle
  /\ UNCHANGED <<live, inited, adding, signal, early, orphans, terms, corrupt>>

\* The host's thread goes on with a context that was freed.
UseFreed ==
  /\ ~corrupt
  /\ dispatcher.context \in orphans
  /\ corrupt' = TRUE
  /\ UNCHANGED <<live, inited, table, owner, sources, adding, dispatcher, signal,
                 early, orphans, terms>>

\* The main thread inserts while the host's thread removes.
Collide ==
  /\ ~corrupt
  /\ adding # None
  /\ dispatcher.stage = "destroy"
  /\ corrupt' = TRUE
  /\ UNCHANGED <<live, inited, table, owner, sources, adding, dispatcher, signal,
                 early, orphans, terms>>

AsyncNext ==
  \/ PlatInit
  \/ \E a \in App : StateAsync(a) \/ DropInstance(a)
  \/ Insert
  \/ PlatTerm
  \/ Dispatch
  \/ StateCallback
  \/ DestroySource
  \/ UseFreed
  \/ Collide

\* GLib dispatches each source whose time has come, among any others, if the
\* host runs the loop; the main thread goes on to its next statement.
AsyncFairness ==
  /\ WF_asyncVars(Insert)
  /\ \A c \in Context : SF_asyncVars(Dispatch /\ dispatcher'.context = c)
  /\ WF_asyncVars(StateCallback)
  /\ WF_asyncVars(DestroySource)
  /\ WF_asyncVars(UseFreed)

AsyncSpec == AsyncInit /\ [][AsyncNext]_asyncVars /\ AsyncFairness

-----------------------------------------------------------------------------
\* While the server is up, what is in the table are the contexts whose source
\* has not ended: every source finds its context there when it is destroyed,
\* and none stays behind, unless its source ended before it was entered.
TableHoldsPending ==
  inited /\ adding = None => table \ early = sources \ orphans

\* No context is lost and none is freed twice: the table, with the context that
\* is about to be entered in it, holds those that are allocated and no other,
\* whichever of the two threads comes first, and through every restart.
ContextsAccountedFor == Allocated = (table \cup {adding}) \ {None}

-----------------------------------------------------------------------------
\* What the code or its comments say and TLC refutes (README, section 5).

\* Every start is followed by its callback, as gdial_rest_server_handle_POST
\* says ("there will be followed by a RUNNING callback", gdial-rest.c:509): the
\* source of a start is dispatched and ends, unless the server is stopped before.
\* If no thread of the host runs the default main context, it never is.
StartIsFollowedByCallback ==
  \A c \in Context :
    c \in sources ~> (c \notin sources \/ c \in orphans \/ corrupt)

\* What GDialPlatAppAsyncContext_destroy asserts (async_gsource == 0), and
\* gdial_plat_term with it (the table is empty): a context is freed only when
\* its source has ended.
FreedWithoutSource == orphans = {}

\* The state-changed signal goes to the application that was started: "there
\* will be followed by a RUNNING callback" is said of each of them.
SignalsTheStartedApp == signal.to = signal.for
=============================================================================
