--------------------------- MODULE DefaultContext ---------------------------
(***************************************************************************)
(* GLib's default main context.  g_timeout_add attaches its sources there, *)
(* while the server's main thread runs a context of its own                *)
(* (gdialservice.cpp, line 274): whether the timeouts of the server are    *)
(* ever dispatched depends on the host, and then they are dispatched on a  *)
(* thread of the host, beside the main thread.                             *)
(***************************************************************************)
CONSTANTS HostRunsLoop, \* a thread of the host runs the default main context
          None          \* no address

ASSUME HostAssumption == HostRunsLoop \in BOOLEAN
=============================================================================
