--------------------------- MODULE MCJobLifecycle ---------------------------
(***************************************************************************)
(* Instances of JobLifecycle for TLC: a job of the service that a request  *)
(* tries to stop, a dispatched job of the same host, and another one that  *)
(* cannot be started.                                                      *)
(***************************************************************************)
EXTENDS JobLifecycle

CONSTANTS j1, d1, d2, h1, host

MCTargetOf == [h \in Handler |-> j1]
MCHostOf == [j \in Job |-> host]
=============================================================================
