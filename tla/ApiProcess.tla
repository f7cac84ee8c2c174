------------------------------ MODULE ApiProcess ------------------------------
(***************************************************************************)
(* The process of the free hosting profile: it consumes the database queue *)
(* (DatabaseQueue) and serves the streams and polls of a page that waits   *)
(* for the resume (ProgressStream), on the one event loop, so that a turn  *)
(* of either may come between any two of the other.  A process that dies   *)
(* is ProcessDies and then ConnectionBreaks.                               *)
(***************************************************************************)
EXTENDS DatabaseQueue, ProgressStream

apiVars == <<row, profile, run, handler, picked, stream, wire, page>>

ApiInit == DbInit /\ WatchInit

ApiNext ==
    \/ DbNext /\ UNCHANGED <<stream, wire, page>>
    \/ WatchStep /\ UNCHANGED picked

\* Both loops go on: the fairness of each.
ApiSpec == ApiInit /\ [][ApiNext]_apiVars /\ DbFairness /\ WatchFairness
=============================================================================
