----------------------------- MODULE MCApiProcess -----------------------------
(* ApiProcess for TLC: one resume, its one consumer, a retrier, one page.   *)
EXTENDS ApiProcess
=============================================================================
