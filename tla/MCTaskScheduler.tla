--------------------------- MODULE MCTaskScheduler ---------------------------
(* A small instance of TaskScheduler for TLC.  Task a comes before task b. *)
EXTENDS TaskScheduler, TLC

CONSTANTS a, b

MCInterval == [t \in Tasks |-> 1]
MCPlace == (a :> 1) @@ (b :> 2)
=============================================================================
