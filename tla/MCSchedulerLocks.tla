-------------------------- MODULE MCSchedulerLocks --------------------------
(* A small instance of SchedulerLocks for TLC.                             *)
EXTENDS SchedulerLocks, TLC

CONSTANTS p1, p2, p3
=============================================================================
