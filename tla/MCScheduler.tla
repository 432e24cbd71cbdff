----------------------------- MODULE MCScheduler ------------------------------
(* Instances of Scheduler for TLC. *)
EXTENDS Scheduler

CONSTANTS A, B

MCPreparations == {A, B}
===============================================================================
