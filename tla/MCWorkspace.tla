----------------------------- MODULE MCWorkspace ------------------------------
(***************************************************************************)
(* Two processes on one tree.  A runs two readers that share the lock, a   *)
(* reader in a session without a cache directory, and a writer; B a        *)
(* writer.                                                                 *)
(***************************************************************************)
EXTENDS Workspace

CONSTANTS procA, procB, r1, r2, u, w1, w2

MCChecks == {r1, r2, u, w1, w2}
MCWriters == {w1, w2}
MCLocked == {r1, r2, w1, w2}
MCProcesses == {procA, procB}
MCProcessOf == [c \in Checks |-> IF c = w2 THEN procB ELSE procA]

===============================================================================
