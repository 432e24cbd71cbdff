------------------------------ MODULE TreeAccess ------------------------------
(***************************************************************************)
(* What entering a working tree promises (gate.go:9-23), without any of    *)
(* the mechanism: a check that may write the tree is alone in it, checks   *)
(* that only read share it, but only with checks of their own process.     *)
(* Gate and Workspace are both shown to implement this specification.      *)
(***************************************************************************)
CONSTANTS
  Checks,       \* the checks that enter the tree
  Writers,      \* those that can change it (writesWorkspace)
  Locked,       \* those whose session has a cache directory, hence a file lock
  ProcessOf     \* the process each check runs in

VARIABLES
  asked,        \* checks that asked to enter and have no answer yet
  inside        \* checks in the tree

treeVars == <<asked, inside>>

(***************************************************************************)
(* Two checks are coordinated when they share a process, whose gate both   *)
(* pass, or when both take the workspace lock under the cache directory.   *)
(***************************************************************************)
Coordinated(c, d) ==
  \/ ProcessOf[c] = ProcessOf[d]
  \/ c \in Locked /\ d \in Locked

MayShare(c, d) ==
  /\ c \notin Writers
  /\ d \notin Writers
  /\ ProcessOf[c] = ProcessOf[d]

Compatible(c, d) == Coordinated(c, d) => MayShare(c, d)

TreeInit == asked = {} /\ inside = {}

Ask(c) ==
  /\ c \notin asked \cup inside
  /\ asked' = asked \cup {c}
  /\ UNCHANGED inside

(* A check may enter without having been seen to wait. *)
Enter(c) ==
  /\ c \notin inside
  /\ \A d \in inside : Compatible(c, d)
  /\ asked' = asked \ {c}
  /\ inside' = inside \cup {c}

GiveUp(c) ==
  /\ c \in asked
  /\ asked' = asked \ {c}
  /\ UNCHANGED inside

Leave(c) ==
  /\ c \in inside
  /\ inside' = inside \ {c}
  /\ UNCHANGED asked

(* A process that dies takes its own checks with it and nobody else's. *)
Die(p) ==
  LET gone == {c \in Checks : ProcessOf[c] = p}
  IN  asked' = asked \ gone /\ inside' = inside \ gone

TreeNext ==
  \/ \E c \in Checks : Ask(c) \/ Enter(c) \/ GiveUp(c) \/ Leave(c)
  \/ \E p \in {ProcessOf[c] : c \in Checks} : Die(p)

TreeSpec == TreeInit /\ [][TreeNext]_treeVars
===============================================================================
