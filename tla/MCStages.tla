------------------------------- MODULE MCStages -------------------------------
(***************************************************************************)
(* Two checks of one process whose preparations differ, the second in an   *)
(* environment without an identity, and one of another process that shares *)
(* the first one's.                                                        *)
(***************************************************************************)
EXTENDS Stages

CONSTANTS c1, c2, c3, s, t, P, Q

MCChecks == {c1, c2, c3}
MCRemembered == {c1, c3}
MCSessions == {s, t}
MCSessionOf == [c \in Checks |-> IF c = c3 THEN t ELSE s]
MCPreparationOf == [c \in Checks |-> IF c = c2 THEN Q ELSE P]
===============================================================================
