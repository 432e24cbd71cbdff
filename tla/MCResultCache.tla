---------------------------- MODULE MCResultCache -----------------------------
(* Instances of ResultCache for TLC. *)
EXTENDS ResultCache

CONSTANTS c1, c2, w, v, s, t, d1, d2

TwoChecks == {c1, c2}
OneCommand == {w}
MCCommands == {w, v}
NoCommands == {}
MCSessions == {s, t}

(* Two different checks of one run beside a command, a command elsewhere. *)
OneRunSessionOf == [a \in Checks \cup Commands |-> IF a = w THEN t ELSE s]
OneRunDefinitionOf == [c \in Checks |-> IF c = c1 THEN d1 ELSE d2]
GoAndOther ==
  {[c \in Checks |-> IF c = c1 THEN "go" ELSE other] : other \in {"go", "dagger", "command"}}

(* The same check in two processes, a command in the second. *)
TwoRunsSessionOf == [a \in Checks \cup Commands |-> IF a = c1 THEN s ELSE t]
TwoRunsDefinitionOf == [c \in Checks |-> d1]
AllDagger == [c \in Checks |-> "dagger"]
AllCommand == [c \in Checks |-> "command"]
CommandOnly == {AllCommand}
EitherKind == {AllDagger, AllCommand}
===============================================================================
