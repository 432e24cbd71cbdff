------------------------------ MODULE MCStatMemo ------------------------------
(* Instances of StatMemo for TLC. *)
EXTENDS StatMemo, TLC

CONSTANTS g1, g2, s1, f1, f2

(* Two goroutines of one session, two files whose entries need a shard each. *)
TwoFiles == {f1, f2}
TwoWorkers == {g1, g2}
OneSession == {s1}
SameSession == [g \in Workers |-> s1]
Split == [f \in Files |-> IF f = f1 THEN 0 ELSE 1]

(* Goroutines are alike, and so are contents. *)
Symmetry == Permutations(Workers) \cup Permutations(Contents)
===============================================================================
