----------------------------- MODULE MCCheckKinds -----------------------------
(* Instance of CheckKinds for TLC. *)
EXTENDS CheckKinds, MCGoLint, MCNativeTools, MCEngineCaches

MCShapes == {[full |-> 1, least |-> 1, asks |-> 1],
             [full |-> 3, least |-> 2, asks |-> 2],
             [full |-> 3, least |-> 3, asks |-> 1]}

(* Lines 1 and 2, in one file, have the same text. *)
MCFileOf == [l \in {1, 2, 3} |-> IF l = 3 THEN "g" ELSE "f"]

Mutant(l, m) == [line |-> l, mutator |-> m, column |-> 1]
MCMutants == {Mutant(1, "A"), Mutant(2, "A"), Mutant(3, "B")}

(* One by its text, which is on two lines, one by its text and function. *)
Entry(f, ls, m) == [file |-> f, names |-> ls, mutator |-> m]
MCEntries == {Entry("f", {1, 2}, "A"), Entry("f", {1}, "A")}

MCDaggerChecks == {"lint", "test", "mutation", "apidiff"}
MCKindOf == [c \in MCDaggerChecks |-> c]
MCTogether == {{"lint", "mutation"}, {"test", "mutation"}, {"apidiff", "test"}}
===============================================================================
