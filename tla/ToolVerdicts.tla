----------------------------- MODULE ToolVerdicts ------------------------------
(***************************************************************************)
(* What a check makes of one finished run of its tool                      *)
(* (internal/checktool), for both executors, beside what the tools of its  *)
(* kind do.  A run is its exit code, its report and what else it printed;  *)
(* a report holds entries, some of which may be no diagnostics.            *)
(***************************************************************************)
EXTENDS Integers, FiniteSets

Ran(exit, text) == [exit |-> exit, text |-> text]

(* ToolExit: a tool's own output is the finding, if its exit code says so. *)
FailureCode(kind) == IF kind = "go-vuln" THEN 3 ELSE 1

ToolExit(kind, run) ==
  CASE run.exit = 0 -> "passed"
    [] run.exit = FailureCode(kind) /\ run.text -> "failed"
    [] OTHER -> "error"

ZizmorVerdict(run) ==
  CASE run.exit = 0 -> "passed"
    [] run.exit \in {13, 14} /\ run.text -> "failed"
    [] OTHER -> "error"

(* ModFindings: both commands exit 1 either way, so the output decides. *)
ModStep(run) ==
  CASE run.exit = 0 -> "passed"
    [] run.exit = 1 /\ run.mismatch -> "failed"
    [] OTHER -> "error"

ModVerdict(runs) ==
  LET of == {ModStep(runs[i]) : i \in DOMAIN runs}
  IN IF "error" \in of THEN "error" ELSE IF "failed" \in of THEN "failed" ELSE "passed"

(* TestFindings: a package that was not built hides its tests. *)
TestVerdict(run) ==
  IF ~run.readable \/ run.exit \notin {0, 1} \/ run.broken THEN "error"
  ELSE IF run.failed THEN "failed"
  ELSE IF run.exit = 0 /\ run.passing THEN "passed"
  ELSE "error"

(***************************************************************************)
(* SecretsFindings, ShellFindings, DepsFindings, GocheckReport and          *)
(* LintFindings: a report has one entry per finding, and agrees with the   *)
(* exit code.                                                              *)
(***************************************************************************)
Report(exit, entries) == [exit |-> exit, readable |-> TRUE, entries |-> entries, stderr |-> FALSE]

ReportVerdict(fails, run, entries) ==
  IF \/ run.exit \notin {0, fails} \/ ~run.readable
     \/ (run.exit = 0) # (entries = {})
     \/ "malformed" \in entries
  THEN "error"
  ELSE IF entries = {} THEN "passed" ELSE "failed"

SecretsVerdict(run) == ReportVerdict(3, run, run.entries)
ShellVerdict(run) == ReportVerdict(1, run, run.entries)

(* depsGroup.counts: what osv-scanner lists but does not count is left out. *)
DepsVerdict(run) == ReportVerdict(1, run, run.entries \ {"uncounted"})

GocheckVerdict(run) ==
  IF run.stderr THEN "error" ELSE ReportVerdict(1, run, run.entries)

VerdictOf(kind, run) ==
  CASE kind = "go-test" -> TestVerdict(run)
    [] kind = "go-mod" -> ModVerdict(run)
    [] kind = "secrets" -> SecretsVerdict(run)
    [] kind = "shell-lint" -> ShellVerdict(run)
    [] kind = "deps-vuln" -> DepsVerdict(run)
    [] kind = "workflow-security" -> ZizmorVerdict(run)
    [] kind \in {"go-imports", "go-lint"} -> GocheckVerdict(run)
    [] OTHER -> ToolExit(kind, run)

-------------------------------------------------------------------------------
(***************************************************************************)
(* What the tools do: by fact, their runs.  A tool that could not do its  *)
(* work may have found something, and says so in part or not at all.       *)
(***************************************************************************)
Tidy(exit, mismatch) == [exit |-> exit, mismatch |-> mismatch]

Tests(exit, broken, failed, passing) ==
  [exit |-> exit, readable |-> TRUE, broken |-> broken, failed |-> failed, passing |-> passing]

CutShort(run) == [run EXCEPT !.readable = FALSE]

TestRuns(fact) ==
  CASE fact = "clean" -> {Tests(0, FALSE, FALSE, TRUE)}
    [] fact = "found" -> {Tests(1, FALSE, TRUE, TRUE), Tests(0, FALSE, TRUE, TRUE),
                           Tests(1, FALSE, TRUE, FALSE)}
    [] OTHER -> {Tests(0, FALSE, FALSE, FALSE), Tests(1, TRUE, TRUE, TRUE),
                 Tests(1, FALSE, FALSE, TRUE), Tests(2, FALSE, FALSE, FALSE),
                 CutShort(Tests(1, FALSE, TRUE, FALSE)), CutShort(Tests(0, FALSE, FALSE, TRUE))}

ModRuns(fact) ==
  CASE fact = "clean" -> {<<Tidy(0, FALSE), Tidy(0, FALSE)>>}
    [] fact = "found" -> {<<Tidy(1, TRUE), Tidy(0, FALSE)>>, <<Tidy(0, FALSE), Tidy(1, TRUE)>>}
    [] OTHER -> {<<Tidy(1, FALSE), Tidy(0, FALSE)>>, <<Tidy(1, TRUE), Tidy(1, FALSE)>>}

Reports(fact, fails, aside) ==
  CASE fact = "clean" -> {Report(0, aside)}
    [] fact = "found" -> {Report(fails, {"real"}), Report(fails, {"real"} \cup aside)}
    [] OTHER -> {Report(2, {}), CutShort(Report(0, {})), CutShort(Report(fails, {})),
                 Report(fails, {}), Report(0, {"real"}), Report(fails, {"real", "malformed"})}

ExitRuns(fact, fails) ==
  CASE fact = "clean" -> {Ran(0, FALSE), Ran(0, TRUE)}
    [] fact = "found" -> {Ran(fails, TRUE)}
    [] OTHER -> {Ran(fails, FALSE), Ran(2, TRUE), Ran(IF fails = 1 THEN 3 ELSE 1, TRUE)}

(* go vet exits and prints alike for what it finds and for what it cannot  *)
(* compile.                                                                *)
Indistinct(kind, fact) == kind = "go-vet" /\ fact = "failed"

RunsOf(kind, fact) ==
  CASE kind = "go-test" -> TestRuns(fact)
    [] kind = "go-mod" -> ModRuns(fact)
    [] kind = "secrets" -> Reports(fact, 3, {})
    [] kind = "shell-lint" -> Reports(fact, 1, {})
    [] kind = "deps-vuln" -> Reports(fact, 1, {"uncounted"})
    [] kind = "workflow-security" -> ExitRuns(fact, 13)
    [] kind \in {"go-imports", "go-lint"} ->
         Reports(fact, 1, {}) \cup
           IF fact = "failed" THEN {[Report(0, {}) EXCEPT !.stderr = TRUE]} ELSE {}
    [] kind = "go-vuln" -> ExitRuns(fact, 3)
    [] OTHER -> ExitRuns(fact, 1) \cup IF Indistinct(kind, fact) THEN {Ran(1, TRUE)} ELSE {}

Truths == {"clean", "found", "failed"}

TrueVerdict(fact) ==
  CASE fact = "clean" -> "passed" [] fact = "found" -> "failed" [] OTHER -> "error"

TrueVerdicts(kind, fact) ==
  {TrueVerdict(fact)} \cup IF Indistinct(kind, fact) THEN {"failed"} ELSE {}
===============================================================================
