---------------------------- MODULE MutationCheck -----------------------------
(***************************************************************************)
(* The go-mutation check (runner/mutation.go, verify/mutation.go and       *)
(* executeMutation of verify/dagger.go): the host selects files and the    *)
(* lines a change wrote, gremlins runs the mutants on the lines that       *)
(* count, again with longer limits if one was too short to trust, and the  *)
(* runner turns its report into a verdict the host maps to a status.       *)
(*                                                                         *)
(* Gremlins is modelled from what the runner asks of it and refuses.  What *)
(* would really become of a mutant is truth; under a limit the runner does *)
(* not trust, a mutant can time out that would not hang.                   *)
(***************************************************************************)
EXTENDS Naturals, FiniteSets

LOCAL INSTANCE Functions

CONSTANTS
  Lines,        \* source lines
  FileOf,       \* the file of each line
  Mutants,      \* what gremlins can mutate: [line, mutator, column]
  Entries,      \* accepted survivors: [file, names, mutator]; names are lines
  Elapsed,      \* how long a coverage run can take; 0: not reported
  Floor,        \* mutantTimeFloor
  Coefficient,  \* gremlinsTimeoutCoef
  MaxRuns,      \* gremlinsAttempts
  MinTimeouts   \* minTimeoutsForIncomplete

Files == Range(FileOf)
LinesOf(f) == {l \in Lines : FileOf[l] = f}
FileOfMutant(m) == FileOf[m.line]

ASSUME MutationAssumption ==
  /\ DOMAIN FileOf = Lines
  /\ IsFiniteSet(Lines)
  /\ \A m \in Mutants : m.line \in Lines
  /\ \A e \in Entries : e.file \in Files /\ e.names \subseteq LinesOf(e.file)
  /\ Elapsed \subseteq Nat
  /\ {Floor, Coefficient, MaxRuns, MinTimeouts} \subseteq Nat \ {0}
  /\ Coefficient <= 2 * Floor  \* times are in milliseconds: 10 and 10000

Fates == {"caught", "survives", "hangs", "unjudged"}

VARIABLES
  stage,        \* where the check is; idle: another kind of check runs
  files,        \* the files to mutate
  changed,      \* the lines of these files that count as changed
  accepted,     \* the accepted-survivors file
  truth,        \* what becomes of each mutant under a long enough limit
  attempt,      \* mutate's loop
  coefficient,
  elapsed,      \* the last coverage run's time
  report,       \* gremlins' report: a status per mutant of the files
  findings,     \* the verdict
  incomplete,
  status        \* the check's status, none, or broken: the query failed

mutationVars == <<stage, files, changed, accepted, truth, attempt, coefficient,
                  elapsed, report, findings, incomplete, status>>

selectionVars == <<files, changed, accepted, truth>>
runVars == <<attempt, coefficient, elapsed, report>>
verdictVars == <<findings, incomplete>>

NoReport == [m \in {} |-> "SKIPPED"]

MutationRest ==
  /\ files = {}
  /\ changed = {}
  /\ accepted = {}
  /\ truth = [m \in Mutants |-> "caught"]
  /\ attempt = 1
  /\ coefficient = Coefficient
  /\ elapsed = 0
  /\ report = NoReport
  /\ findings = {}
  /\ incomplete = FALSE
  /\ status = "none"

MutationInit == stage = "start" /\ MutationRest

-----------------------------------------------------------------------------
(***************************************************************************)
(* The host's part before the query.                                       *)
(***************************************************************************)

(* A bad timeout, accepted file or diff, or no session. *)
SelectionFails ==
  /\ stage = "start"
  /\ stage' = "done"
  /\ status' = "error"
  /\ UNCHANGED <<selectionVars, runVars, verdictVars>>

NothingToMutate ==
  /\ stage = "start"
  /\ stage' = "done"
  /\ status' = "passed"
  /\ UNCHANGED <<selectionVars, runVars, verdictVars>>

(***************************************************************************)
(* In module scope, and in a file the diff has no entry for, such as an    *)
(* untracked one, every line counts; a diffed file may have no lines that  *)
(* do.                                                                     *)
(***************************************************************************)
Select ==
  /\ stage = "start"
  /\ files' \in SUBSET Files \ {{}}
  /\ changed' \in SUBSET UNION {LinesOf(f) : f \in files'}
  /\ accepted' \in SUBSET Entries
  /\ truth' \in [Mutants -> Fates]
  /\ \A m \in Mutants : FileOfMutant(m) \notin files' => truth'[m] = "caught"
  /\ stage' = "gremlins"
  /\ UNCHANGED <<runVars, verdictVars, status>>

-----------------------------------------------------------------------------
(***************************************************************************)
(* Which lines run, and which count.                                       *)
(***************************************************************************)
(* MUTANT of RunLines: an entry's own lines do not run. *)
RunLinesChangedOnly == changed

(* mutatedLines: the changed lines, and every line an entry names. *)
RunLines == changed \cup UNION {e.names : e \in {x \in accepted : x.file \in files}}

(* onLines(in.Lines, mutant) *)
OnChange(m) == m.line \in changed

-----------------------------------------------------------------------------
(***************************************************************************)
(* Gremlins.  Its limit is the coverage time by the coefficient.           *)
(***************************************************************************)
Trusts(e) == e > 0 /\ e * coefficient >= Floor
Trusted == Trusts(elapsed)

Reported == {m \in Mutants : FileOfMutant(m) \in files}

OffRunLines == {m \in Reported : m.line \notin RunLines}

StatusOf(m) ==
  CASE truth[m] = "caught" -> "KILLED"
    [] truth[m] = "survives" -> "LIVED"
    [] truth[m] = "hangs" -> "TIMED OUT"
    [] truth[m] = "unjudged" -> "NOT COVERED"

(***************************************************************************)
(* skips: it skips what is off the run lines or, by its known defects,     *)
(* every mutant or none.  slow: those that a short limit cut off; a        *)
(* report that skips others is refused whatever timed out.                 *)
(***************************************************************************)
RunGremlins ==
  /\ stage = "gremlins"
  /\ elapsed' \in Elapsed
  /\ \E skips \in {OffRunLines, Reported, {}} :
     \E slow \in SUBSET {m \in Reported \ skips : truth[m] \in {"caught", "survives"}} :
       /\ Trusts(elapsed') \/ skips # OffRunLines => slow = {}
       /\ report' = [m \in Reported |->
                       IF m \in skips THEN "SKIPPED"
                       ELSE IF m \in slow THEN "TIMED OUT" ELSE StatusOf(m)]
  /\ stage' = "judge"
  /\ UNCHANGED <<selectionVars, attempt, coefficient, verdictVars, status>>

(* It exits nonzero, writes no usable report, or the engine gives up. *)
QueryFails ==
  /\ stage = "gremlins"
  /\ stage' = "answered"
  /\ status' = "broken"
  /\ UNCHANGED <<selectionVars, runVars, verdictVars>>

TimedOut == {m \in Reported : report[m] = "TIMED OUT"}

TooShort == TimedOut # {} /\ elapsed > 0 /\ ~Trusted

(* MUTANT of LongerCoefficient: aims at the floor, not at twice the floor. *)
LongerCoefficientOnce == (Floor + elapsed - 1) \div elapsed

LongerCoefficient == (2 * Floor + elapsed - 1) \div elapsed

RunLonger ==
  /\ stage = "judge"
  /\ TooShort /\ attempt < MaxRuns
  /\ coefficient' = LongerCoefficient
  /\ attempt' = attempt + 1
  /\ report' = NoReport
  /\ stage' = "gremlins"
  /\ UNCHANGED <<selectionVars, elapsed, verdictVars, status>>

-----------------------------------------------------------------------------
(***************************************************************************)
(* decideMutation.                                                         *)
(***************************************************************************)

(* Gremlins read another diff than the runner wrote. *)
Misread == \E m \in Reported : (report[m] = "SKIPPED") = (m.line \in RunLines)

Matched(e) ==
  {m \in Reported : FileOfMutant(m) = e.file /\ m.mutator = e.mutator /\ m.line \in e.names}

SurvivorLines(e) == {m.line : m \in {x \in Matched(e) : report[x] = "LIVED"}}

(* MUTANT of Pending: a timeout is an answer under any limit. *)
PendingTimeoutsCount(e) ==
  \E m \in Matched(e) : report[m] \in {"NOT COVERED", "SKIPPED"}

(* No test judged a mutant the entry matches. *)
Pending(e) ==
  \E m \in Matched(e) : \/ report[m] \in {"NOT COVERED", "SKIPPED"}
                        \/ report[m] = "TIMED OUT" /\ ~Trusted

(* An entry that fits survivors on several lines accepts none of them. *)
Accepts(m) ==
  \E e \in accepted : m \in Matched(e) /\ Cardinality(SurvivorLines(e)) = 1

Survivors ==
  {m \in Reported : report[m] = "LIVED" /\ ~Accepts(m) /\ OnChange(m)}

(* Entries for files this run did not mutate are not judged. *)
Considered(e) == \E m \in Reported : FileOfMutant(m) = e.file
Ambiguous == {e \in accepted : Considered(e) /\ Cardinality(SurvivorLines(e)) > 1}
Stale == {e \in accepted : Considered(e) /\ SurvivorLines(e) = {} /\ ~Pending(e)}

(* A timeout nobody can trust, or nothing but timeouts. *)
Incomplete ==
  \/ TimedOut # {} /\ ~Trusted
  \/ /\ Cardinality(TimedOut) >= MinTimeouts
     /\ \A m \in Reported : report[m] \notin {"KILLED", "LIVED"}

Judge ==
  /\ stage = "judge"
  /\ ~(TooShort /\ attempt < MaxRuns)
  /\ stage' = "answered"
  /\ IF Misread
     THEN status' = "broken" /\ UNCHANGED verdictVars
     ELSE /\ findings' = ({"survived"} \X Survivors) \cup ({"ambiguous"} \X Ambiguous)
                          \cup ({"stale"} \X Stale)
                          \cup ({"timeout"} \X (IF Incomplete THEN TimedOut ELSE {}))
          /\ incomplete' = Incomplete
          /\ UNCHANGED status
  /\ UNCHANGED <<selectionVars, runVars>>

(* GoMutation's answer, as daggerResult reads it. *)
Answer ==
  CASE status = "broken" -> "error"
    [] status # "broken" /\ findings = {} -> "passed"
    [] status # "broken" /\ findings # {} /\ incomplete -> "incomplete"
    [] OTHER -> "failed"

(* The run's context, then the check's timeout, outrank the answer. *)
Conclude ==
  /\ stage = "answered"
  /\ stage' = "done"
  /\ status' \in {Answer, "error", "cancelled"}
  /\ UNCHANGED <<selectionVars, runVars, verdictVars>>

MutationDone == stage = "done" /\ UNCHANGED mutationVars

MutationNext ==
  \/ SelectionFails \/ NothingToMutate \/ Select
  \/ RunGremlins \/ QueryFails \/ RunLonger
  \/ Judge \/ Conclude
  \/ MutationDone

(* The host, the loop and gremlins, under the check's timeout, go on. *)
MutationFairness ==
  WF_mutationVars(SelectionFails \/ NothingToMutate \/ Select \/ RunGremlins
                  \/ QueryFails \/ RunLonger \/ Judge \/ Conclude)

MutationSpec == MutationInit /\ [][MutationNext]_mutationVars /\ MutationFairness

-----------------------------------------------------------------------------
Statuses == {"KILLED", "LIVED", "TIMED OUT", "NOT COVERED", "SKIPPED"}

MutationTypeOK ==
  /\ stage \in {"idle", "start", "gremlins", "judge", "answered", "done"}
  /\ files \subseteq Files
  /\ changed \subseteq Lines
  /\ accepted \subseteq Entries
  /\ truth \in [Mutants -> Fates]
  /\ attempt \in 1..MaxRuns
  /\ coefficient \in Coefficient..2 * Floor
  /\ elapsed \in Elapsed \cup {0}
  /\ report = NoReport \/ report \in [Reported -> Statuses]
  /\ findings \subseteq ({"survived", "timeout"} \X Mutants)
                        \cup ({"ambiguous", "stale"} \X Entries)
  /\ incomplete \in BOOLEAN
  /\ status \in {"none", "broken", "passed", "failed", "incomplete", "error", "cancelled"}

(***************************************************************************)
(* What an entry really names, whatever a run reported.                    *)
(***************************************************************************)
Named(e, fates) == {m \in Matched(e) : truth[m] \in fates}
Excused(m) ==
  \E e \in accepted : m \in Matched(e) /\ {x.line : x \in Named(e, {"survives"})} = {m.line}

(***************************************************************************)
(* mutation.go:298-312: whatever the limits were and however often         *)
(* gremlins ran, a pass hides no survivor on a changed line, except one    *)
(* that an entry names without naming another, and keeps no entry that     *)
(* nothing needs any more.                                                 *)
(***************************************************************************)
PassMeansCaught ==
  status = "passed" =>
    /\ \A m \in Reported : truth[m] = "survives" /\ OnChange(m) => Excused(m)
    /\ \A e \in accepted : Considered(e) => Named(e, {"survives", "unjudged"}) # {}

(***************************************************************************)
(* docs/mutation.md "Outcomes" and "Timeouts": a survivor fails the check  *)
(* only where the change wrote; an entry is called stale only if no mutant *)
(* it names could survive; and a limit too short, under which caught       *)
(* mutants and survivors time out alike, never yields such a finding or a  *)
(* verdict, which rests on no timeout that is not a hang.                  *)
(***************************************************************************)
FindingsAreTrue ==
  /\ \A m \in Mutants : <<"survived", m>> \in findings => truth[m] = "survives" /\ OnChange(m)
  /\ \A e \in accepted : <<"stale", e>> \in findings => Named(e, {"survives", "unjudged"}) = {}
  /\ incomplete => status \notin {"passed", "failed"}
  /\ stage = "done" /\ status \in {"passed", "failed"} =>
       \A m \in TimedOut : truth[m] = "hangs"

(***************************************************************************)
(* mutation.go:510-513: a rerun whose coverage is up to twice as fast as   *)
(* the one that asked for it has a limit that can be trusted.              *)
(***************************************************************************)
RerunClearsFloor ==
  [][RunGremlins /\ attempt > 1 /\ elapsed' > 0 /\ 2 * elapsed' >= elapsed
       => elapsed' * coefficient >= Floor]_mutationVars

MutationOver == stage \in {"idle", "done"}
===============================================================================
