------------------------------- MODULE Baseline -------------------------------
(***************************************************************************)
(* The checked-in record of the findings a repository accepts for now.     *)
(*                                                                         *)
(* A finding is a code and a site, which stands for its file and           *)
(* normalized message.  A baseline is a function from keys (kind, target   *)
(* directory, code and site) to positive counts.  A result holds how often *)
(* each finding that can fail it occurs, "found", and the findings it      *)
(* reports as advisory.                                                    *)
(***************************************************************************)
EXTENDS Planner, FiniteSets, FiniteSetsExt

CONSTANTS Findings  \* [code, site] records

Key(p, f) == [kind |-> p.kind, dir |-> p.dir, code |-> f.code, site |-> f.site]

Completed(r) == r.status \in {"passed", "failed"}

(* A result this baseline judges. *)
JudgesUnfinished(p, r) == p.kind \in BaselineKinds
Judges(p, r) == p.kind \in BaselineKinds /\ Completed(r)

CouldReport(p, skipped, code) ==
  \/ p.kind # "go-lint"
  \/ code \notin CommunityCodes /\ code \notin p.decl.off
  \/ /\ code \in CommunityCodes /\ p.modules # {} /\ ~skipped
     /\ code \in LinterCodes \/ code \in CommunitySelection(p.modules, p.decl)

Reported(r, code) == \E f \in Findings : f.code = code /\ (r.found[f] > 0 \/ f \in r.advised)

SameTarget(p, k) == p.kind = k.kind /\ p.dir = k.dir

CoversSelected(p, r, k) == SameTarget(p, k) /\ CouldReport(p, r.skipped, k.code)
Covers(p, r, k) == SameTarget(p, k) /\ (Reported(r, k.code) \/ CouldReport(p, r.skipped, k.code))

Produces(p, k) == SameTarget(p, k) /\ CouldReport(p, p.executor = "native", k.code)

(* How many occurrences of a finding the entries the result covers accept. *)
Accepted(b, p, r, f) ==
  LET k == Key(p, f) IN IF k \in DOMAIN b /\ Covers(p, r, k) THEN b[k] ELSE 0

FoundOf(p, r, k) ==
  IF SameTarget(p, k) /\ [code |-> k.code, site |-> k.site] \in Findings
  THEN r.found[[code |-> k.code, site |-> k.site]] ELSE 0

(* The part of an entry a result that covers it leaves unused. *)
Unused(b, p, r, k) == LET n == b[k] - FoundOf(p, r, k) IN IF n > 0 THEN n ELSE 0

Covering(plan, results, k) ==
  {i \in DOMAIN plan : Judges(plan[i], results[i]) /\ Covers(plan[i], results[i], k)}

(* Entries every check that covers them left partly unused. *)
Stale(b, plan, results) ==
  {k \in DOMAIN b :
    LET judges == Covering(plan, results, k)
    IN judges # {} /\ \A i \in judges : Unused(b, plan[i], results[i], k) > 0}

(* Entries no check of the configuration could report, and none of the run did. *)
Orphaned(b, cfg, plan, results) ==
  {k \in DOMAIN b :
    /\ \A p \in ConfiguredChecks(cfg) : ~Produces(p, k)
    /\ \A i \in DOMAIN plan : ~Covers(plan[i], results[i], k)}

Exceeds(b, p, r) == \E f \in Findings : r.found[f] > Accepted(b, p, r, f)

(* Apply leaves a finding failing only where the entry's count is used up. *)
ApplyTo(b, plan, results, i) ==
  LET p == plan[i]
      r == results[i]
      stale == {k \in Stale(b, plan, results) : Min(Covering(plan, results, k)) = i}
  IN IF ~Judges(p, r) THEN r
     ELSE [r EXCEPT !.stale = stale,
                    !.found = [f \in Findings |-> Max({0, r.found[f] - Accepted(b, p, r, f)})],
                    !.status = IF Exceeds(b, p, r) \/ stale # {} THEN "failed" ELSE "passed"]

ReportStatus(results) ==
  IF results = <<>> THEN "incomplete"
  ELSE IF \A i \in DOMAIN results : results[i].status = "passed" THEN "passed" ELSE "failed"

Report(plan, results, orphans) ==
  [plan |-> plan, results |-> results, orphans |-> orphans,
   status |-> IF orphans # {} THEN "failed" ELSE ReportStatus(results)]

Apply(b, cfg, plan, results) ==
  Report(plan, [i \in DOMAIN plan |-> ApplyTo(b, plan, results, i)],
         Orphaned(b, cfg, plan, results))

(***************************************************************************)
(* Recording a run: what its checks found, and of the old entries those no *)
(* check of the run covers, unless they are orphaned.                      *)
(***************************************************************************)
Recordable(results) == results # <<>> /\ \A i \in DOMAIN results : Completed(results[i])

RecordOfKind(b, cfg, plan, results) ==
  LET judges == {i \in DOMAIN plan : plan[i].kind \in BaselineKinds}
      seen == {Key(plan[i], f) : i \in judges, f \in Findings}
      most(k) == Max({FoundOf(plan[i], results[i], k) : i \in judges})
      kept == {k \in DOMAIN b \ Orphaned(b, cfg, plan, results) :
                 \A i \in judges : ~SameTarget(plan[i], k)}
      found == {k \in seen : most(k) > 0}
  IN [k \in kept \cup found |-> IF k \in kept THEN b[k] ELSE most(k)]

Record(b, cfg, plan, results) ==
  LET judges == {i \in DOMAIN plan : plan[i].kind \in BaselineKinds}
      seen == {Key(plan[i], f) : i \in judges, f \in Findings}
      most(k) == Max({FoundOf(plan[i], results[i], k) : i \in judges})
      kept == {k \in DOMAIN b \ Orphaned(b, cfg, plan, results) : Covering(plan, results, k) = {}}
      found == {k \in seen : most(k) > 0}
  IN [k \in kept \cup found |-> IF k \in kept THEN b[k] ELSE most(k)]

(***************************************************************************)
(* An error annotation: a finding that fails the run, a stale entry, a     *)
(* check with no finding to show for its status, an orphaned entry.        *)
(***************************************************************************)
FailingFindings(r) == r.stale # {} \/ \E f \in Findings : r.found[f] > 0

ErrorAnnotated(report) ==
  \/ report.orphans # {}
  \/ \E i \in DOMAIN report.results :
       LET r == report.results[i]
       IN FailingFindings(r) \/ ~Completed(r) \/ (r.status = "failed" /\ ~FailingFindings(r))
===============================================================================
