------------------------------ MODULE CommandLine ------------------------------
(***************************************************************************)
(* The verify command over one source repository: the flags it accepts,    *)
(* the plan, the baseline it reads before anything runs, the run, and what *)
(* becomes of the report: an exit code and a rewritten baseline file.      *)
(*                                                                         *)
(* Between steps the source is edited, and the configuration and the       *)
(* baseline file are edited by hand while no command runs.  Two terminals  *)
(* may run it at once.  "debt" is what the tools would find: for each      *)
(* target directory, how often each finding occurs.                        *)
(***************************************************************************)
EXTENDS Baseline

CONSTANTS
  Users,      \* the terminals
  Configs,    \* the configurations levenshtein.json may hold
  Drafts,     \* further ones it may start with
  HandFiles,  \* the baseline files somebody may write by hand
  Debts,      \* the values of debt
  Requests,   \* [refs, rerun]: what a run of the configuration references
  FlagSets,   \* the sets of flags that are given; "astray": there is no
              \* --shared checkout, or the cache directory lies in a checkout
  Renamed,    \* Renamed[c]: the old codes that also select rule c
  Malformed,  \* a baseline file that does not parse
  MaxInvoke   \* bound on the invocations

ASSUME CommandLineAssumption ==
  /\ MaxInvoke \in Nat /\ Malformed \notin HandFiles
  /\ FlagSets \subseteq SUBSET {"dry", "write", "ignore", "render", "format", "astray"}

(* What the files hold: a check names its targets, a debt counts findings *)
(* in every target directory, and a baseline's entries promise some.       *)
ASSUME FilesAssumption ==
  /\ \A c \in Configs \cup Drafts :
       /\ IsFiniteSet(DOMAIN c.checks)
       /\ \A id \in DOMAIN c.checks : c.checks[id].targets \in Seq(STRING)
       /\ \A d \in Debts, t \in DOMAIN c.targets : d[c.targets[t].dir] \in [Findings -> Nat]
  /\ \A r \in Requests : r.refs \in Seq(STRING)
  /\ \A b \in HandFiles : \A k \in DOMAIN b : b[k] \in Nat \ {0}
  /\ \A f \in Findings : f = [code |-> f.code, site |-> f.site]

VARIABLES
  cfg,       \* the configuration on disk
  debt,
  file,      \* the baseline file, or Malformed
  invoked,
  job        \* job[u]: the command of a terminal

vars == <<cfg, debt, file, invoked, job>>

Idle == [phase |-> "idle", flags |-> {}, request |-> <<>>, cfg |-> <<>>, plan |-> <<>>,
         loaded |-> <<>>, results |-> <<>>, seen |-> <<>>, code |-> 0]

Applies(j) == j.cfg.baseline /\ {"ignore", "write"} \cap j.flags = {}

(* A draft is planned and run once, with the first debt there is. *)
Init ==
  /\ cfg \in Configs \cup Drafts /\ debt \in Debts /\ file = <<>>
  /\ invoked = IF cfg \in Configs THEN 0 ELSE MaxInvoke - 1
  /\ cfg \notin Configs => debt = CHOOSE d \in Debts : TRUE
  /\ job = [u \in Users |-> Idle]

(***************************************************************************)
(* parseArgs: flag combinations that would mean nothing are refused.       *)
(***************************************************************************)
CheckModes(flags) ==
  /\ "render" \in flags => flags \subseteq {"render", "format", "astray"}
  /\ "dry" \in flags => {"format", "write"} \cap flags = {}
  /\ ~({"write", "ignore"} \subseteq flags)

Exit(u, n) == job' = [job EXCEPT ![u] = [Idle EXCEPT !.code = n]]

(* A saved report is rendered, or is no report; nothing runs. *)
Invoke(u) ==
  /\ job[u].phase = "idle" /\ invoked < MaxInvoke
  /\ invoked' = invoked + 1
  /\ \E flags \in FlagSets, request \in Requests :
       IF ~CheckModes(flags) THEN Exit(u, 2)
       ELSE IF "render" \in flags THEN \E n \in {0, 2} : Exit(u, n)
       ELSE job' = [job EXCEPT ![u] = [Idle EXCEPT !.phase = "parsed", !.flags = flags,
                                                   !.request = request]]
  /\ UNCHANGED <<cfg, debt, file>>

(***************************************************************************)
(* Planning.  Everything wrong with the configuration, the baseline file   *)
(* or the flags ends the command here, before any check runs.              *)
(***************************************************************************)
Prepare(u) ==
  LET j == job[u]
      plan == Plan(cfg, j.request.refs, j.request.rerun)
      reads == Applies([j EXCEPT !.cfg = cfg]) \/ "write" \in j.flags
      refused == \/ plan = <<>>
                 \/ "write" \in j.flags /\ ~cfg.baseline
                 \/ "dry" \notin j.flags /\ Withdrawn(plan)
                 \/ "dry" \notin j.flags /\ reads /\ file = Malformed
                 \/ "dry" \notin j.flags /\ "astray" \in j.flags
      started == [j EXCEPT !.phase = "running", !.cfg = cfg, !.plan = plan,
                           !.loaded = IF reads THEN file ELSE <<>>]
  IN /\ j.phase = "parsed"
     /\ IF refused THEN Exit(u, 2)
        ELSE IF "dry" \in j.flags THEN Exit(u, 0)
        ELSE job' = [job EXCEPT ![u] = started]
     /\ UNCHANGED <<cfg, debt, file, invoked>>

(***************************************************************************)
(* The run, of which only the results matter here.  A rule's findings are  *)
(* reported when the check runs it, and a renamed rule runs under the old  *)
(* code that selects it.                                                   *)
(***************************************************************************)
Runs(p, c) ==
  IF p.kind # "go-lint" \/ c \notin CommunityCodes
  THEN Namespace[c] = p.kind /\ CouldReport(p, FALSE, c)
  ELSE \E old \in {c} \cup Renamed[c] : CouldReport(p, SkipsModules(p), old)

Advisory(p, c) == c \in UNION {m.advisory : m \in p.modules}

ResultOf(p, status) ==
  LET occurs(f) == IF Runs(p, f.code) THEN debt[p.dir][f] ELSE 0
      found == [f \in Findings |-> IF Advisory(p, f.code) THEN 0 ELSE occurs(f)]
      none == [f \in Findings |-> 0]
  IN [status |-> IF status # "completed" THEN status
                 ELSE IF found = none THEN "passed" ELSE "failed",
      found |-> IF status = "completed" THEN found ELSE none,
      advised |-> {f \in Findings : status = "completed" /\ Advisory(p, f.code) /\ occurs(f) > 0},
      skipped |-> SkipsModules(p), stale |-> {}]

Execute(u) ==
  LET plan == job[u].plan
  IN /\ job[u].phase = "running"
     /\ \E ended \in {"error", "cancelled"}, stuck \in SUBSET DOMAIN plan :
          job' = [job EXCEPT ![u].phase = "finished", ![u].seen = debt,
                    ![u].results = [i \in DOMAIN plan |->
                      ResultOf(plan[i], IF Refused(plan[i]) THEN "error"
                                        ELSE IF i \in stuck THEN ended ELSE "completed")]]
     /\ UNCHANGED <<cfg, debt, file, invoked>>

(***************************************************************************)
(* The report: the baseline applied, rendered, and recorded when asked.    *)
(***************************************************************************)
ReportOf(j) ==
  IF Applies(j) THEN Apply(j.loaded, j.cfg, j.plan, j.results) ELSE Report(j.plan, j.results, {})

(* Rendering the report or writing the baseline may fail. *)
Finish(u) ==
  LET j == job[u]
      report == ReportOf(j)
      records == "write" \in j.flags /\ Recordable(j.results)
      passes == IF "write" \in j.flags THEN records ELSE report.status = "passed"
  IN /\ j.phase = "finished"
     /\ \/ /\ Exit(u, IF passes THEN 0 ELSE 1)
           /\ file' = IF records THEN Record(j.loaded, j.cfg, j.plan, j.results) ELSE file
        \/ Exit(u, 2) /\ file' = file
     /\ UNCHANGED <<cfg, debt, invoked>>

(* Work on the source, and edits of the two files between commands. *)
EditSource == debt' \in Debts \ {debt} /\ UNCHANGED <<cfg, file, invoked, job>>

EditFiles ==
  /\ \A u \in Users : job[u].phase = "idle"
  /\ \/ cfg' \in Configs \ {cfg} /\ file' = file
     \/ file' \in (HandFiles \cup {Malformed}) \ {file} /\ cfg' = cfg
  /\ UNCHANGED <<debt, invoked, job>>

(* An editor that does not stop would hide that the commands are used up. *)
Next ==
  \/ \E u \in Users : Invoke(u) \/ Prepare(u) \/ Execute(u) \/ Finish(u)
  \/ invoked < MaxInvoke /\ (EditSource \/ EditFiles)
  \/ /\ invoked = MaxInvoke /\ \A u \in Users : job[u].phase = "idle"
     /\ UNCHANGED vars

Spec == Init /\ [][Next]_vars

(***************************************************************************)
(* Properties                                                              *)
(***************************************************************************)
Ends(u) == job[u].phase = "finished" /\ job'[u].phase = "idle"

(* The run of these references once more, over the same source. *)
Again(j, b) == Apply(b, j.cfg, j.plan, j.results)

(***************************************************************************)
(* A run that exits 0 after recording the baseline passes when repeated    *)
(* over the same source: what Record writes is what Apply accepts, with no *)
(* entry left stale or orphaned, whichever checks share a kind and a       *)
(* target and whatever rules each of them runs (baseline.go).              *)
(***************************************************************************)
RecordThenPass ==
  [][\A u \in Users :
      Ends(u) /\ "write" \in job[u].flags /\ job'[u].code = 0 =>
        LET j == job[u]
            kinds == \A i \in DOMAIN j.plan : j.plan[i].kind \in BaselineKinds
            again == Again(j, file')
        IN /\ again.orphans = {}
           /\ \A i \in DOMAIN again.results : again.results[i].stale = {}
           /\ kinds => again.status = "passed"]_vars

(***************************************************************************)
(* A run that applied the baseline and exits 0 hides nothing: every check  *)
(* reached a verdict, no finding occurs more often than the file accepts   *)
(* in that directory, and no entry the run judges promises more findings   *)
(* than some check still reports.  The annotations, which render.go        *)
(* decides separately, tell the same status.                               *)
(***************************************************************************)
PassHidesNothing ==
  [][\A u \in Users : LET j == job[u] IN
      /\ job'[u].phase = "finished" =>
           LET report == ReportOf(job'[u])
           IN ErrorAnnotated(report) <=> report.status # "passed"
      /\ Ends(u) /\ Applies(j) /\ job'[u].code = 0 =>
        /\ \A i \in DOMAIN j.plan :
             LET p == j.plan[i]
             IN /\ Completed(j.results[i])
                /\ \A f \in Findings :
                     Runs(p, f.code) /\ ~Advisory(p, f.code) =>
                       LET k == Key(p, f)
                       IN j.seen[p.dir][f] <= IF p.kind \in BaselineKinds /\ k \in DOMAIN j.loaded
                                              THEN j.loaded[k] ELSE 0
        /\ \A k \in DOMAIN j.loaded :
             LET judges == Covering(j.plan, j.results, k)
             IN judges # {} =>
                  \E i \in judges : FoundOf(j.plan[i], j.results[i], k) >= j.loaded[k]]_vars

(***************************************************************************)
(* Recording a run replaces what the run judged and nothing else: an entry *)
(* of another kind or directory, or of a rule no check of the run ran,     *)
(* stays as it is in the file, unless nothing configured could report it.  *)
(* docs/configuration.md:228: "Entries for a kind and target directory the *)
(* run did not cover are kept as they were".                               *)
(***************************************************************************)
RecordKeepsUnjudged ==
  [][\A u \in Users : LET j == job[u] IN
      Ends(u) /\ file' # file =>
        \A k \in DOMAIN file :
             /\ \A i \in DOMAIN j.plan : ~Covers(j.plan[i], j.results[i], k)
             /\ \E p \in ConfiguredChecks(j.cfg) : Produces(p, k)
             => k \in DOMAIN file' /\ file'[k] = file[k]]_vars

(***************************************************************************)
(* Planning refuses what would go wrong in the run: no planned check is    *)
(* one its executor rejects, a fresh run runs every command's fresh        *)
(* variant, and in a version 2 configuration no check leaves out the rule  *)
(* modules it is planned with (plan.go against native.go and dagger.go).   *)
(***************************************************************************)
PlanIsHonest ==
  \A u \in Users : job[u].phase \in {"running", "finished"} =>
    \A i \in DOMAIN job[u].plan :
      LET p == job[u].plan[i]
      IN /\ ~Refused(p)
         /\ job[u].request.rerun /\ p.executor = "native" => RunsFresh(p)
         /\ job[u].cfg.version = 2 => ~SkipsModules(p)
================================================================================
