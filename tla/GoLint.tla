-------------------------------- MODULE GoLint --------------------------------
(***************************************************************************)
(* One go-lint check on the Dagger executor, run again after edits         *)
(* (runner/main.go, runner/community.go): the core linter, then the        *)
(* community linter built from the pinned rule modules, each a Staticcheck *)
(* process that guards its rules and keeps a package cache.  Dagger keeps  *)
(* what a finished step printed, whatever its exit code, and replays it    *)
(* for the same inputs unless the run is fresh.                            *)
(*                                                                         *)
(* The source is one package with at most one ignore directive; its text   *)
(* is what the build without tests compiles.  Staticcheck lints the        *)
(* package once without and, if it has tests, once with them.              *)
(***************************************************************************)
EXTENDS Integers, Sequences, FiniteSets

CONSTANTS
  Sources,    \* [text, tests, compiles, placed, packages, ragged, vendored, codes, plain,
              \*  tested, open]; placed: its compile error is printed with a position
  Configs,    \* [pin, checks, select, advisory, setting]
  Modules,    \* by pin: what the rule module of that version is
  Shipped,    \* the core rules that the toolchain selects, as patterns
  CoreRules,
  JudgedIn,   \* the build that decides a core rule, or "both"
  Printable,  \* the findings that the code of modules may print by itself
  NoModule, Unlinted, Unguarded,
  MaxTurns, MaxTroubles

ASSUME GoLintAssumption ==
  /\ MaxTurns \in Nat \ {0} /\ MaxTroubles \in Nat
  /\ \A c \in Configs : c.pin \in {NoModule} \cup DOMAIN Modules
  /\ {"core", NoModule} \cap DOMAIN Modules = {}
  /\ JudgedIn \in [CoreRules -> {"plain", "tested", "both"}]
  /\ \A s, t \in Sources : s.text = t.text =>
       /\ s.compiles = t.compiles /\ s.placed = t.placed
       /\ s.codes = t.codes /\ s.plain = t.plain /\ s.open = t.open
  /\ \A s \in Sources, r \in CoreRules :
       JudgedIn[r] = "tested" /\ s.tests /\ r \in s.plain => r \in s.tested

(* Codes that no rule has: Staticcheck's own, and the reserved namespaces. *)
ASSUME NamesAssumption ==
  /\ CoreRules \cap {"staticcheck", "mixed"} = {}
  /\ \A v \in DOMAIN Modules : Modules[v].rules \cap {"staticcheck", "mixed"} = {}

AllRules == CoreRules \cup UNION {Modules[v].rules : v \in DOMAIN Modules}
Results == [line : SUBSET AllRules, open : SUBSET AllRules]

ASSUME MarksAssumption ==
  Unlinted \notin Sources \cup Results /\ Unguarded \notin {"plain", "tested"}

VARIABLES
  code,          \* the source the check lints
  config,        \* the check's configuration
  fresh,         \* whether the run has a nonce
  lintStep,
  linter,        \* "core", or the version whose rules the binary holds
  found,         \* by build: what its rules reported, or Unlinted
  stuck,         \* the builds in which a rule failed, waiting for the guard
  guarded,       \* the first failure, or Unguarded
  process,       \* how the linter's process ended; added: the lines of its report that
                 \* Staticcheck did not print, which only the properties read
  coreFindings,
  conclusion,    \* the check's status and findings
  packageCache,  \* Staticcheck's caches
  layers,        \* the lint steps and builds whose results Dagger keeps
  turns, troubles

lintVars == <<code, config, fresh, lintStep, linter, found, stuck, guarded, process,
              coreFindings, conclusion, packageCache, layers, turns, troubles>>
askedVars == <<code, config, fresh, turns>>
processVars == <<found, stuck, guarded>>
keptVars == <<packageCache, layers>>

Finding(r, where, soft) == [rule |-> r, at |-> where, advisory |-> soft]
NoProcess == [exit |-> 0, report |-> "none", lines |-> {}, stderr |-> FALSE, added |-> {}]
Undecided == [status |-> "none", findings |-> {}]
Empty == [k \in {} |-> NoProcess]
With(kept, key, value) ==
  [k \in {key} \cup DOMAIN kept |-> IF k = key THEN value ELSE kept[k]]
NothingFound == [u \in {"plain", "tested"} |-> Unlinted]

-------------------------------------------------------------------------------
(* Selection: patterns apply in order, and the last one that matches wins. *)
Allowed(patterns, rule) ==
  LET hits == {i \in DOMAIN patterns : rule \in patterns[i].codes}
  IN hits # {} /\ patterns[CHOOSE i \in hits : \A j \in hits : j <= i].on

Matches(patterns, rules) == \A i \in DOMAIN patterns : patterns[i].codes \cap rules # {}

(* splitChecks: a pattern with "_" names community rules. *)
Core(checks) == SelectSeq(checks, LAMBDA p : ~p.community)
Community(checks) == SelectSeq(checks, LAMBDA p : p.community)

CoreChecks(c) == Shipped \o Core(c.checks)

(* resolver.current: an old name of a rule stands for its new one. *)
Current(patterns, v) ==
  LET renamed == Modules[v].renamed
      Name(n) == IF n \in DOMAIN renamed THEN renamed[n] ELSE n
  IN [i \in DOMAIN patterns |-> [patterns[i] EXCEPT !.codes = {Name(n) : n \in @}]]

Patterns(c, v) == Current(c.select \o Community(c.checks), v)
Selected(c, v) == {r \in Modules[v].rules : Allowed(Patterns(c, v), r)}
Advisory(c, v) == {r \in Modules[v].rules : Allowed(Current(c.advisory, v), r)}

(* load and resolve: the exports are valid, and every pattern matches a rule. *)
Resolves(c, v) ==
  /\ Modules[v].valid
  /\ Matches(Patterns(c, v), Modules[v].rules)
  /\ Matches(Current(c.advisory, v), Modules[v].rules)

(* What is linted: a source under a configuration, by one of the linters. *)
Lint(l) == [code |-> code, config |-> config, linter |-> l]

(* What a linter registers: only the selected rules. *)
Registered(x) ==
  IF x.linter = "core" THEN {r \in CoreRules : Allowed(CoreChecks(x.config), r)}
  ELSE Selected(x.config, x.linter)

(* Settings reach a module's rules only. *)
SettingOf(x) == IF x.linter = "core" THEN "none" ELSE x.config.setting

-------------------------------------------------------------------------------
Builds(s) == {"plain"} \cup IF s.tests THEN {"tested"} ELSE {}

(* A package's results are kept by the linter, its files and its rules, and *)
(* settingsCache gives each set of settings a cache of its own.             *)
(* MUTANT of PackageKey: settings share one cache. *)
PackageKeyOnly(x, u) ==
  [linter |-> x.linter, build |-> u, text |-> x.code.text,
   tests |-> IF u = "tested" THEN x.code.tested ELSE {},
   rules |-> Registered(x), setting |-> "any"]

PackageKey(x, u) ==
  [linter |-> x.linter, build |-> u, text |-> x.code.text,
   tests |-> IF u = "tested" THEN x.code.tested ELSE {},
   rules |-> Registered(x), setting |-> SettingOf(x)]

(* The community step has the module's options and its own checks as input. *)
LayerKey(x) ==
  IF x.linter = "core"
  THEN [linter |-> "core", code |-> x.code, checks |-> CoreChecks(x.config)]
  ELSE [linter |-> x.linter, code |-> x.code, checks |-> Community(x.config.checks),
        pin |-> x.config.pin, select |-> x.config.select, advisory |-> x.config.advisory,
        setting |-> x.config.setting]

(***************************************************************************)
(* perBuild: in the build that does not decide a rule, matchDirectives     *)
(* reports a finding under each directive that names it, and a rule that   *)
(* is judged without tests drops its own findings in the build with them.  *)
(***************************************************************************)
JudgedBy(l, r) == IF l = "core" THEN JudgedIn[r] ELSE "both"

InternalTests(s) == s.tests

UnderDirective(s, l, r, u) ==
  CASE JudgedBy(l, r) = "plain" /\ u = "tested" -> r \in s.codes
    [] JudgedBy(l, r) = "tested" /\ u = "plain" ->
         r \in s.plain \/ (r \in s.codes /\ InternalTests(s))
    [] OTHER -> r \in s[u]

Elsewhere(x, r, u) ==
  /\ <<r, x.linter, SettingOf(x)>> \in x.code.open
  /\ ~(JudgedBy(x.linter, r) = "plain" /\ u = "tested")

Analyzed(x, u) == [line |-> {r \in Registered(x) : UnderDirective(x.code, x.linter, r, u)},
                   open |-> {r \in Registered(x) : Elsewhere(x, r, u)}]

(* Staticcheck applies the directive in each build, and reports one that    *)
(* suppresses nothing though it names a registered rule.                    *)
IsAdvisory(x, r) == x.linter # "core" /\ r \in Advisory(x.config, x.linter)

(* advise: a stale directive is as advisory as all the rules it names. *)
StaleAdvisory(x) ==
  /\ x.linter # "core"
  /\ x.code.codes \subseteq Selected(x.config, x.linter) \cap Advisory(x.config, x.linter)

Directive(x, line) ==
  IF x.code.codes \cap Registered(x) # {} /\ x.code.codes \cap line = {}
  THEN {Finding("staticcheck", "line", StaleAdvisory(x))} ELSE {}

(* mixedAnalyzer and renamedAnalyzer, the community linter's own rules. *)
MixedDirective(s) == s.codes \cap CoreRules # {} /\ s.codes \ CoreRules # {}

OwnRules(x) ==
  IF x.linter = "core" THEN {}
  ELSE (IF MixedDirective(x.code) THEN {Finding("mixed", "line", FALSE)} ELSE {})
       \cup {Finding("renamed", "line", FALSE) :
               r \in x.code.codes \cap DOMAIN Modules[x.linter].renamed}

FindingsOf(x, rules, where) == {Finding(r, where, IsAdvisory(x, r)) : r \in rules}

Diagnostics(x, results) ==
  OwnRules(x) \cup UNION {Directive(x, results[u].line)
    \cup FindingsOf(x, results[u].line \ x.code.codes, "line")
    \cup FindingsOf(x, results[u].open, "elsewhere") : u \in Builds(x.code)}

(* checkExcluded: after the run, outside the cache, unless it exited with 2. *)
Excluded(x) ==
  IF x.linter = "core" /\ x.code.ragged /\ Allowed(CoreChecks(x.config), "format")
  THEN {Finding("format", "excluded", FALSE)} ELSE {}

Failing(lines) == \E f \in lines : ~f.advisory

-------------------------------------------------------------------------------
LintRest ==
  /\ code = Unlinted /\ config = Unlinted /\ fresh = FALSE
  /\ lintStep = "idle" /\ linter = "core" /\ found = NothingFound /\ stuck = {}
  /\ guarded = Unguarded /\ process = NoProcess /\ coreFindings = {} /\ conclusion = Undecided
  /\ packageCache = Empty /\ layers = Empty /\ turns = 0 /\ troubles = 0

LintInit ==
  /\ code \in Sources /\ config \in Configs /\ fresh \in BOOLEAN
  /\ lintStep = "parse" /\ linter = "core" /\ found = NothingFound /\ stuck = {}
  /\ guarded = Unguarded /\ process = NoProcess /\ coreFindings = {} /\ conclusion = Undecided
  /\ packageCache = Empty /\ layers = Empty /\ turns = 1 /\ troubles = 0

ConcludeLint(verdict, said) ==
  /\ lintStep' = "done"
  /\ conclusion' = [status |-> verdict, findings |-> said]

NextStep(step) == lintStep' = step /\ UNCHANGED conclusion

Trouble == troubles < MaxTroubles /\ troubles' = troubles + 1

(* goLint: malformed modules and checks, and misspelled core rules, end it. *)
ParseCheck ==
  /\ lintStep = "parse"
  /\ IF /\ config.pin = NoModule => Community(config.checks) = <<>>
        /\ Matches(Core(config.checks), CoreRules)
     THEN NextStep("start")
     ELSE ConcludeLint("error", {})
  /\ UNCHANGED <<askedVars, linter, processVars, process, coreFindings, keptVars, troubles>>

(***************************************************************************)
(* The step that runs a linter: replayed, or refused by what it finds      *)
(* before any rule runs, or started with the packages its cache holds.     *)
(* The community linter reports and exits at once if nothing is selected.  *)
(***************************************************************************)
Replayed == ~fresh /\ LayerKey(Lint(linter)) \in DOMAIN layers

Keep(p) == layers' = IF fresh THEN layers ELSE With(layers, LayerKey(Lint(linter)), p)

ReplayLint ==
  /\ lintStep = "start" /\ Replayed
  /\ process' = layers[LayerKey(Lint(linter))]
  /\ NextStep("judge")
  /\ UNCHANGED <<askedVars, linter, processVars, coreFindings, keptVars, troubles>>

NoPackages ==
  /\ lintStep = "start" /\ linter = "core" /\ ~code.packages
  /\ ConcludeLint("error", {})
  /\ UNCHANGED <<askedVars, linter, processVars, process, coreFindings, keptVars, troubles>>

RefuseRun ==
  /\ lintStep = "start" /\ ~Replayed /\ linter # "core"
  /\ ~Resolves(config, linter) \/ Selected(config, linter) = {}
  /\ process' = IF Resolves(config, linter) THEN [NoProcess EXCEPT !.report = "complete"]
                ELSE [NoProcess EXCEPT !.exit = 2, !.stderr = TRUE]
  /\ Keep(process') /\ UNCHANGED packageCache
  /\ NextStep("judge")
  /\ UNCHANGED <<askedVars, linter, processVars, coreFindings, troubles>>

StartRun ==
  /\ lintStep = "start" /\ ~Replayed
  /\ IF linter = "core" THEN code.packages
     ELSE Resolves(config, linter) /\ Selected(config, linter) # {}
  /\ found' = [u \in {"plain", "tested"} |->
                 LET key == PackageKey(Lint(linter), u)
                 IN IF ~fresh /\ u \in Builds(code) /\ key \in DOMAIN packageCache
                    THEN packageCache[key] ELSE Unlinted]
  /\ stuck' = {} /\ guarded' = Unguarded
  /\ NextStep("lint")
  /\ UNCHANGED <<askedVars, linter, process, coreFindings, keptVars, troubles>>

(* A build whose rules have all finished is cached, and none before. *)
Running(u) ==
  lintStep = "lint" /\ code.compiles /\ u \in Builds(code) \ stuck /\ found[u] = Unlinted

CachePackage(u, result) ==
  packageCache' = IF fresh THEN packageCache
                  ELSE With(packageCache, PackageKey(Lint(linter), u), result)

Analyze(u) ==
  /\ Running(u)
  /\ found' = [found EXCEPT ![u] = Analyzed(Lint(linter), u)]
  /\ CachePackage(u, Analyzed(Lint(linter), u))
  /\ UNCHANGED <<askedVars, lintStep, linter, stuck, guarded, process, coreFindings,
                 conclusion, layers, troubles>>

(* guard: a rule that returns an error or panics.  The first one stops the  *)
(* process, and those that fail meanwhile wait for its lock for ever.       *)
RuleFails(u) ==
  /\ Running(u) /\ Registered(Lint(linter)) # {} /\ Trouble
  /\ stuck' = stuck \cup {u}
  /\ guarded' = IF guarded = Unguarded THEN u ELSE guarded
  /\ UNCHANGED <<askedVars, lintStep, linter, found, process, coreFindings, conclusion, keptVars>>

EndProcess(p) ==
  /\ process' = p /\ Keep(p) /\ UNCHANGED packageCache
  /\ NextStep("judge")
  /\ UNCHANGED <<askedVars, linter, processVars, coreFindings>>

StopLinter ==
  /\ lintStep = "lint" /\ guarded # Unguarded
  /\ EndProcess(IF linter = "core"
                THEN [NoProcess EXCEPT !.exit = 2, !.stderr = TRUE]
                ELSE [NoProcess EXCEPT !.exit = 4, !.report = "failed"])
  /\ UNCHANGED troubles

(* A rule of a module may end the process, with any exit code. *)
RuleExits ==
  /\ linter # "core" /\ \E u \in Builds(code) : Running(u)
  /\ Trouble
  /\ \E exit \in {0, 1} : EndProcess([NoProcess EXCEPT !.exit = exit])

(***************************************************************************)
(* Staticcheck prints what it found, with exit code 1 if any of it fails   *)
(* the check; the core linter adds excluded files, unless go list fails;   *)
(* and the rules of modules may have printed findings of their own.        *)
(***************************************************************************)
Finished == lintStep = "lint" /\ (code.compiles => \A u \in Builds(code) : found[u] # Unlinted)

Printed(lines, stderr) ==
  [exit |-> IF Failing(lines) THEN 1 ELSE 0, lines |-> lines, stderr |-> stderr,
   report |-> IF linter = "core" THEN "none" ELSE "complete", added |-> {}]

(* A compile error has a position, or it has none, as when dependencies are *)
(* asked for export data.                                                   *)
CompileError(x) == Finding("compile", IF x.code.placed THEN "elsewhere" ELSE "nowhere", FALSE)

Told(x, results) ==
  IF x.code.compiles THEN Diagnostics(x, results) ELSE {CompileError(x)}

OwnLines == Told(Lint(linter), found)

FinishLint ==
  /\ Finished
  /\ EndProcess(Printed(OwnLines \cup Excluded(Lint(linter)), FALSE))
  /\ UNCHANGED troubles

ListExcludedFails ==
  /\ Finished /\ linter = "core" /\ Allowed(CoreChecks(config), "format") /\ Trouble
  /\ LET p == Printed(OwnLines, TRUE)
     IN EndProcess([p EXCEPT !.exit = IF @ = 0 THEN 2 ELSE @])

(* Through os.Stdout, where the exit code counts the finding, or not. *)
PrintsMore ==
  /\ Finished /\ linter # "core" /\ Trouble
  /\ \E f \in Printable : \E counted \in {OwnLines, OwnLines \cup {f}} :
       EndProcess([Printed(counted, FALSE) EXCEPT !.lines = OwnLines \cup {f}, !.added = {f}])

(* The engine loses the step: nothing of it is kept but the package cache. *)
LoseStep ==
  /\ lintStep = "lint" /\ Trouble
  /\ ConcludeLint("error", coreFindings)
  /\ UNCHANGED <<askedVars, linter, processVars, process, coreFindings, keptVars>>

-------------------------------------------------------------------------------
(* LintFindings: a result that does not agree with itself is an error. *)
CoreAgrees(p) ==
  /\ p.exit \in {0, 1} /\ ~p.stderr
  /\ \A f \in p.lines : Allowed(CoreChecks(config), f.rule) /\ f.at # "nowhere"
  /\ (p.exit = 1) = (p.lines # {})

StatusOfLint(said) == IF Failing(said) THEN "failed" ELSE "passed"

JudgeCore ==
  /\ lintStep = "judge" /\ linter = "core"
  /\ IF ~CoreAgrees(process) THEN ConcludeLint("error", {}) /\ UNCHANGED coreFindings
     ELSE /\ coreFindings' = process.lines
          /\ IF config.pin = NoModule
             THEN ConcludeLint(StatusOfLint(process.lines), process.lines)
             ELSE NextStep("build")
  /\ UNCHANGED <<askedVars, linter, processVars, process, keptVars, troubles>>

(***************************************************************************)
(* communityLint: a withdrawn pin is refused; then the linter is built,    *)
(* or an earlier build is used, and dependencies are downloaded.  A step   *)
(* that fails is not kept, so the next run tries it again.                 *)
(***************************************************************************)
Refused(v) == Modules[v].withdrawn

Built(v) == ~fresh /\ [built |-> v] \in DOMAIN layers

(* checkGoVersion, tidy and checkGoLine, checkPins, inspect.  The module    *)
(* graph may move a pin to another version.                                 *)
GoFits(v) == ~Modules[v].newerGo
TidyAccepts(v) == Modules[v].lvrules /\ ~Modules[v].unlisted
PinsHold(v) == Modules[v].resolves = v
Declares(v) == Modules[v].declares

BuildAccepts(v) == GoFits(v) /\ TidyAccepts(v) /\ PinsHold(v) /\ Declares(v)

CommunityFails == ConcludeLint("error", coreFindings)

BuildLinter ==
  /\ lintStep = "build"
  /\ LET v == config.pin
     IN IF Refused(v) \/ (~Built(v) /\ ~BuildAccepts(v))
        THEN CommunityFails /\ UNCHANGED <<linter, layers>>
        ELSE /\ linter' = Modules[v].resolves
             /\ layers' = IF fresh THEN layers ELSE With(layers, [built |-> v], NoProcess)
             /\ NextStep("download")
  /\ UNCHANGED <<askedVars, processVars, process, coreFindings, packageCache, troubles>>

DownloadDependencies ==
  /\ lintStep = "download"
  /\ NextStep("start")
  /\ UNCHANGED <<askedVars, linter, processVars, process, coreFindings, keptVars, troubles>>

(* The proxy cannot be reached: a vendored module does not need it. *)
ProxyDown ==
  /\ \/ lintStep = "build" /\ ~Built(config.pin)
     \/ lintStep = "download" /\ ~code.vendored
  /\ Trouble
  /\ CommunityFails
  /\ UNCHANGED <<askedVars, linter, processVars, process, coreFindings, keptVars>>

(* parseCommunity. *)
Reportable == Selected(config, linter) \cup {"mixed", "renamed", "staticcheck"}

CommunityAgrees(p) ==
  /\ p.report = "complete" /\ p.exit \in {0, 1} /\ ~p.stderr
  /\ \A f \in p.lines :
       /\ f.rule \in Reportable /\ f.at # "nowhere"
       /\ f.rule # "staticcheck" => f.advisory = IsAdvisory(Lint(linter), f.rule)
  /\ Failing(p.lines) = (p.exit = 1)

(***************************************************************************)
(* mergeFindings: at a directive that mixes, each linter reports the half  *)
(* it does not know as unused.  The source must confirm that it mixes      *)
(* before a core finding is dropped, as a rule can print "mixed" itself.   *)
(***************************************************************************)
StaleAt(f, community) ==
  f.rule = "staticcheck" /\ \E g \in community : g.rule = "mixed" /\ g.at = f.at

(* MUTANT of Merged: what a rule printed is taken for the source. *)
MergedUnconfirmed(core, community) ==
  {f \in core \cup community : ~StaleAt(f, community)}

Merged(core, community) ==
  {f \in core : ~(StaleAt(f, community) /\ MixedDirective(code))}
    \cup {f \in community : ~StaleAt(f, community)}

JudgeCommunity ==
  /\ lintStep = "judge" /\ linter # "core"
  /\ IF CommunityAgrees(process)
     THEN LET said == Merged(coreFindings, process.lines)
          IN ConcludeLint(StatusOfLint(said), said)
     ELSE CommunityFails
  /\ UNCHANGED <<askedVars, linter, processVars, process, coreFindings, keptVars, troubles>>

-------------------------------------------------------------------------------
(* The check runs again, with another source or configuration, or the same. *)
RunAgain ==
  /\ lintStep = "done" /\ turns < MaxTurns
  /\ \/ code' \in Sources /\ UNCHANGED config
     \/ config' \in Configs /\ UNCHANGED code
  /\ fresh' \in BOOLEAN /\ turns' = turns + 1
  /\ lintStep' = "parse" /\ linter' = "core"
  /\ found' = NothingFound /\ stuck' = {} /\ guarded' = Unguarded
  /\ process' = NoProcess /\ coreFindings' = {} /\ conclusion' = Undecided
  /\ UNCHANGED <<keptVars, troubles>>

LintOver == lintStep = "idle" \/ (lintStep = "done" /\ turns = MaxTurns)

LintSteps ==
  \/ ParseCheck \/ ReplayLint \/ NoPackages \/ RefuseRun \/ StartRun
  \/ \E u \in {"plain", "tested"} : Analyze(u) \/ RuleFails(u)
  \/ StopLinter \/ RuleExits \/ FinishLint \/ ListExcludedFails \/ PrintsMore \/ LoseStep
  \/ JudgeCore \/ BuildLinter \/ DownloadDependencies \/ ProxyDown \/ JudgeCommunity

LintNext ==
  \/ LintSteps
  \/ RunAgain
  \/ LintOver /\ UNCHANGED lintVars

LintSpec == LintInit /\ [][LintNext]_lintVars

-------------------------------------------------------------------------------
LintTypeOK ==
  /\ (lintStep = "idle") = (code = Unlinted)
  /\ lintStep # "idle" => code \in Sources /\ config \in Configs
  /\ fresh \in BOOLEAN
  /\ lintStep \in {"idle", "parse", "start", "lint", "judge", "build", "download", "done"}
  /\ linter \in {"core"} \cup DOMAIN Modules
  /\ stuck \subseteq {"plain", "tested"} /\ guarded \in {Unguarded} \cup stuck
  /\ (stuck = {}) = (guarded = Unguarded)
  /\ process.exit \in {0, 1, 2, 4} /\ process.report \in {"none", "failed", "complete"}
  /\ conclusion.status \in {"none", "passed", "failed", "error"}
  /\ turns \in 0..MaxTurns /\ troubles \in 0..MaxTroubles

(* What a linter says of a source, judged anew. *)
Deciding(x, r) ==
  IF x.linter = "core" /\ JudgedIn[r] # "both"
  THEN {IF x.code.tests THEN JudgedIn[r] ELSE "plain"}
  ELSE Builds(x.code)

Here(x, r) == \E u \in Deciding(x, r) : r \in x.code[u]
There(x, r) == <<r, x.linter, SettingOf(x)>> \in x.code.open

TrueFindingsOf(x) ==
  FindingsOf(x, {r \in Registered(x) \ x.code.codes : Here(x, r)}, "line")
    \cup FindingsOf(x, {r \in Registered(x) : There(x, r)}, "elsewhere")
    \cup IF Registered(x) = {} THEN {} ELSE OwnRules(x)

Linters == {"core"} \cup ({config.pin} \cap DOMAIN Modules)

(* What is true of a source: nothing, as far as rules go, if it does not    *)
(* compile, for then they never ran.                                        *)
TrueFindings ==
  (IF code.compiles THEN UNION {TrueFindingsOf(Lint(l)) : l \in Linters} ELSE {})
  \cup Excluded(Lint("core"))

Decided == conclusion.status \in {"passed", "failed"}

(***************************************************************************)
(* builds.go:16-31: a directive is reported as unused if, in a build that  *)
(* decides the rules it names, none of them matches it, and not because    *)
(* another build found nothing.  (A directive whose rules are decided in   *)
(* different builds is left out, as each build takes it to be the other's; *)
(* and so is what a community rule says of it on its own account.)         *)
(***************************************************************************)
OneBuild(s) == \A r, q \in s.codes \cap CoreRules : JudgedIn[r] = JudgedIn[q]

Unused(x) ==
  LET known == x.code.codes \cap Registered(x)
  IN known # {} /\ \E u \in Builds(x.code) :
       \A r \in known : u \in Deciding(x, r) /\ r \notin x.code[u]

SaysOf(r) == \E f \in conclusion.findings : f.rule = r

Complains(lines) == \E f \in lines : f.rule = "staticcheck"

DirectiveJudged ==
  (Decided /\ code.compiles /\ OneBuild(code) /\ ~SaysOf("mixed") /\ ~Complains(process.added)) =>
    (Complains(conclusion.findings) = \E l \in Linters : Unused(Lint(l)))

(***************************************************************************)
(* runner/main.go:191-201, lint.go:44-46, 130: a source that does not      *)
(* compile never passes, and is an error unless its compile error comes    *)
(* with a position and the checks select its code, as "all" does.          *)
(***************************************************************************)
BrokenIsRefused ==
  ~code.compiles =>
    /\ code.placed /\ Allowed(CoreChecks(config), "compile")
    /\ conclusion.status = "failed"

(***************************************************************************)
(* A verdict says of the source as it is, under the rules, settings and    *)
(* pins as they are, what every selected rule says of it, whatever earlier *)
(* runs left in the caches, and fails the check if any of it does.  Nobody *)
(* adds to it but rules of modules that print findings themselves, and     *)
(* stale complaints about directives, which are judged in the build that   *)
(* decides if nothing is taken from the caches.                            *)
(***************************************************************************)
FindingsAreCurrent ==
  Decided =>
    /\ conclusion.status = StatusOfLint(conclusion.findings)
    /\ TrueFindings \subseteq conclusion.findings
    /\ \A f \in conclusion.findings \ TrueFindings :
         f.rule = "staticcheck" \/ f \in process.added \/ (~code.compiles /\ f.rule = "compile")
    /\ BrokenIsRefused
    /\ fresh => DirectiveJudged

(***************************************************************************)
(* community.go:490-522, main.go:467-469: what the core linter found       *)
(* stands whatever becomes of the community linter and whatever its rules  *)
(* print, and a directive that mixes both is reported once, as mixed.      *)
(***************************************************************************)
CoreFindingsStand ==
  lintStep = "done" =>
    /\ \A f \in coreFindings \ conclusion.findings :
         MixedDirective(code) /\ Decided /\ f.rule = "staticcheck"
    /\ (Decided /\ \E f \in TrueFindings : f.rule = "mixed") =>
         \A f \in conclusion.findings : f.rule = "staticcheck" => f \in process.added
===============================================================================
