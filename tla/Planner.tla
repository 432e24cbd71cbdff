-------------------------------- MODULE Planner --------------------------------
(***************************************************************************)
(* From levenshtein.json to the plan of one run: which checks the run      *)
(* references, whether each one is declared in a way its executor can run, *)
(* and the rule modules it takes along.  Planning starts nothing.          *)
(*                                                                         *)
(* What a field must look like (a path, a duration, a branch name, a       *)
(* pattern) is one fact about the declaration, "malformed": the set of the *)
(* option objects, stages and target fields that are not well formed.      *)
(***************************************************************************)
EXTENDS Integers, Sequences, SequencesExt

CONSTANTS
  CommunityCodes,  \* the codes of rule modules and of the community linter
  Namespace,       \* the namespace of each of them, the kind of any other code
  Slashed          \* the target names that contain a slash

LinterCodes == {c \in CommunityCodes : Namespace[c] = "lvrules"}

SharedKinds ==
  {"go-lint", "go-vet", "go-mod", "go-test", "go-vuln", "workflow-lint",
   "workflow-security", "shell-lint", "secrets", "deps-vuln", "go-imports",
   "go-generate", "go-apidiff"}
DaggerKinds == SharedKinds \cup {"go-http", "go-sql", "self-test", "go-mutation"}
NativeKinds == SharedKinds \cup {"command", "semantic-lint"}
BaselineKinds == {"go-lint", "go-http", "go-sql", "shell-lint", "go-imports"}
RootKinds == {"workflow-lint", "workflow-security", "shell-lint", "secrets", "deps-vuln"}
FreshKinds == {"go-mod", "go-vuln", "deps-vuln"}

(* The one kind that may carry each options object. *)
OwnerOf == [command |-> "command", semantic |-> "semantic-lint",
            mutation |-> "go-mutation", lint |-> "go-lint",
            imports |-> "go-imports", apidiff |-> "go-apidiff"]

(***************************************************************************)
(* Rule modules: a pin, a namespace of its own and a selection in it.      *)
(***************************************************************************)
UsesRuleModules(d) == d.kind = "go-lint" /\ ~d.coreOnly

PlannedModules(cfg, d) == IF UsesRuleModules(d) THEN cfg.modules ELSE {}

CommunitySelection(modules, d) ==
  (UNION {m.select : m \in modules} \cup d.on) \ d.off

ValidModule(m) == m.pinned /\ m.namespace # "lvrules" /\ m.select # {}

ValidModules(cfg) ==
  LET decls == {cfg.checks[id] : id \in DOMAIN cfg.checks}
      named(d) == (d.on \cup d.off) \cap CommunityCodes
  IN /\ \A m \in cfg.modules : ValidModule(m)
     /\ \A m, n \in cfg.modules : m.namespace = n.namespace => m = n
     /\ \A d \in decls :
          /\ named(d) # {} => UsesRuleModules(d)
          /\ \A c \in named(d) : \E m \in cfg.modules : m.namespace = Namespace[c]
     /\ \A c \in UNION {m.advisory : m \in cfg.modules} :
          \E d \in decls : UsesRuleModules(d) /\ c \in CommunitySelection(cfg.modules, d)

(***************************************************************************)
(* A declaration may carry one options object, the one of its kind, and    *)
(* runs on an executor that has the kind.                                  *)
(***************************************************************************)
Needs(d, object) == object \in d.options /\ object \notin d.malformed

ValidDagger(d) ==
  /\ d.kind \in DaggerKinds
  /\ d.options \cap {"command", "semantic"} = {}
  /\ d.env = {}
  /\ "mutation" \notin d.malformed

ValidCommand(d) ==
  /\ "semantic" \notin d.options
  /\ Needs(d, "command")
  /\ d.cache => "identity" \in d.env /\ d.rerunArgs

ValidSemantic(d) ==
  "command" \notin d.options /\ "credentials" \notin d.env /\ "semantic" \notin d.malformed

ValidNative(d) ==
  /\ d.kind \in NativeKinds
  /\ "env" \notin d.malformed
  /\ CASE d.kind = "command" -> ValidCommand(d)
       [] d.kind = "semantic-lint" -> ValidSemantic(d)
       [] OTHER -> d.options \cap {"command", "semantic"} = {}

ValidCheck(d) ==
  /\ \A o \in d.options \ {"command", "semantic"} : OwnerOf[o] = d.kind
  /\ {"lint", "apidiff"} \cap d.malformed = {}
  /\ d.kind = "go-imports" => Needs(d, "imports")
  /\ \/ d.executor = "dagger" /\ ValidDagger(d)
     \/ d.executor = "native" /\ ValidNative(d)

(* A fresh run executes verification, so a command has to say what bypasses its cache. *)
RerunAlways(d) == TRUE
RerunReady(d) == d.kind = "command" => "command" \in d.options /\ d.rerunArgs

(* Only a command names stages, and a named stage is whole. *)
ResolvedStages(d) == "command" \in d.options => d.stage \in {"none", "whole"}

ValidTarget(d, t) ==
  /\ t.there /\ t.inputs # "none"
  /\ d.executor = "dagger" => t.inputs = "literal"
  /\ d.kind \in RootKinds => t.dir = "."

PlanCheck(cfg, d, name, rerun) ==
  /\ name \in DOMAIN cfg.targets
  /\ ValidCheck(d)
  /\ ~(cfg.version = 2 /\ d.executor = "native" /\ PlannedModules(cfg, d) # {})
  /\ rerun /\ d.executor = "native" => RerunReady(d)
  /\ ValidTarget(d, cfg.targets[name])
  /\ ResolvedStages(d)

(***************************************************************************)
(* A reference is a check's ID, which takes every target it declares, or   *)
(* "<id>/<target>", which ends at its last slash; an ID that reads as both *)
(* is the check's.                                                         *)
(***************************************************************************)
Bindings(cfg) ==
  UNION {{[id |-> id \o "/" \o name, check |-> id, target |-> name] :
            name \in ToSet(cfg.checks[id].targets)} : id \in DOMAIN cfg.checks}

ValidTargets(d) ==
  IsInjective(d.targets) /\ (IF d.single THEN Len(d.targets) = 1 ELSE d.targets # <<>>)

Selections(cfg, ref) ==
  IF ref \in DOMAIN cfg.checks
  THEN LET d == cfg.checks[ref]
       IN [i \in DOMAIN d.targets |->
            [id |-> IF d.single THEN ref ELSE ref \o "/" \o d.targets[i],
             check |-> ref, target |-> d.targets[i]]]
  ELSE SetToSeq({s \in Bindings(cfg) :
                   /\ s.id = ref /\ s.check # "" /\ s.target \notin Slashed
                   /\ ~cfg.checks[s.check].single})

PlannedCheck(cfg, s) ==
  LET d == cfg.checks[s.check]
  IN [id |-> s.id, kind |-> d.kind, executor |-> d.executor,
      dir |-> cfg.targets[s.target].dir, inputs |-> cfg.targets[s.target].inputs,
      modules |-> PlannedModules(cfg, d), decl |-> d]

(* The plan of a run of these references, or <<>> for any configuration error. *)
Plan(cfg, refs, rerun) ==
  LET parts == [i \in DOMAIN refs |-> Selections(cfg, refs[i])]
      all == FlattenSeq(parts)
  IN IF /\ refs # <<>> /\ ValidModules(cfg)
        /\ \A i \in DOMAIN parts : parts[i] # <<>>
        /\ IsInjective([i \in DOMAIN all |-> all[i].id])
        /\ \A i \in DOMAIN all : ValidTargets(cfg.checks[all[i].check])
        /\ \A i \in DOMAIN all : PlanCheck(cfg, cfg.checks[all[i].check], all[i].target, rerun)
     THEN [i \in DOMAIN all |-> PlannedCheck(cfg, all[i])]
     ELSE <<>>

(* A rule module version the shared checkout's release lists as withdrawn. *)
Withdrawn(plan) == \E i \in DOMAIN plan : \E m \in plan[i].modules : m.withdrawn

(* Every declared check at each of its declared targets, validated or not. *)
ConfiguredChecks(cfg) ==
  {PlannedCheck(cfg, s) : s \in {b \in Bindings(cfg) : b.target \in DOMAIN cfg.targets}}

(***************************************************************************)
(* What the executors themselves refuse when a check reaches them.         *)
(***************************************************************************)
RefusedNatively(p) ==
  \/ p.kind \notin NativeKinds
  \/ p.kind = "command" /\ "command" \notin p.decl.options
  \/ p.kind = "go-imports" /\ "imports" \notin p.decl.options

RefusedByDagger(p) ==
  \/ p.kind \notin DaggerKinds
  \/ p.kind = "go-imports" /\ "imports" \notin p.decl.options
  \/ p.inputs # "literal"

Refused(p) ==
  IF p.executor = "native" THEN RefusedNatively(p) ELSE RefusedByDagger(p)

(* A fresh command runs its fresh variant, and its plain arguments without one. *)
RunsFresh(p) == p.kind = "command" => p.decl.rerunArgs

(* A native go-lint check leaves its rule modules out, with a warning. *)
SkipsModules(p) == p.executor = "native" /\ p.modules # {}
================================================================================
