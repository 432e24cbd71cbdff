----------------------------- MODULE EngineCaches ------------------------------
(***************************************************************************)
(* Steps of the Dagger module and the Go caches they share on an engine    *)
(* (runner/checks.go, gocheck.go, mutation.go).  Tools are built in one    *)
(* set of volumes and a repository's code runs with another, which it may  *)
(* change; before it is compiled, go mod verify compares the module cache  *)
(* with what was downloaded.  The engine keeps what finished commands      *)
(* printed, whatever their exit code, and replays it for the same inputs.  *)
(***************************************************************************)
EXTENDS Integers

CONSTANTS
  Jobs,          \* [repo, kind, keyed, vendored, source]
  Jointly,       \* the sets of jobs that share an engine
  MaxRounds,     \* how often a job is started
  MaxLosses      \* interrupts, failures and prunes

ASSUME EngineCachesAssumption ==
  /\ Jointly \subseteq SUBSET Jobs /\ MaxRounds \in Nat /\ MaxLosses \in Nat
  /\ \A j \in Jobs :
       /\ j.kind \in {"go-test", "go-generate", "go-vuln"}
       /\ {j.keyed, j.vendored} \subseteq BOOLEAN
       /\ j.repo \notin {"tools", "unkeyed", "sound", "none"}

VARIABLES
  jobStep,       \* by job: where it is
  nonced,        \* the jobs whose run has a nonce
  rounds,        \* by job: how often it was started
  volumes,       \* by scope: "sound", or the repository whose code changed it
  verifications, \* what of the module caches' verifications is kept
  stepsKept,     \* what of the steps is kept
  advisories,    \* the age of the advisory data
  askedAt,       \* by job: that age when it was started
  compiledFrom,  \* by job: what its tool and its step were compiled from
  heard,         \* by job: whether its tool answered, or an error, and when
  exposed,       \* the jobs that were verified before code changed their volume
  losses

engineVars == <<jobStep, nonced, rounds, volumes, verifications, stepsKept, advisories,
                askedAt, compiledFrom, heard, exposed, losses>>
engineData == <<volumes, verifications, stepsKept, exposed>>

RunsItsCode(j) == j.kind # "go-vuln"
BuildsTool(j) == j.kind # "go-test"

(* repositoryScope, untrustedCaches: a call without a key shares a scope. *)
JobScope(j) ==
  IF ~RunsItsCode(j) THEN "tools" ELSE IF j.keyed THEN j.repo ELSE "unkeyed"
ToolScope(j) == "tools"

Scopes == {"tools", "unkeyed"} \cup {j.repo : j \in Jobs}

(* MUTANT of Verification: the step it guards is not among its arguments. *)
VerificationOfSource(j) == [repo |-> j.repo, source |-> j.source]

Verification(j) == j

(* What the engine keeps, with one more answer for these inputs. *)
Kept(answers, inputs, answer) ==
  [k \in DOMAIN answers \cup {inputs} |-> IF k = inputs THEN answer ELSE answers[k]]

NoWord == [status |-> "none", age |-> 0]
NotCompiled == [tool |-> "none", step |-> "none"]
-------------------------------------------------------------------------------
EngineRest ==
  /\ nonced = {} /\ rounds = [j \in Jobs |-> 0]
  /\ volumes = [s \in Scopes |-> "sound"]
  /\ verifications = [k \in {} |-> "sound"] /\ stepsKept = [k \in {} |-> NoWord]
  /\ advisories = 0 /\ askedAt = [j \in Jobs |-> 0]
  /\ compiledFrom = [j \in Jobs |-> NotCompiled] /\ heard = [j \in Jobs |-> NoWord]
  /\ exposed = {} /\ losses = 0

Summon(some) == jobStep = [j \in Jobs |-> IF j \in some THEN "start" ELSE "idle"]

JobGoto(j, step) == jobStep' = [jobStep EXCEPT ![j] = step] /\ UNCHANGED heard

SayJob(j, word) ==
  /\ jobStep' = [jobStep EXCEPT ![j] = "done"]
  /\ heard' = [heard EXCEPT ![j] = word]

JobError == [NoWord EXCEPT !.status = "error"]
Lose == losses < MaxLosses /\ losses' = losses + 1

(* SharedCheck: what depends on more than the source needs a nonce, so that *)
(* no earlier run answers it.                                               *)
Answerable(j) == j.kind = "go-vuln" => j \in nonced'

StartJob(j) ==
  /\ jobStep[j] = "start" /\ rounds[j] < MaxRounds
  /\ rounds' = [rounds EXCEPT ![j] = @ + 1]
  /\ askedAt' = [askedAt EXCEPT ![j] = advisories]
  /\ compiledFrom' = [compiledFrom EXCEPT ![j] = NotCompiled]
  /\ nonced' \in {nonced \cup {j}, nonced \ {j}}
  /\ IF Answerable(j) THEN JobGoto(j, IF BuildsTool(j) THEN "build" ELSE "verify")
     ELSE SayJob(j, JobError)
  /\ UNCHANGED <<engineData, advisories, losses>>

(* pinnedToolBinary, gocheckerBinary: built apart, with the tools' caches. *)
BuildTool(j) ==
  /\ jobStep[j] = "build"
  /\ compiledFrom' = [compiledFrom EXCEPT ![j].tool = volumes[ToolScope(j)]]
  /\ JobGoto(j, IF RunsItsCode(j) THEN "verify" ELSE "run")
  /\ UNCHANGED <<nonced, rounds, engineData, advisories, askedAt, losses>>

(***************************************************************************)
(* verifyModuleCache: replayed, or run.  A vendored module compiles what   *)
(* its source holds.                                                       *)
(***************************************************************************)
Replays(j) == j \notin nonced /\ Verification(j) \in DOMAIN verifications

VerifyModuleCache(j) ==
  /\ jobStep[j] = "verify"
  /\ LET content == IF Replays(j) THEN verifications[Verification(j)] ELSE volumes[JobScope(j)]
     IN /\ verifications' = IF j.vendored \/ j \in nonced THEN verifications
                            ELSE Kept(verifications, Verification(j), content)
        /\ exposed' = IF content = "sound" /\ ~Replays(j) THEN exposed \ {j} ELSE exposed
        /\ IF j.vendored \/ content = "sound" THEN JobGoto(j, "run") ELSE SayJob(j, JobError)
  /\ UNCHANGED <<nonced, rounds, volumes, stepsKept, advisories, askedAt, compiledFrom,
                 losses>>

ReplayStep(j) ==
  /\ jobStep[j] = "run" /\ j \notin nonced /\ j \in DOMAIN stepsKept
  /\ SayJob(j, stepsKept[j])
  /\ UNCHANGED <<nonced, rounds, engineData, advisories, askedAt, compiledFrom, losses>>

(***************************************************************************)
(* A repository's code may change the volume it runs with, beneath jobs    *)
(* that are verified, and those whose verification alone is kept when it   *)
(* is done: its own too, when its run has a nonce or does not finish.      *)
(***************************************************************************)
JobVerified(j, others) ==
  \/ jobStep[j] = "run" /\ j \in others
  \/ j \in DOMAIN verifications /\ j \notin DOMAIN stepsKept'

ChangeVolume(j, others) ==
  \/ UNCHANGED <<volumes, exposed>>
  \/ /\ RunsItsCode(j)
     /\ volumes' = [volumes EXCEPT ![JobScope(j)] = j.repo]
     /\ exposed' = exposed \cup {d \in Jobs : JobScope(d) = JobScope(j) /\ JobVerified(d, others)}

RunStep(j) ==
  /\ jobStep[j] = "run" /\ (j \in nonced \/ j \notin DOMAIN stepsKept)
  /\ LET word == [status |-> "answered", age |-> advisories]
     IN /\ SayJob(j, word)
        /\ stepsKept' = IF j \in nonced THEN stepsKept ELSE Kept(stepsKept, j, word)
  /\ compiledFrom' =
       [compiledFrom EXCEPT ![j].step = IF j.vendored THEN "sound" ELSE volumes[JobScope(j)]]
  /\ ChangeVolume(j, Jobs \ {j})
  /\ UNCHANGED <<nonced, rounds, verifications, advisories, askedAt, losses>>

(* A step is interrupted, or the engine or the network fails it: its code  *)
(* may have run, and what had finished before stays kept.                  *)
LoseJob(j) ==
  /\ jobStep[j] \in {"build", "verify", "run"} /\ Lose
  /\ SayJob(j, JobError)
  /\ UNCHANGED stepsKept
  /\ IF jobStep[j] = "run" THEN ChangeVolume(j, Jobs) ELSE UNCHANGED <<volumes, exposed>>
  /\ UNCHANGED <<nonced, rounds, verifications, advisories, askedAt, compiledFrom>>

JobAgain(j) ==
  /\ jobStep[j] = "done" /\ rounds[j] < MaxRounds
  /\ JobGoto(j, "start")
  /\ UNCHANGED <<nonced, rounds, engineData, advisories, askedAt, compiledFrom, losses>>

(* moduleCacheError advises to prune the engine's cache. *)
PruneCache ==
  /\ \A j \in Jobs : jobStep[j] \in {"idle", "start", "done"}
  /\ \E j \in Jobs : jobStep[j] # "idle"
  /\ Lose
  /\ volumes' = [s \in Scopes |-> "sound"]
  /\ verifications' = [k \in {} |-> "sound"] /\ stepsKept' = [k \in {} |-> NoWord]
  /\ UNCHANGED <<jobStep, nonced, rounds, advisories, askedAt, compiledFrom, heard, exposed>>

NewAdvisories ==
  /\ \E j \in Jobs : ~RunsItsCode(j) /\ jobStep[j] # "idle"
  /\ advisories = 0 /\ advisories' = 1
  /\ UNCHANGED <<jobStep, nonced, rounds, engineData, askedAt, compiledFrom, heard, losses>>

EngineOver ==
  \A j \in Jobs : jobStep[j] = "idle" \/ (jobStep[j] = "done" /\ rounds[j] = MaxRounds)

EngineNext ==
  \/ \E j \in Jobs :
       \/ StartJob(j) \/ BuildTool(j) \/ VerifyModuleCache(j)
       \/ ReplayStep(j) \/ RunStep(j) \/ LoseJob(j) \/ JobAgain(j)
  \/ PruneCache \/ NewAdvisories
  \/ EngineOver /\ UNCHANGED engineVars

EngineSpec ==
  /\ EngineRest /\ \E some \in Jointly : Summon(some)
  /\ [][EngineNext]_engineVars

-------------------------------------------------------------------------------
Contents == {"none", "sound"} \cup {j.repo : j \in Jobs}

EngineTypeOK ==
  /\ jobStep \in [Jobs -> {"idle", "start", "build", "verify", "run", "done"}]
  /\ nonced \subseteq Jobs /\ rounds \in [Jobs -> 0..MaxRounds]
  /\ volumes \in [Scopes -> {"sound"} \cup {j.repo : j \in Jobs}]
  /\ DOMAIN stepsKept \subseteq Jobs /\ exposed \subseteq Jobs
  /\ askedAt \in [Jobs -> 0..1]
  /\ compiledFrom \in [Jobs -> [tool : Contents, step : Contents]]
  /\ heard \in [Jobs -> [status : {"none", "answered", "error"}, age : 0..1]]
  /\ advisories \in 0..1 /\ losses \in 0..MaxLosses

(***************************************************************************)
(* checks.go:109-112, 134-138, 429-433: no tool is built from a volume     *)
(* that a repository's code could have changed; a step compiles what was   *)
(* downloaded, unless its volume was changed after its own verification,   *)
(* and then by its own repository if its calls carry a key; and a verdict  *)
(* that depends on advisories is never older than the call it answers.     *)
(***************************************************************************)
StepsCompileTheirOwn ==
  \A j \in Jobs :
    /\ compiledFrom[j].tool \in {"none", "sound"}
    /\ \/ compiledFrom[j].step \in {"none", "sound"}
       \/ j \in exposed /\ (j.keyed => compiledFrom[j].step = j.repo)
    /\ j.kind = "go-vuln" /\ jobStep[j] = "done" /\ heard[j].status = "answered"
         => heard[j].age >= askedAt[j]
===============================================================================
