------------------------------ MODULE NativeTools ------------------------------
(***************************************************************************)
(* The shared Go checks of the native executor (internal/verify/           *)
(* gochecks.go, gotools.go, releases.go) in processes that share a cache   *)
(* directory.  A tool is the host's go, or is compiled from the shared     *)
(* checkout and published under its own digest, or is a release whose      *)
(* digest the checkout pins.  Processes die, commands fail, and somebody   *)
(* who ignores the locks writes into the directory.                        *)
(***************************************************************************)
EXTENDS ToolVerdicts

CONSTANTS
  ToolChecks,       \* the checks, each in a process of its own
  ToolKindOf,       \* by check: its kind
  CheckoutOf,       \* by check: the version of the shared checkout
  Beside,           \* the sets of checks that run beside one another
  Nothing, Foreign, \* no file, and a file somebody else wrote
  MaxMishaps

ASSUME NativeToolsAssumption ==
  /\ Beside \subseteq SUBSET ToolChecks
  /\ \A c \in ToolChecks : CheckoutOf[c] \notin {Nothing, Foreign}
  /\ MaxMishaps \in Nat

VARIABLES
  toolStep,     \* by check: where it is
  held,         \* by check: the tool it compiled, or the release it read
  cacheFiles,   \* by path of the cache directory: whose bytes are there
  toolStopped,  \* the checks whose run was interrupted
  toolResult,   \* by check: its status, and what there was to find
  mishaps

toolVars == <<toolStep, held, cacheFiles, toolStopped, toolResult, mishaps>>

HostKinds == {"go-vet", "go-test", "go-mod"}
ReleaseKinds == {"shell-lint", "deps-vuln", "workflow-security"}

Pinned(c) == ToolKindOf[c] \in ReleaseKinds
Compiled(c) == ToolKindOf[c] \notin HostKinds \cup ReleaseKinds

PathOf(name, version, kept) == [name |-> name, version |-> version, kept |-> kept]

(* Where a tool is published, and the download it is taken from. *)
ToolPath(c) == PathOf(ToolKindOf[c], CheckoutOf[c], "tool")
AssetPath(c) == PathOf(ToolKindOf[c], CheckoutOf[c], "asset")

Put(p, bytes) ==
  cacheFiles' = [q \in DOMAIN cacheFiles \cup {p} |-> IF q = p THEN bytes ELSE cacheFiles[q]]
Content(p) == IF p \in DOMAIN cacheFiles THEN cacheFiles[p] ELSE Nothing
Genuine(p, c) == Content(p) = CheckoutOf[c]

(* The lock of a helper is its digest's, that of a release is its name's. *)
ToolLock(c) == IF Pinned(c) THEN ToolKindOf[c] ELSE ToolPath(c)
Locking(c) == toolStep[c] \in {"look", "publish", "fetch", "install"}
LockFree(c) == \A d \in ToolChecks : Locking(d) => ToolLock(d) # ToolLock(c)

-------------------------------------------------------------------------------
NoResult == [status |-> "none", fact |-> "unknown"]

ToolRest ==
  /\ cacheFiles = [p \in {} |-> Nothing] /\ toolStopped = {} /\ mishaps = 0
  /\ held = [c \in ToolChecks |-> Nothing]
  /\ toolResult = [c \in ToolChecks |-> NoResult]

BeginTools(some) == toolStep = [c \in ToolChecks |-> IF c \in some THEN "start" ELSE "idle"]

ToolGoto(c, step) ==
  toolStep' = [toolStep EXCEPT ![c] = step] /\ UNCHANGED <<toolStopped, toolResult>>

(* goCheckExecutor: a run that was interrupted says so, whatever it found. *)
EndTool(c, verdictOfRun, fact) ==
  /\ toolStep' = [toolStep EXCEPT ![c] = "done"]
  /\ toolResult' = [toolResult EXCEPT ![c] =
       [status |-> IF c \in toolStopped THEN "cancelled" ELSE verdictOfRun, fact |-> fact]]
  /\ UNCHANGED toolStopped

Mishap == mishaps < MaxMishaps /\ mishaps' = mishaps + 1

(***************************************************************************)
(* goModule, zizmorInputs, shellInputs, secrets: a check that has nothing  *)
(* to check is refused; workflowArguments looks once the tool is built.    *)
(* lintSelection then refuses a pattern that the linter has no rule for.   *)
(***************************************************************************)
NothingToCheck(c) ==
  /\ \/ toolStep[c] = "start" /\ ToolKindOf[c] # "workflow-lint"
     \/ toolStep[c] = "run" /\ ToolKindOf[c] \in {"workflow-lint", "go-lint"}
  /\ ToolKindOf[c] # "deps-vuln"
  /\ EndTool(c, "error", "nothing")
  /\ UNCHANGED <<held, cacheFiles, mishaps>>

Preflight(c) ==
  /\ toolStep[c] = "start"
  /\ ToolGoto(c, CASE Pinned(c) -> "wait" [] Compiled(c) -> "compile" [] OTHER -> "run")
  /\ UNCHANGED <<held, cacheFiles, mishaps>>

(* build: a private file, compiled and hashed before any lock is taken. *)
CompileTool(c) ==
  /\ toolStep[c] = "compile"
  /\ held' = [held EXCEPT ![c] = CheckoutOf[c]]
  /\ ToolGoto(c, "wait")
  /\ UNCHANGED <<cacheFiles, mishaps>>

TakeToolLock(c) ==
  /\ toolStep[c] = "wait" /\ LockFree(c)
  /\ ToolGoto(c, IF Pinned(c) THEN "fetch" ELSE "look")
  /\ UNCHANGED <<held, cacheFiles, mishaps>>

(* What is published must have the digest that it is published under. *)
LookUp(c) ==
  /\ toolStep[c] = "look"
  /\ CASE Content(ToolPath(c)) = Nothing -> ToolGoto(c, "publish")
       [] Content(ToolPath(c)) = held[c] -> ToolGoto(c, "run")
       [] OTHER -> EndTool(c, "error", "unknown")
  /\ UNCHANGED <<held, cacheFiles, mishaps>>

(* os.Link replaces nothing, whoever came between. *)
PublishTool(c) ==
  /\ toolStep[c] = "publish"
  /\ IF Content(ToolPath(c)) = Nothing
     THEN Put(ToolPath(c), held[c]) /\ ToolGoto(c, "run")
     ELSE EndTool(c, "error", "unknown") /\ UNCHANGED cacheFiles
  /\ UNCHANGED <<held, mishaps>>

(* MUTANT of Reviewed: a download that is there is taken for the pinned one. *)
ReviewedOnce(bytes, c) == bytes # Nothing

(* matchesSHA256 *)
Reviewed(bytes, c) == bytes = CheckoutOf[c]

(* installRelease hashes the download that was kept, or fetches another,   *)
(* and installs the bytes it hashed.                                       *)
FetchRelease(c) ==
  /\ toolStep[c] = "fetch"
  /\ IF Reviewed(Content(AssetPath(c)), c)
     THEN held' = [held EXCEPT ![c] = Content(AssetPath(c))] /\ UNCHANGED cacheFiles
     ELSE held' = [held EXCEPT ![c] = CheckoutOf[c]] /\ Put(AssetPath(c), CheckoutOf[c])
  /\ ToolGoto(c, "install")
  /\ UNCHANGED mishaps

InstallRelease(c) ==
  /\ toolStep[c] = "install"
  /\ Put(ToolPath(c), held[c])
  /\ ToolGoto(c, "run")
  /\ UNCHANGED <<held, mishaps>>

(* Compiling, downloading, writing or staging fails, or the tool's run     *)
(* ends at its limit or prints more than is kept.                          *)
ToolFails(c) ==
  /\ toolStep[c] \in {"compile", "fetch", "install", "publish", "run"} /\ Mishap
  /\ EndTool(c, "error", "unknown")
  /\ UNCHANGED <<held, cacheFiles>>

(* A tool of anybody else's says what it likes. *)
RunsGenuine(c) ==
  ToolKindOf[c] \in HostKinds \/ Content(ToolPath(c)) = CheckoutOf[c]

RunTool(c) ==
  /\ toolStep[c] = "run"
  /\ \E fact \in Truths, said \in Truths :
       /\ RunsGenuine(c) => said = fact
       /\ \E run \in RunsOf(ToolKindOf[c], said) :
            EndTool(c, VerdictOf(ToolKindOf[c], run), fact)
  /\ UNCHANGED <<held, cacheFiles, mishaps>>

(* An interrupt: what waits gives up, and the commands are killed. *)
StopTool(c) ==
  /\ toolStep[c] \notin {"idle", "done", "dead"}
  /\ toolStopped' = toolStopped \cup {c}
  /\ UNCHANGED <<toolStep, held, cacheFiles, toolResult, mishaps>>

GiveUp(c) ==
  /\ c \in toolStopped /\ toolStep[c] \notin {"idle", "done", "dead"}
  /\ EndTool(c, "cancelled", "unknown")
  /\ UNCHANGED <<held, cacheFiles, mishaps>>

(* The process dies, and its locks with it. *)
ProcessDies(c) ==
  /\ toolStep[c] \notin {"idle", "done", "dead"} /\ Mishap
  /\ ToolGoto(c, "dead")
  /\ UNCHANGED <<held, cacheFiles>>

(* Somebody writes into the directory, but not what a check was handed. *)
Overwrite(p) ==
  /\ \A c \in ToolChecks : toolStep[c] = "run" => ToolPath(c) # p
  /\ Mishap /\ Put(p, Foreign)
  /\ UNCHANGED <<toolStep, held, toolStopped, toolResult>>

ToolAdvance(c) ==
  \/ NothingToCheck(c) \/ Preflight(c) \/ CompileTool(c) \/ TakeToolLock(c)
  \/ LookUp(c) \/ PublishTool(c) \/ FetchRelease(c) \/ InstallRelease(c) \/ RunTool(c)
  \/ GiveUp(c)

ToolsOver == \A c \in ToolChecks : toolStep[c] \in {"idle", "done", "dead"}

ToolNext ==
  \/ \E c \in ToolChecks :
       ToolAdvance(c) \/ ToolFails(c) \/ StopTool(c) \/ ProcessDies(c)
  \/ \E c \in ToolChecks : toolStep[c] # "idle" /\
       (Overwrite(ToolPath(c)) \/ (Pinned(c) /\ Overwrite(AssetPath(c))))
  \/ ToolsOver /\ UNCHANGED toolVars

(* Commands end: runTool and download bound each of them by a timeout. *)
ToolFairness == WF_toolVars(\E c \in ToolChecks : ToolAdvance(c))

ToolSpec ==
  /\ ToolRest /\ \E some \in Beside : BeginTools(some)
  /\ [][ToolNext]_toolVars /\ ToolFairness

-------------------------------------------------------------------------------
ToolSteps == {"idle", "start", "compile", "wait", "look", "publish", "fetch", "install",
              "run", "done", "dead"}

ToolTypeOK ==
  /\ toolStep \in [ToolChecks -> ToolSteps]
  /\ held \in [ToolChecks -> {Nothing, Foreign} \cup {CheckoutOf[c] : c \in ToolChecks}]
  /\ toolStopped \subseteq ToolChecks
  /\ \A c \in ToolChecks :
       /\ toolResult[c].fact \in Truths \cup {"unknown", "nothing"}
       /\ toolResult[c].status \in {"none", "passed", "failed", "error", "cancelled"}
       /\ (toolResult[c].status = "none") = (toolStep[c] # "done")
  /\ mishaps \in 0..MaxMishaps

(***************************************************************************)
(* gotools.go:191-196, releases.go:65-70: a check that is concluded says   *)
(* what the tool of its own checkout found, and never passes because there *)
(* was nothing to check, a tool could not do its work, or another process  *)
(* published, died or wrote in between; go vet may fail where it could not *)
(* do its work.  Unless something went wrong or there was nothing to       *)
(* check, it is concluded: processes that publish the same tool at once do *)
(* not stand in each other's way.                                          *)
(***************************************************************************)
ToolVerdictIsTrue ==
  \A c \in ToolChecks :
    LET result == toolResult[c]
    IN /\ result.status \in {"passed", "failed"} =>
            result.fact \in Truths /\ result.status \in TrueVerdicts(ToolKindOf[c], result.fact)
       /\ result.status = "error" => result.fact \in {"failed", "nothing"} \/ mishaps > 0
       /\ result.status = "cancelled" => c \in toolStopped
===============================================================================
