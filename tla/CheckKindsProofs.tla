---------------------------- MODULE CheckKindsProofs ---------------------------
(***************************************************************************)
(* What the machines of the check kinds do, for every value of their       *)
(* constants: a section for each machine, and at the end their composition.*)
(***************************************************************************)
EXTENDS CheckKinds, FiniteSetTheorems, WellFoundedInduction, TLAPS

-------------------------------------------------------------------------------
(***************************************************************************)
(* The session that Dagger checks share and the verdicts they reach, for   *)
(* any set of checks, of any kinds, that a run executes together.          *)
(***************************************************************************)
(***************************************************************************)
(* Only the run's context opens a session.  Before its query a check has   *)
(* heard nothing, and before it looks its key up it has none.  A check     *)
(* that calls under a key while its context lives has the key kept for all.*)
(***************************************************************************)
Asking == {"query", "settle", "done"}

SessionOfRun == session \in {Closed, "run"}
HeardLast == \A c \in DaggerChecks : at[c] \notin {"settle", "done"} => answer[c] = "none"
NamedLast == \A c \in DaggerChecks : at[c] \notin Asking \cup {"key"} => named[c] = Closed
KeyKept ==
  \A c \in DaggerChecks :
    at[c] \in Asking /\ named[c] # Closed => Over(c) \/ named[c] = cacheKey

DaggerInv == DaggerTypeOK /\ SessionOfRun /\ HeardLast /\ NamedLast /\ KeyKept

USE DaggerAssumption

(* Before a run executes, no check has done anything. *)
LEMMA DaggerInvInit ==
  ASSUME DaggerRest, NEW run \in SUBSET DaggerChecks, Execute(run) PROVE DaggerInv
BY DEF DaggerRest, Execute, DaggerInv, DaggerTypeOK, SessionOfRun, HeardLast, NamedLast,
       KeyKept, Asking

(* What one step of one check leaves of the invariant, by step. *)
LEMMA CheckStepKeeps ==
  ASSUME DaggerInv, NEW c \in DaggerChecks, DaggerStep(c) PROVE DaggerInv'
<1> USE DEF DaggerInv, DaggerTypeOK, SessionOfRun, HeardLast, NamedLast, KeyKept, Asking, Over
<1>1. CASE SelectWork(c)
  BY <1>1 DEF SelectWork, Goto, Reach, AfterFailure
<1>2. CASE Lock(c)
  BY <1>2 DEF Lock, Goto
<1>3. CASE Opened(c)
  BY <1>3 DEF Opened, Goto, ConnectContext
<1>4. CASE NotOpened(c)
  BY <1>4 DEF NotOpened, Reach, AfterFailure
<1>5. CASE Source(c)
  BY <1>5 DEF Source, Goto, Reach, Answers
<1>6. CASE FindKey(c)
  BY <1>6 DEF FindKey
<1>7. CASE KeepKey(c)
  BY <1>7 DEF KeepKey, Goto
<1>8. CASE Settle(c)
  BY <1>8 DEF Settle, Reach, DaggerResult
<1>9. ASSUME NEW a \in Answers, Respond(c, a) PROVE DaggerInv'
  BY <1>9 DEF Respond, Goto, Answers
<1> QED BY <1>1, <1>2, <1>3, <1>4, <1>5, <1>6, <1>7, <1>8, <1>9 DEF DaggerStep

(* Deadlines and interrupts only end contexts; closing leaves no session. *)
LEMMA DaggerInvStep ==
  ASSUME DaggerInv, [DaggerNext]_daggerVars PROVE DaggerInv'
<1>1. ASSUME NEW c \in DaggerChecks, DaggerStep(c) PROVE DaggerInv'
  BY <1>1, CheckStepKeeps
<1> USE DEF DaggerInv, DaggerTypeOK, SessionOfRun, HeardLast, NamedLast, KeyKept, Asking, Over
<1>2. ASSUME NEW c \in DaggerChecks, Deadline(c) PROVE DaggerInv'
  BY <1>2 DEF Deadline
<1>3. CASE Interrupt
  BY <1>3 DEF Interrupt
<1>4. CASE Close
  BY <1>4 DEF Close
<1>5. CASE UNCHANGED daggerVars
  BY <1>5 DEF daggerVars
<1> QED BY <1>1, <1>2, <1>3, <1>4, <1>5 DEF DaggerNext

(* So it holds throughout every run. *)
LEMMA DaggerAlways == DaggerSpec => []DaggerInv
<1>1. DaggerRest /\ (\E run \in Together : Execute(run)) => DaggerInv
  BY DaggerInvInit
<1>2. DaggerInv /\ [DaggerNext]_daggerVars => DaggerInv'
  BY DaggerInvStep
<1> QED BY <1>1, <1>2, PTL DEF DaggerSpec

(***************************************************************************)
(* Type correctness: every variable of the executor keeps its shape.       *)
(***************************************************************************)
THEOREM DaggerTypeCorrect == DaggerSpec => []DaggerTypeOK
<1>1. DaggerInv => DaggerTypeOK
  BY DEF DaggerInv
<1> QED BY <1>1, DaggerAlways, PTL

(* Nothing that the invariant lets happen to a session ends it for a check. *)
LEMMA DaggerInvShares == ASSUME DaggerInv PROVE SharedOutlivesChecks
<1>1. Dead => cancelled
  BY DEF Dead, DaggerInv, DaggerTypeOK, SessionOfRun
<1>2. ASSUME NEW c \in DaggerChecks, NEW d \in DaggerChecks,
             {at[c], at[d]} \subseteq {"query", "settle", "done"},
             Closed \notin {named[c], named[d]}, ~Over(c), ~Over(d)
      PROVE  named[c] = named[d]
  BY <1>2 DEF DaggerInv, KeyKept, Asking
<1> QED BY <1>1, <1>2 DEF SharedOutlivesChecks

(***************************************************************************)
(* dagger.go:123-130, 261-274: whichever checks share a session, none of   *)
(* their deadlines ends it, and those that are in time use one key.        *)
(***************************************************************************)
THEOREM SessionIsShared == DaggerSpec => []SharedOutlivesChecks
BY DaggerAlways, DaggerInvShares, PTL

(* What VerdictsAreAnswers says of a check's step. *)
Honest(c) ==
  verdict'[c] # verdict[c] =>
    LET asked == answer[c] # "none"
    IN /\ verdict'[c] = "cancelled" => cancelled
       /\ asked /\ verdict'[c] \in {"passed", "failed", "incomplete"} =>
            ~Over(c) /\ verdict'[c] = DaggerResult(answer[c])
       /\ ~asked => verdict'[c] \notin {"failed", "incomplete"}

(* Only a check that ends gets a verdict, and it is an honest one. *)
LEMMA HonestStep ==
  DaggerInv /\ [DaggerNext]_daggerVars => [\A c \in DaggerChecks : Honest(c)]_daggerVars
<1>1. ASSUME DaggerInv, NEW c \in DaggerChecks, DaggerStep(c), NEW d \in DaggerChecks
      PROVE  Honest(d)
  <2> USE <1>1 DEF DaggerInv, DaggerTypeOK, HeardLast, Honest
  <2>1. CASE SelectWork(c)
    BY <2>1 DEF SelectWork, Goto, Reach, AfterFailure
  <2>2. CASE Lock(c) \/ Opened(c) \/ FindKey(c) \/ KeepKey(c)
    BY <2>2 DEF Lock, Opened, FindKey, KeepKey, Goto
  <2>3. CASE NotOpened(c)
    BY <2>3 DEF NotOpened, Reach, AfterFailure
  <2>4. CASE Source(c)
    BY <2>4 DEF Source, Goto, Reach
  <2>5. CASE Settle(c)
    BY <2>5 DEF Settle, Reach, DaggerResult, Over
  <2>6. ASSUME NEW a \in Answers, Respond(c, a) PROVE Honest(d)
    BY <2>6 DEF Respond, Goto
  <2> QED BY <2>1, <2>2, <2>3, <2>4, <2>5, <2>6 DEF DaggerStep
<1>2. ASSUME DaggerInv, [DaggerNext]_daggerVars, NEW d \in DaggerChecks PROVE Honest(d)
  <2>1. CASE UNCHANGED verdict
    BY <2>1 DEF Honest
  <2>2. ASSUME NEW c \in DaggerChecks, Deadline(c) PROVE UNCHANGED verdict
    BY <2>2 DEF Deadline
  <2>3. Interrupt \/ Close \/ UNCHANGED daggerVars => UNCHANGED verdict
    BY DEF Interrupt, Close, daggerVars
  <2> QED BY <1>1, <1>2, <2>1, <2>2, <2>3 DEF DaggerNext
<1> QED BY <1>2

(***************************************************************************)
(* dagger.go:139-152, 307-345: whatever a query answers and whenever its   *)
(* context ends, a verdict is an answer that came in time.                 *)
(***************************************************************************)
THEOREM VerdictsAnswer == DaggerSpec => VerdictsAreAnswers
BY HonestStep, DaggerAlways, PTL DEF DaggerSpec, VerdictsAreAnswers, Honest

HIDE DaggerAssumption

-------------------------------------------------------------------------------
(***************************************************************************)
(* What steps of the Dagger module are compiled from, for any jobs, any    *)
(* number of rounds and any number of interrupts, failures and prunes.     *)
(***************************************************************************)
USE EngineCachesAssumption

(***************************************************************************)
(* The inductive invariant.  The tools' volume is never changed, and a     *)
(* repository's own is changed by its own code only.  Where a volume was   *)
(* changed, a job whose verification is kept, or that was verified and is  *)
(* about to run, is exposed, or has its step replayed instead.             *)
(***************************************************************************)
AtWork(j) == jobStep[j] \in {"build", "verify", "run"}

ToolsApart == volumes["tools"] = "sound"
OwnVolume == \A s \in Scopes : s # "unkeyed" => volumes[s] \in {"sound", s}

KeptVerified ==
  /\ DOMAIN verifications \subseteq Jobs
  /\ \A j \in DOMAIN verifications :
       verifications[j] = "sound" /\ j \notin DOMAIN stepsKept =>
         volumes[JobScope(j)] = "sound" \/ j \in exposed

RunVerified ==
  \A j \in Jobs : jobStep[j] = "run" =>
    \/ j.vendored \/ volumes[JobScope(j)] = "sound" \/ j \in exposed
    \/ j \notin nonced /\ j \in DOMAIN stepsKept

CompiledOnce == \A j \in Jobs : AtWork(j) => compiledFrom[j].step = "none"

AskedAfresh ==
  /\ \A j \in Jobs : askedAt[j] <= advisories
  /\ \A j \in Jobs : j.kind = "go-vuln" /\ AtWork(j) => j \in nonced

KeptWords ==
  \A j \in DOMAIN stepsKept : stepsKept[j] \in [status : {"answered"}, age : 0..1]

EngineInv ==
  /\ EngineTypeOK /\ ToolsApart /\ OwnVolume /\ KeptVerified /\ RunVerified
  /\ CompiledOnce /\ AskedAfresh /\ KeptWords /\ StepsCompileTheirOwn

(* Every job has a scope, and no repository's is that of the tools. *)
LEMMA ScopeOfJob ==
  ASSUME NEW j \in Jobs
  PROVE  /\ JobScope(j) \in Scopes /\ "tools" \in Scopes
         /\ RunsItsCode(j) => JobScope(j) # "tools"
         /\ ~RunsItsCode(j) => JobScope(j) = "tools"
         /\ RunsItsCode(j) /\ j.keyed => JobScope(j) = j.repo
         /\ RunsItsCode(j) /\ JobScope(j) # "unkeyed" => JobScope(j) = j.repo
<1>1. /\ j.kind \in {"go-test", "go-generate", "go-vuln"}
      /\ j.keyed \in BOOLEAN /\ j.repo \notin {"tools", "unkeyed"}
  OBVIOUS
<1>2. j.repo \in Scopes /\ {"tools", "unkeyed"} \subseteq Scopes
  BY DEF Scopes
<1> QED BY <1>1, <1>2 DEF JobScope

(* New jobs on an engine at rest: nothing kept, nothing compiled. *)
LEMMA EngineInit ==
  EngineRest /\ (\E some \in SUBSET Jobs : Summon(some)) => EngineInv
<1> SUFFICES ASSUME EngineRest, NEW some \in SUBSET Jobs, Summon(some) PROVE EngineInv
  OBVIOUS
<1> USE DEF EngineRest, Summon
<1>1. EngineTypeOK
  BY DEF EngineTypeOK, Contents, NoWord, NotCompiled
<1>2. ToolsApart /\ OwnVolume /\ KeptVerified
  BY ScopeOfJob DEF ToolsApart, OwnVolume, KeptVerified, Scopes
<1>3. RunVerified /\ CompiledOnce /\ AskedAfresh /\ KeptWords
  BY DEF RunVerified, CompiledOnce, AskedAfresh, KeptWords, AtWork, NotCompiled
<1>4. StepsCompileTheirOwn
  BY DEF StepsCompileTheirOwn, NotCompiled, NoWord
<1> QED BY <1>1, <1>2, <1>3, <1>4 DEF EngineInv

(* Starting a job, with or without a nonce, keeps the invariant. *)
LEMMA StartKeeps ==
  ASSUME EngineInv, NEW j \in Jobs, StartJob(j) PROVE EngineInv'
<1> USE DEF EngineInv, EngineTypeOK, StartJob, JobGoto, SayJob, JobError, NoWord, NotCompiled,
            Answerable, BuildsTool, engineData
<1>1. EngineTypeOK'
  <2>1. /\ jobStep' \in [Jobs -> {"idle", "start", "build", "verify", "run", "done"}]
        /\ heard' \in [Jobs -> [status : {"none", "answered", "error"}, age : 0..1]]
    <3>1. PICK step \in {"build", "verify", "done"} : jobStep' = [jobStep EXCEPT ![j] = step]
      OBVIOUS
    <3>2. UNCHANGED heard \/ heard' = [heard EXCEPT ![j] = JobError]
      OBVIOUS
    <3>3. JobError \in [status : {"none", "answered", "error"}, age : 0..1]
      OBVIOUS
    <3> QED BY <3>1, <3>2, <3>3
  <2>2. rounds' \in [Jobs -> 0..MaxRounds] /\ askedAt' \in [Jobs -> 0..1]
    <3>1. rounds[j] \in 0..MaxRounds /\ rounds[j] < MaxRounds /\ MaxRounds \in Nat
      OBVIOUS
    <3>2. \A n \in 0..MaxRounds : n < MaxRounds => n + 1 \in 0..MaxRounds
      BY <3>1
    <3>3. rounds' = [rounds EXCEPT ![j] = rounds[j] + 1]
          /\ askedAt' = [askedAt EXCEPT ![j] = advisories]
      OBVIOUS
    <3> QED BY <3>1, <3>2, <3>3
  <2>3. compiledFrom' \in [Jobs -> [tool : Contents, step : Contents]]
    BY DEF Contents
  <2> QED BY <2>1, <2>2, <2>3
<1>2. ToolsApart' /\ OwnVolume' /\ KeptVerified' /\ KeptWords'
  BY DEF ToolsApart, OwnVolume, KeptVerified, KeptWords
<1>3. RunVerified'
  BY DEF RunVerified
<1>4. CompiledOnce' /\ AskedAfresh'
  <2>1. CompiledOnce'
    BY DEF CompiledOnce, AtWork
  <2>2. \A d \in Jobs : askedAt'[d] <= advisories'
    BY DEF AskedAfresh
  <2>3. \A d \in Jobs : d.kind = "go-vuln" /\ AtWork(d)' => d \in nonced'
    BY DEF AskedAfresh, AtWork
  <2> QED BY <2>1, <2>2, <2>3 DEF AskedAfresh, AtWork
<1>5. StepsCompileTheirOwn'
  BY DEF StepsCompileTheirOwn
<1> QED BY <1>1, <1>2, <1>3, <1>4, <1>5

(* Tools are built from their own volume, which no repository writes. *)
LEMMA BuildKeeps ==
  ASSUME EngineInv, NEW j \in Jobs, BuildTool(j) PROVE EngineInv'
<1> USE DEF EngineInv, EngineTypeOK, BuildTool, JobGoto, ToolScope, engineData
<1>1. volumes["tools"] = "sound"
  BY DEF ToolsApart
<1>2. EngineTypeOK'
  BY <1>1 DEF Contents
<1>3. ToolsApart' /\ OwnVolume' /\ KeptVerified' /\ KeptWords'
  BY DEF ToolsApart, OwnVolume, KeptVerified, KeptWords
<1>4. RunVerified'
  BY ScopeOfJob DEF RunVerified, ToolsApart
<1>5. CompiledOnce' /\ AskedAfresh'
  BY DEF CompiledOnce, AskedAfresh, AtWork
<1>6. StepsCompileTheirOwn'
  BY <1>1 DEF StepsCompileTheirOwn
<1> QED BY <1>2, <1>3, <1>4, <1>5, <1>6

(* Only a verification that ran, and found the volume sound, clears a job. *)
LEMMA VerifyKeeps ==
  ASSUME EngineInv, NEW j \in Jobs, VerifyModuleCache(j) PROVE EngineInv'
<1> DEFINE content ==
      IF Replays(j) THEN verifications[Verification(j)] ELSE volumes[JobScope(j)]
<1> USE DEF EngineInv, EngineTypeOK, JobGoto, SayJob, JobError, NoWord, Verification, Kept
<1>1. /\ jobStep[j] = "verify"
      /\ verifications' = IF j.vendored \/ j \in nonced THEN verifications
                          ELSE Kept(verifications, j, content)
      /\ exposed' = IF content = "sound" /\ ~Replays(j) THEN exposed \ {j} ELSE exposed
      /\ IF j.vendored \/ content = "sound" THEN JobGoto(j, "run") ELSE SayJob(j, JobError)
      /\ UNCHANGED <<nonced, rounds, volumes, stepsKept, advisories, askedAt, compiledFrom,
                     losses>>
  BY DEF VerifyModuleCache
<1>2. content = "sound" /\ ~Replays(j) => volumes[JobScope(j)] = "sound"
  OBVIOUS
<1>3. Replays(j) => content = verifications[j] /\ j \in DOMAIN verifications /\ j \notin nonced
  BY DEF Replays
<1> HIDE DEF content
<1>4. EngineTypeOK'
  BY <1>1
<1>5. ToolsApart' /\ OwnVolume' /\ KeptWords'
  BY <1>1 DEF ToolsApart, OwnVolume, KeptWords
<1>6. KeptVerified'
  <2>1. DOMAIN verifications' \subseteq Jobs
    BY <1>1 DEF KeptVerified
  <2>2. ASSUME NEW d \in DOMAIN verifications', verifications'[d] = "sound",
               d \notin DOMAIN stepsKept
        PROVE  volumes[JobScope(d)] = "sound" \/ d \in exposed'
    <3>1. CASE d = j
      BY <1>1, <1>2, <1>3, <2>2, <3>1 DEF KeptVerified, Replays
    <3>2. CASE d # j
      BY <1>1, <2>2, <3>2 DEF KeptVerified
    <3> QED BY <3>1, <3>2
  <2> QED BY <1>1, <2>1, <2>2 DEF KeptVerified, JobScope, RunsItsCode
<1>7. RunVerified'
  <2> SUFFICES ASSUME NEW d \in Jobs, jobStep'[d] = "run"
               PROVE  \/ d.vendored \/ volumes[JobScope(d)] = "sound" \/ d \in exposed'
                      \/ d \notin nonced /\ d \in DOMAIN stepsKept
    BY <1>1 DEF RunVerified, JobScope, RunsItsCode
  <2>1. CASE d = j
    BY <1>1, <1>2, <1>3, <2>1 DEF KeptVerified
  <2>2. CASE d # j
    BY <1>1, <2>2 DEF RunVerified
  <2> QED BY <2>1, <2>2
<1>8. CompiledOnce' /\ AskedAfresh'
  BY <1>1 DEF CompiledOnce, AskedAfresh, AtWork
<1>9. StepsCompileTheirOwn'
  <2>1. compiledFrom[j].step = "none"
    BY <1>1 DEF CompiledOnce, AtWork
  <2> QED BY <1>1, <2>1 DEF StepsCompileTheirOwn
<1> QED BY <1>4, <1>5, <1>6, <1>7, <1>8, <1>9

(* The engine replays no step of a job with a nonce, and so no old verdict. *)
LEMMA ReplayKeeps ==
  ASSUME EngineInv, NEW j \in Jobs, ReplayStep(j) PROVE EngineInv'
<1> USE DEF EngineInv, EngineTypeOK, ReplayStep, SayJob, engineData
<1>1. stepsKept[j] \in [status : {"answered"}, age : 0..1] /\ j.kind # "go-vuln"
  BY DEF KeptWords, AskedAfresh, AtWork
<1>2. EngineTypeOK'
  BY <1>1
<1>3. ToolsApart' /\ OwnVolume' /\ KeptVerified' /\ KeptWords'
  BY DEF ToolsApart, OwnVolume, KeptVerified, KeptWords
<1>4. RunVerified' /\ CompiledOnce' /\ AskedAfresh'
  BY DEF RunVerified, CompiledOnce, AskedAfresh, AtWork
<1>5. StepsCompileTheirOwn'
  BY <1>1 DEF StepsCompileTheirOwn
<1> QED BY <1>2, <1>3, <1>4, <1>5

(* Code that changes a volume exposes whoever rests on its verification. *)
LEMMA ChangeKeeps ==
  ASSUME EngineInv, NEW j \in Jobs, NEW others \in SUBSET Jobs, ChangeVolume(j, others)
  PROVE  /\ volumes' \in [Scopes -> {"sound"} \cup {i.repo : i \in Jobs}]
         /\ exposed \subseteq exposed' /\ exposed' \subseteq Jobs
         /\ ToolsApart' /\ OwnVolume'
         /\ \A d \in Jobs : volumes'[JobScope(d)] # "sound" =>
              \/ volumes[JobScope(d)] # "sound"
              \/ JobVerified(d, others) => d \in exposed'
<1> USE DEF EngineInv, EngineTypeOK
<1>1. CASE UNCHANGED <<volumes, exposed>>
  BY <1>1 DEF ToolsApart, OwnVolume
<1>2. CASE /\ RunsItsCode(j)
           /\ volumes' = [volumes EXCEPT ![JobScope(j)] = j.repo]
           /\ exposed' = exposed \cup {d \in Jobs : JobScope(d) = JobScope(j)
                                                    /\ JobVerified(d, others)}
  <2>1. JobScope(j) \in Scopes /\ JobScope(j) # "tools" /\ "tools" \in Scopes
        /\ (JobScope(j) # "unkeyed" => JobScope(j) = j.repo)
    BY <1>2, ScopeOfJob
  <2>2. \A d \in Jobs : JobScope(d) \in Scopes
    BY ScopeOfJob
  <2>3. volumes' \in [Scopes -> {"sound"} \cup {i.repo : i \in Jobs}]
    BY <1>2, <2>1
  <2>4. ToolsApart' /\ OwnVolume'
    BY <1>2, <2>1 DEF ToolsApart, OwnVolume
  <2>5. ASSUME NEW d \in Jobs, volumes'[JobScope(d)] # "sound",
               volumes[JobScope(d)] = "sound", JobVerified(d, others)
        PROVE  d \in exposed'
    BY <1>2, <2>1, <2>2, <2>5
  <2> QED BY <1>2, <2>3, <2>4, <2>5
<1> QED BY <1>1, <1>2 DEF ChangeVolume

(* A step's record in a table of what was compiled. *)
LEMMA StepEntry ==
  ASSUME NEW S, NEW C, NEW f \in [S -> [tool : C, step : C]], NEW j \in S, NEW x \in C
  PROVE  [f EXCEPT ![j].step = x] \in [S -> [tool : C, step : C]]
  OBVIOUS

(* A step that runs compiles what its volume holds now. *)
LEMMA JobRunKeeps ==
  ASSUME EngineInv, NEW j \in Jobs, RunStep(j) PROVE EngineInv'
<1> DEFINE word == [status |-> "answered", age |-> advisories]
           others == Jobs \ {j}
<1>1. /\ jobStep[j] = "run" /\ (j \in nonced \/ j \notin DOMAIN stepsKept)
      /\ SayJob(j, word)
      /\ stepsKept' = IF j \in nonced THEN stepsKept ELSE Kept(stepsKept, j, word)
      /\ compiledFrom' =
           [compiledFrom EXCEPT ![j].step = IF j.vendored THEN "sound" ELSE volumes[JobScope(j)]]
      /\ ChangeVolume(j, others)
      /\ UNCHANGED <<nonced, rounds, verifications, advisories, askedAt, losses>>
  BY DEF RunStep
<1>2. /\ volumes' \in [Scopes -> {"sound"} \cup {i.repo : i \in Jobs}]
      /\ exposed \subseteq exposed' /\ exposed' \subseteq Jobs
      /\ ToolsApart' /\ OwnVolume'
      /\ \A d \in Jobs : volumes'[JobScope(d)] # "sound" =>
           \/ volumes[JobScope(d)] # "sound"
           \/ JobVerified(d, others) => d \in exposed'
  BY <1>1, ChangeKeeps
<1>3. DOMAIN stepsKept \subseteq DOMAIN stepsKept' /\ DOMAIN stepsKept' \subseteq Jobs
  BY <1>1 DEF EngineInv, EngineTypeOK, Kept
<1> HIDE DEF others
<1> USE DEF EngineInv, EngineTypeOK, SayJob
<1>4. EngineTypeOK'
  <2> DEFINE source == IF j.vendored THEN "sound" ELSE volumes[JobScope(j)]
  <2>1. source \in Contents
    BY ScopeOfJob DEF Contents
  <2>2. compiledFrom' \in [Jobs -> [tool : Contents, step : Contents]]
    <3>1. compiledFrom' = [compiledFrom EXCEPT ![j].step = source]
      BY <1>1
    <3> HIDE DEF source
    <3> QED BY ONLY <2>1, <3>1, StepEntry, j \in Jobs,
                    compiledFrom \in [Jobs -> [tool : Contents, step : Contents]]
  <2>3. heard' \in [Jobs -> [status : {"none", "answered", "error"}, age : 0..1]]
    BY <1>1
  <2> QED BY <1>1, <1>2, <1>3, <2>2, <2>3
<1>5. KeptVerified'
  <2> SUFFICES ASSUME NEW d \in DOMAIN verifications, verifications[d] = "sound",
                      d \notin DOMAIN stepsKept', volumes'[JobScope(d)] # "sound"
               PROVE  d \in exposed'
    BY <1>1 DEF KeptVerified, JobScope, RunsItsCode
  <2>1. d \in Jobs /\ JobVerified(d, others)
    BY DEF KeptVerified, JobVerified
  <2>2. volumes[JobScope(d)] # "sound" => d \in exposed
    BY <1>3 DEF KeptVerified
  <2> QED BY <1>2, <2>1, <2>2
<1>6. RunVerified'
  <2> SUFFICES ASSUME NEW d \in Jobs, jobStep'[d] = "run", ~d.vendored,
                      volumes'[JobScope(d)] # "sound", d \notin exposed'
               PROVE  d \notin nonced /\ d \in DOMAIN stepsKept'
    BY <1>1 DEF RunVerified, JobScope, RunsItsCode
  <2>1. d # j /\ jobStep[d] = "run"
    BY <1>1
  <2>2. JobVerified(d, others)
    BY <2>1 DEF JobVerified, others
  <2>3. volumes[JobScope(d)] # "sound" /\ d \notin exposed
    BY <1>2, <2>2
  <2> QED BY <1>3, <2>1, <2>3 DEF RunVerified
<1>7. CompiledOnce' /\ AskedAfresh'
  BY <1>1 DEF CompiledOnce, AskedAfresh, AtWork
<1>8. KeptWords'
  BY <1>1 DEF KeptWords, Kept
<1>9. StepsCompileTheirOwn'
  <2>1. \/ j.vendored \/ volumes[JobScope(j)] = "sound"
        \/ j \in exposed /\ (j.keyed => volumes[JobScope(j)] = j.repo)
    <3>1. j.vendored \/ volumes[JobScope(j)] = "sound" \/ j \in exposed
      BY <1>1 DEF RunVerified
    <3>2. j.keyed => volumes[JobScope(j)] \in {"sound", j.repo}
      BY ScopeOfJob DEF OwnVolume, ToolsApart
    <3> QED BY <3>1, <3>2
  <2>2. advisories >= askedAt[j]
    BY DEF AskedAfresh
  <2>3. ASSUME NEW d \in Jobs, d # j
        PROVE  compiledFrom'[d] = compiledFrom[d] /\ heard'[d] = heard[d]
               /\ jobStep'[d] = jobStep[d]
    BY <1>1, <2>3
  <2>4. /\ compiledFrom'[j].tool = compiledFrom[j].tool
        /\ compiledFrom'[j].step = IF j.vendored THEN "sound" ELSE volumes[JobScope(j)]
        /\ heard'[j].age = advisories
    BY <1>1
  <2> QED BY <1>1, <1>2, <2>1, <2>2, <2>3, <2>4 DEF StepsCompileTheirOwn
<1> QED BY <1>2, <1>4, <1>5, <1>6, <1>7, <1>8, <1>9

(* A job that is lost is an error, but may have changed its volume first. *)
LEMMA LoseKeeps ==
  ASSUME EngineInv, NEW j \in Jobs, LoseJob(j) PROVE EngineInv'
<1>1. /\ jobStep[j] \in {"build", "verify", "run"} /\ Lose
      /\ SayJob(j, JobError) /\ ChangeVolume(j, Jobs)
      /\ UNCHANGED <<stepsKept, nonced, rounds, verifications, advisories, askedAt,
                     compiledFrom>>
  BY DEF LoseJob, ChangeVolume
<1>2. /\ volumes' \in [Scopes -> {"sound"} \cup {i.repo : i \in Jobs}]
      /\ exposed \subseteq exposed' /\ exposed' \subseteq Jobs
      /\ ToolsApart' /\ OwnVolume'
      /\ \A d \in Jobs : volumes'[JobScope(d)] # "sound" =>
           \/ volumes[JobScope(d)] # "sound"
           \/ JobVerified(d, Jobs) => d \in exposed'
  BY <1>1, ChangeKeeps
<1> USE DEF EngineInv, EngineTypeOK, SayJob, JobError, NoWord
<1>3. EngineTypeOK'
  BY <1>1, <1>2 DEF Lose
<1>4. KeptVerified'
  <2> SUFFICES ASSUME NEW d \in DOMAIN verifications, verifications[d] = "sound",
                      d \notin DOMAIN stepsKept', volumes'[JobScope(d)] # "sound"
               PROVE  d \in exposed'
    BY <1>1 DEF KeptVerified, JobScope, RunsItsCode
  <2>1. d \in Jobs /\ JobVerified(d, Jobs)
    BY DEF KeptVerified, JobVerified
  <2>2. volumes[JobScope(d)] # "sound" => d \in exposed
    BY <1>1 DEF KeptVerified
  <2> QED BY <1>2, <2>1, <2>2
<1>5. RunVerified'
  <2> SUFFICES ASSUME NEW d \in Jobs, jobStep'[d] = "run", ~d.vendored,
                      volumes'[JobScope(d)] # "sound", d \notin exposed'
               PROVE  d \notin nonced /\ d \in DOMAIN stepsKept'
    BY <1>1 DEF RunVerified, JobScope, RunsItsCode
  <2>1. d # j /\ jobStep[d] = "run"
    BY <1>1
  <2>2. volumes[JobScope(d)] # "sound" /\ d \notin exposed
    BY <1>2, <2>1 DEF JobVerified
  <2> QED BY <1>1, <2>1, <2>2 DEF RunVerified
<1>6. CompiledOnce' /\ AskedAfresh' /\ KeptWords'
  BY <1>1 DEF CompiledOnce, AskedAfresh, AtWork, KeptWords
<1>7. StepsCompileTheirOwn'
  BY <1>1, <1>2 DEF StepsCompileTheirOwn
<1> QED BY <1>2, <1>3, <1>4, <1>5, <1>6, <1>7

(* A job is asked again, the cache is pruned while none runs, time passes. *)
LEMMA AroundKeeps ==
  ASSUME EngineInv, (\E j \in Jobs : JobAgain(j)) \/ PruneCache \/ NewAdvisories
                    \/ UNCHANGED engineVars
  PROVE  EngineInv'
<1> USE DEF EngineInv
<1>1. ASSUME NEW j \in Jobs, JobAgain(j) PROVE EngineInv'
  <2> USE <1>1 DEF JobAgain, JobGoto, engineData
  <2>1. EngineTypeOK' /\ ToolsApart' /\ OwnVolume' /\ KeptVerified' /\ KeptWords'
    BY DEF EngineTypeOK, ToolsApart, OwnVolume, KeptVerified, KeptWords
  <2>2. RunVerified' /\ CompiledOnce' /\ AskedAfresh' /\ StepsCompileTheirOwn'
    BY DEF EngineTypeOK, RunVerified, CompiledOnce, AskedAfresh, AtWork, StepsCompileTheirOwn
  <2> QED BY <2>1, <2>2
<1>2. CASE PruneCache
  <2> USE <1>2 DEF PruneCache, Lose
  <2>1. EngineTypeOK'
    BY DEF EngineTypeOK
  <2>2. ToolsApart' /\ OwnVolume' /\ KeptVerified' /\ KeptWords'
    BY DEF ToolsApart, OwnVolume, KeptVerified, KeptWords, Scopes
  <2>3. RunVerified' /\ CompiledOnce' /\ AskedAfresh' /\ StepsCompileTheirOwn'
    BY DEF EngineTypeOK, RunVerified, CompiledOnce, AskedAfresh, AtWork, StepsCompileTheirOwn
  <2> QED BY <2>1, <2>2, <2>3
<1>3. CASE NewAdvisories
  <2> USE <1>3 DEF NewAdvisories, engineData
  <2>1. EngineTypeOK' /\ ToolsApart' /\ OwnVolume' /\ KeptVerified' /\ KeptWords'
    BY DEF EngineTypeOK, ToolsApart, OwnVolume, KeptVerified, KeptWords
  <2>2. RunVerified' /\ CompiledOnce' /\ AskedAfresh' /\ StepsCompileTheirOwn'
    BY DEF EngineTypeOK, RunVerified, CompiledOnce, AskedAfresh, AtWork, StepsCompileTheirOwn
  <2> QED BY <2>1, <2>2
<1>4. CASE UNCHANGED engineVars
  <2> USE <1>4 DEF engineVars
  <2>1. EngineTypeOK' /\ ToolsApart' /\ OwnVolume' /\ KeptVerified' /\ KeptWords'
    BY DEF EngineTypeOK, ToolsApart, OwnVolume, KeptVerified, KeptWords
  <2>2. RunVerified' /\ CompiledOnce' /\ AskedAfresh' /\ StepsCompileTheirOwn'
    BY DEF RunVerified, CompiledOnce, AskedAfresh, AtWork, StepsCompileTheirOwn
  <2> QED BY <2>1, <2>2
<1> QED BY <1>1, <1>2, <1>3, <1>4

(* Every step of a job or of the engine keeps the invariant. *)
LEMMA EngineStep == EngineInv /\ [EngineNext]_engineVars => EngineInv'
<1> SUFFICES ASSUME EngineInv, [EngineNext]_engineVars PROVE EngineInv'
  OBVIOUS
<1>1. ASSUME NEW j \in Jobs,
             StartJob(j) \/ BuildTool(j) \/ VerifyModuleCache(j) \/ ReplayStep(j)
             \/ RunStep(j) \/ LoseJob(j)
      PROVE  EngineInv'
  BY <1>1, StartKeeps, BuildKeeps, VerifyKeeps, ReplayKeeps, JobRunKeeps, LoseKeeps
<1> QED BY <1>1, AroundKeeps DEF EngineNext

(* The invariant holds in every state a behaviour reaches. *)
LEMMA EngineAlways == EngineSpec => []EngineInv
<1>1. EngineRest /\ (\E some \in Jointly : Summon(some)) => EngineInv
  BY EngineInit
<1> QED BY <1>1, EngineStep, PTL DEF EngineSpec

(***************************************************************************)
(* Type correctness of the engine's state, for any jobs and bounds.        *)
(***************************************************************************)
THEOREM EngineTypeCorrect == EngineSpec => []EngineTypeOK
<1>1. EngineInv => EngineTypeOK
  BY DEF EngineInv
<1> QED BY <1>1, EngineAlways, PTL

(***************************************************************************)
(* checks.go:109-112, 134-138, 429-433: however often and in whatever      *)
(* order jobs run, fail, and are replayed, tools are built from what was   *)
(* downloaded, a step compiles that too unless its volume was changed      *)
(* after its own verification, and advisories are as new as the call.      *)
(***************************************************************************)
THEOREM StepsAreTheirOwn == EngineSpec => []StepsCompileTheirOwn
<1>1. EngineInv => StepsCompileTheirOwn
  BY DEF EngineInv
<1> QED BY <1>1, EngineAlways, PTL

HIDE EngineCachesAssumption

-------------------------------------------------------------------------------
(***************************************************************************)
(* Gremlins' raised limits, for every coverage time, floor and number of   *)
(* runs: a rerun under the coefficient longerCoefficient chose has a limit *)
(* that can be trusted unless its coverage was more than twice as fast.    *)
(* And the verdict, for every set of mutants and of accepted survivors.    *)
(***************************************************************************)
(***************************************************************************)
(* runner/mutation.go:527 rounds the quotient up, so it times the coverage *)
(* time is at least twice the floor.                                       *)
(***************************************************************************)
LEMMA RoundedUp ==
  ASSUME NEW n \in Nat, NEW e \in Nat \ {0}
  PROVE  /\ (n + e - 1) \div e \in Nat
         /\ e * ((n + e - 1) \div e) >= n
<1> DEFINE q == (n + e - 1) \div e
           r == (n + e - 1) % e
<1>1. n + e - 1 \in Nat
  BY SMT
<1>2. q \in Int /\ r \in 0..e - 1 /\ n + e - 1 = e * q + r
  BY <1>1, SMT
<1>3. e * q >= n
  BY <1>2, SMT
<1>4. q \in Nat
  <2>1. CASE q < 0
    <3>1. e * q < 0
      BY <1>2, <2>1, SMT
    <3> QED BY <1>2, <1>3, <3>1, SMT
  <2> QED BY <1>2, <2>1, SMT
<1> QED BY <1>3, <1>4

(***************************************************************************)
(* What the loop of mutate keeps: a rerun is about to use the coefficient  *)
(* that the last run's coverage time asked for.                            *)
(***************************************************************************)
RaisedFor ==
  /\ attempt \in Nat /\ elapsed \in Nat
  /\ stage = "start" => attempt = 1
  /\ stage = "gremlins" /\ attempt > 1 => elapsed > 0 /\ coefficient = LongerCoefficient

(* The invariant holds at the start, when nothing has run. *)
LEMMA RaisedForInit == MutationRest /\ stage \in {"idle", "start"} => RaisedFor
  BY SMT DEF MutationRest, RaisedFor

(* Every step of the check keeps it; only RunLonger raises anything. *)
LEMMA RaisedForStep == RaisedFor /\ [MutationNext]_mutationVars => RaisedFor'
<1> SUFFICES ASSUME RaisedFor, [MutationNext]_mutationVars PROVE RaisedFor'
  OBVIOUS
<1> USE DEF RaisedFor, LongerCoefficient
<1>1. CASE SelectionFails
  BY <1>1, SMT DEF SelectionFails, runVars
<1>2. CASE NothingToMutate
  BY <1>2, SMT DEF NothingToMutate, runVars
<1>3. CASE Select
  BY <1>3, SMT DEF Select, runVars
<1>4. CASE RunGremlins
  <2>1. attempt' = attempt /\ stage' = "judge" /\ elapsed' \in Elapsed
    BY <1>4 DEF RunGremlins
  <2>2. elapsed' \in Nat
    BY <2>1, MutationAssumption DEF MutationAssumption
  <2> QED BY <2>1, <2>2, SMT
<1>5. CASE QueryFails
  BY <1>5, SMT DEF QueryFails, runVars
<1>6. CASE RunLonger
  BY <1>6, SMT DEF RunLonger, TooShort
<1>7. CASE Judge
  BY <1>7, SMT DEF Judge, runVars
<1>8. CASE Conclude
  BY <1>8, SMT DEF Conclude, runVars
<1>9. CASE UNCHANGED mutationVars
  BY <1>9, SMT DEF mutationVars
<1> QED
  BY <1>1, <1>2, <1>3, <1>4, <1>5, <1>6, <1>7, <1>8, <1>9 DEF MutationNext, MutationDone

(***************************************************************************)
(* The arithmetic of longerCoefficient: a coverage time at least half as   *)
(* long as the one that asked for the coefficient clears the floor.        *)
(***************************************************************************)
LEMMA HalfAsLongClears ==
  ASSUME NEW f \in Nat, NEW old \in Nat \ {0}, NEW e \in Nat, 2 * e >= old,
         NEW c \in Nat, old * c >= 2 * f
  PROVE  e * c >= f
<1>1. 2 * e * c >= old * c
  <2>1. (2 * e - old) \in Nat
    BY SMT
  <2>2. (2 * e - old) * c >= 0
    BY <2>1, SMT
  <2>3. (2 * e - old) * c = 2 * e * c - old * c
    BY SMT
  <2> QED BY <2>2, <2>3, SMT
<1>2. 2 * (e * c) >= 2 * f
  BY <1>1, SMT
<1> QED BY <1>2, SMT

(* Whenever gremlins ends a rerun, its limit is as RerunClearsFloor says. *)
RerunClears ==
  RunGremlins /\ attempt > 1 /\ elapsed' > 0 /\ 2 * elapsed' >= elapsed
    => elapsed' * coefficient >= Floor

(* The invariant makes every rerun clear the floor. *)
LEMMA RerunStep == RaisedFor /\ [MutationNext]_mutationVars => [RerunClears]_mutationVars
<1> SUFFICES ASSUME RaisedFor, RunGremlins, attempt > 1, 2 * elapsed' >= elapsed
             PROVE  elapsed' * coefficient >= Floor
  BY DEF RerunClears
<1> stage = "gremlins" /\ elapsed' \in Elapsed
  BY DEF RunGremlins
<1>1. elapsed' \in Nat /\ 2 * Floor \in Nat /\ Floor \in Nat
  <2>1. Elapsed \subseteq Nat /\ Floor \in Nat
    BY MutationAssumption DEF MutationAssumption
  <2> QED BY <2>1, SMT
<1>2. elapsed \in Nat \ {0} /\ coefficient = (2 * Floor + elapsed - 1) \div elapsed
  BY SMT DEF RaisedFor, LongerCoefficient
<1>3. coefficient \in Nat /\ elapsed * coefficient >= 2 * Floor
  BY <1>1, <1>2, RoundedUp
<1> QED BY <1>1, <1>2, <1>3, HalfAsLongClears

(***************************************************************************)
(* mutation.go:510-528: a rerun whose coverage is up to twice as fast as   *)
(* that of the run it repeats has a limit no shorter than the floor, for   *)
(* every floor and every pair of coverage times.                           *)
(***************************************************************************)
THEOREM RerunIsTrusted == MutationSpec => RerunClearsFloor
<1>1. MutationInit => RaisedFor
  BY RaisedForInit DEF MutationInit
<1> QED
  BY <1>1, RaisedForStep, RerunStep, PTL DEF MutationSpec, RerunClearsFloor, RerunClears

(***************************************************************************)
(* The verdict's inductive invariant.  Shown says what a report says of a  *)
(* mutant that the diff does not misplace: its fate, or a timeout under a  *)
(* limit nobody trusts.  PassWould is what a pass would hide if it did.    *)
(***************************************************************************)
Shown(m) ==
  \/ report[m] = StatusOf(m)
  \/ report[m] = "SKIPPED"
  \/ report[m] = "TIMED OUT" /\ truth[m] \in {"caught", "survives"} /\ ~Trusted

AllReported == DOMAIN report = Reported /\ \A m \in Reported : Shown(m)

PassWould ==
  /\ \A m \in Reported : truth[m] = "survives" /\ OnChange(m) => Excused(m)
  /\ \A e \in accepted : Considered(e) => Named(e, {"survives", "unjudged"}) # {}

HangsOnly == \A m \in TimedOut : truth[m] = "hangs"

Truthful ==
  /\ \A m \in Mutants : <<"survived", m>> \in findings => truth[m] = "survives" /\ OnChange(m)
  /\ \A e \in accepted : <<"stale", e>> \in findings => Named(e, {"survives", "unjudged"}) = {}

VerdictInv ==
  /\ files \subseteq Files /\ accepted \subseteq Entries /\ truth \in [Mutants -> Fates]
  /\ stage = "start" => files = {} /\ accepted = {} /\ report = NoReport
  /\ stage \in {"start", "gremlins", "judge"} =>
       findings = {} /\ incomplete = FALSE /\ status = "none"
  /\ stage = "judge" => AllReported
  /\ incomplete \in BOOLEAN /\ (incomplete => findings # {})
  /\ stage = "answered" => status \in {"none", "broken"}
  /\ stage = "answered" /\ status = "none" =>
       (findings = {} => PassWould) /\ (~incomplete => HangsOnly)
  /\ PassMeansCaught /\ FindingsAreTrue

(* Nothing is said at first. *)
LEMMA VerdictInit == MutationRest /\ stage \in {"idle", "start"} => VerdictInv
<1> SUFFICES ASSUME MutationRest, stage \in {"idle", "start"} PROVE VerdictInv
  OBVIOUS
<1> USE DEF MutationRest
<1>1. truth \in [Mutants -> Fates]
  BY DEF Fates
<1>2. PassMeansCaught /\ FindingsAreTrue
  BY DEF PassMeansCaught, FindingsAreTrue
<1> QED BY <1>1, <1>2 DEF VerdictInv

(* The lines that run include the changed ones and every line an entry of *)
(* a mutated file names, so nothing that matters is skipped.              *)
LEMMA RunLinesSuffice ==
  ASSUME ~Misread, NEW m \in Reported
  PROVE  /\ OnChange(m) => report[m] # "SKIPPED"
         /\ \A e \in accepted : m \in Matched(e) => report[m] # "SKIPPED"
<1>1. (report[m] = "SKIPPED") # (m.line \in RunLines)
  BY DEF Misread
<1>2. OnChange(m) => m.line \in RunLines
  BY DEF OnChange, RunLines
<1>3. ASSUME NEW e \in accepted, m \in Matched(e) PROVE m.line \in RunLines
  <2>1. e.file \in files /\ m.line \in e.names
    BY <1>3 DEF Matched, Reported
  <2> QED BY <2>1 DEF RunLines
<1> QED BY <1>1, <1>2, <1>3

(* Entries accept a survivor where they fit no other line. *)
LEMMA OneLineEach ==
  ASSUME NEW e, NEW m, m \in Matched(e), report[m] = "LIVED",
         Cardinality(SurvivorLines(e)) = 1
  PROVE  SurvivorLines(e) = {m.line}
<1>1. SurvivorLines(e) \subseteq Lines /\ m.line \in SurvivorLines(e)
  BY MutationAssumption DEF MutationAssumption, SurvivorLines, Matched, Reported
<1>2. IsFiniteSet(SurvivorLines(e))
  BY <1>1, FS_Subset, MutationAssumption DEF MutationAssumption
<1>3. PICK l : SurvivorLines(e) = {l}
  BY <1>2, FS_Singleton
<1> QED BY <1>1, <1>3

(***************************************************************************)
(* decideMutation: under the run it judges, what was found is true and     *)
(* what was not found is not there.                                        *)
(***************************************************************************)
LEMMA NothingUntrusted ==
  ASSUME ~Incomplete PROVE \A m \in TimedOut : Trusted
  BY DEF Incomplete

(* A report too incomplete to judge shows mutants timed out. *)
LEMMA IncompleteHasTimeouts == Incomplete => TimedOut # {}
<1> SUFFICES ASSUME Incomplete, TimedOut = {} PROVE FALSE
  OBVIOUS
<1>1. Cardinality(TimedOut) = 0 /\ MinTimeouts \in Nat \ {0}
  BY FS_EmptySet, MutationAssumption DEF MutationAssumption
<1>2. Cardinality(TimedOut) >= MinTimeouts
  BY DEF Incomplete
<1> QED BY <1>1, <1>2, SMT

(* Of a report that is judged, whatever timed out past the floor hangs. *)
LEMMA TrustedTimeoutsHang ==
  ASSUME VerdictInv, AllReported, ~Incomplete PROVE HangsOnly
<1> SUFFICES ASSUME NEW m \in TimedOut PROVE truth[m] = "hangs"
  BY DEF HangsOnly
<1>1. m \in Reported /\ m \in Mutants /\ report[m] = "TIMED OUT" /\ Trusted
  BY NothingUntrusted DEF TimedOut, Reported
<1>2. report[m] = StatusOf(m) /\ truth[m] \in Fates
  BY <1>1 DEF AllReported, Shown, VerdictInv
<1> QED BY <1>1, <1>2 DEF StatusOf, Fates

(* What lived survives, and what survives lived, or its timeout is not *)
(* trusted, or it was skipped.                                         *)
LEMMA FateOfReport ==
  ASSUME VerdictInv, AllReported, NEW m \in Reported
  PROVE  /\ report[m] = "LIVED" => truth[m] = "survives"
         /\ report[m] = "NOT COVERED" => truth[m] = "unjudged"
         /\ truth[m] = "survives" =>
              \/ report[m] \in {"LIVED", "SKIPPED"}
              \/ report[m] = "TIMED OUT" /\ ~Trusted
         /\ truth[m] = "unjudged" => report[m] \in {"NOT COVERED", "SKIPPED"}
<1>1. m \in Mutants /\ truth[m] \in Fates /\ Shown(m)
  BY DEF VerdictInv, AllReported, Reported
<1> QED BY <1>1 DEF Shown, StatusOf, Fates

(* With neither survivor nor stale entry, the report hides none. *)
LEMMA PassesHideNothing ==
  ASSUME VerdictInv, AllReported, ~Misread, ~Incomplete, Survivors = {}, Stale = {}
  PROVE  PassWould
<1>1. ASSUME NEW m \in Reported, truth[m] = "survives",
             OnChange(m) \/ \E e \in accepted : m \in Matched(e)
      PROVE  report[m] = "LIVED"
  <2>1. report[m] # "SKIPPED"
    BY <1>1, RunLinesSuffice
  <2>2. report[m] # "TIMED OUT" \/ Trusted
    BY NothingUntrusted DEF TimedOut
  <2> QED BY <1>1, <2>1, <2>2, FateOfReport
<1>2. ASSUME NEW m \in Reported, truth[m] = "survives", OnChange(m) PROVE Excused(m)
  <2>1. report[m] = "LIVED"
    BY <1>1, <1>2
  <2>2. PICK e \in accepted : m \in Matched(e) /\ Cardinality(SurvivorLines(e)) = 1
    BY <1>2, <2>1 DEF Survivors, Accepts
  <2>3. SurvivorLines(e) = {m.line}
    BY <2>1, <2>2, OneLineEach
  <2>4. \A x \in Named(e, {"survives"}) : x \in Matched(e) /\ report[x] = "LIVED"
    BY <1>1 DEF Named, Matched
  <2>5. m \in Named(e, {"survives"})
    BY <1>2, <2>2 DEF Named
  <2>6. {x.line : x \in Named(e, {"survives"})} = {m.line}
    BY <2>3, <2>4, <2>5 DEF SurvivorLines
  <2> QED BY <2>2, <2>6 DEF Excused
<1>3. ASSUME NEW e \in accepted, Considered(e)
      PROVE  Named(e, {"survives", "unjudged"}) # {}
  <2>1. SurvivorLines(e) # {} \/ Pending(e)
    BY <1>3 DEF Stale
  <2>2. CASE SurvivorLines(e) # {}
    <3>1. PICK x \in Matched(e) : report[x] = "LIVED"
      BY <2>2 DEF SurvivorLines
    <3>2. x \in Reported /\ truth[x] = "survives"
      BY <3>1, FateOfReport DEF Matched
    <3> QED BY <3>1, <3>2 DEF Named
  <2>3. CASE Pending(e)
    <3>1. PICK x \in Matched(e) :
            report[x] \in {"NOT COVERED", "SKIPPED"} \/ (report[x] = "TIMED OUT" /\ ~Trusted)
      BY <2>3 DEF Pending
    <3>2. x \in Reported
      BY <3>1 DEF Matched
    <3>3. report[x] = "NOT COVERED"
      BY <3>1, <3>2, RunLinesSuffice, NothingUntrusted DEF TimedOut
    <3> QED BY <3>1, <3>2, <3>3, FateOfReport DEF Named
  <2> QED BY <2>1, <2>2, <2>3
<1> QED BY <1>2, <1>3 DEF PassWould

(* A survivor found survives, and a stale entry names none that does. *)
LEMMA FoundIsTrue ==
  ASSUME VerdictInv, AllReported
  PROVE  /\ \A m \in Survivors : truth[m] = "survives" /\ OnChange(m)
         /\ \A e \in Stale : Named(e, {"survives", "unjudged"}) = {}
<1>1. ASSUME NEW m \in Survivors PROVE truth[m] = "survives" /\ OnChange(m)
  BY FateOfReport DEF Survivors
<1>2. ASSUME NEW e \in Stale, NEW x \in Named(e, {"survives", "unjudged"}) PROVE FALSE
  <2>1. x \in Matched(e) /\ x \in Reported /\ truth[x] \in {"survives", "unjudged"}
    BY <1>2 DEF Named, Matched
  <2>2. report[x] # "LIVED"
    BY <1>2, <2>1 DEF Stale, SurvivorLines
  <2>3. /\ report[x] \notin {"NOT COVERED", "SKIPPED"}
        /\ ~(report[x] = "TIMED OUT" /\ ~Trusted)
    BY <1>2, <2>1 DEF Stale, Pending
  <2> QED BY <2>1, <2>2, <2>3, FateOfReport
<1> QED BY <1>1, <1>2

(* What is said of a selection and a report changes with these only. *)
LEMMA SameRun ==
  ASSUME UNCHANGED <<selectionVars, runVars>>
  PROVE  /\ PassWould' <=> PassWould
         /\ HangsOnly' <=> HangsOnly
         /\ AllReported' <=> AllReported
<1> USE DEF selectionVars, runVars
<1>1. Reported' = Reported /\ TimedOut' = TimedOut
  BY DEF Reported, TimedOut
<1>2. \A e : Matched(e)' = Matched(e)
  BY <1>1 DEF Matched
<1>3. \A e, f : Named(e, f)' = Named(e, f)
  BY <1>2 DEF Named
<1>4. \A m : Excused(m)' <=> Excused(m)
  BY <1>2, <1>3 DEF Excused
<1>5. \A e : Considered(e)' <=> Considered(e)
  BY <1>1 DEF Considered
<1>6. PassWould' <=> PassWould
  BY <1>1, <1>3, <1>4, <1>5 DEF PassWould, OnChange
<1>7. HangsOnly' <=> HangsOnly
  BY <1>1 DEF HangsOnly
<1>8. AllReported' <=> AllReported
  BY <1>1 DEF AllReported, Shown, StatusOf, Trusted, Trusts
<1> QED BY <1>6, <1>7, <1>8

(* What is named and matched depends on the selection alone. *)
LEMMA SameSelection ==
  ASSUME UNCHANGED selectionVars
  PROVE  /\ Reported' = Reported
         /\ \A e, f : Named(e, f)' = Named(e, f)
         /\ \A m : OnChange(m)' <=> OnChange(m)
<1> USE DEF selectionVars
<1>1. Reported' = Reported
  BY DEF Reported
<1>2. \A e : Matched(e)' = Matched(e)
  BY <1>1 DEF Matched
<1> QED BY <1>1, <1>2 DEF Named, OnChange

(* Choosing what to mutate, or failing to, keeps the invariant. *)
LEMMA SelectionKeeps ==
  ASSUME VerdictInv, SelectionFails \/ NothingToMutate \/ Select PROVE VerdictInv'
<1> USE DEF VerdictInv, selectionVars, runVars, verdictVars
<1>1. findings = {} /\ incomplete = FALSE /\ findings' = {} /\ incomplete' = FALSE
  BY DEF SelectionFails, NothingToMutate, Select
<1>2. CASE SelectionFails
  <2>1. PassMeansCaught' /\ FindingsAreTrue'
    BY <1>1, <1>2 DEF SelectionFails, PassMeansCaught, FindingsAreTrue
  <2> QED BY <1>1, <1>2, <2>1 DEF SelectionFails
<1>3. CASE NothingToMutate
  <2>1. files' = {} /\ accepted' = {} /\ Reported' = {} /\ TimedOut' = {}
    BY <1>3 DEF NothingToMutate, Reported, TimedOut
  <2>2. PassMeansCaught' /\ FindingsAreTrue'
    BY <1>1, <1>3, <2>1 DEF NothingToMutate, PassMeansCaught, FindingsAreTrue
  <2> QED BY <1>1, <1>3, <2>2 DEF NothingToMutate
<1>4. CASE Select
  <2>1. PassMeansCaught' /\ FindingsAreTrue'
    BY <1>1, <1>4 DEF Select, PassMeansCaught, FindingsAreTrue
  <2> QED BY <1>1, <1>4, <2>1 DEF Select
<1> QED BY <1>2, <1>3, <1>4

(* Gremlins says the fate of a mutant it ran, unless its limit cut it off. *)
LEMMA GremlinsRunKeeps ==
  ASSUME VerdictInv, RunGremlins \/ QueryFails \/ RunLonger PROVE VerdictInv'
<1> USE DEF VerdictInv, selectionVars, runVars, verdictVars
<1>1. /\ findings = {} /\ incomplete = FALSE /\ findings' = {} /\ incomplete' = FALSE
      /\ status' \in {"none", "broken"}
  BY DEF RunGremlins, QueryFails, RunLonger
<1>2. PassMeansCaught' /\ FindingsAreTrue'
  BY <1>1 DEF PassMeansCaught, FindingsAreTrue
<1>3. CASE RunGremlins
  <2>1. UNCHANGED <<selectionVars, coefficient>> /\ Reported' = Reported
    BY <1>3, SameSelection DEF RunGremlins
  <2>2. PICK skips \in {OffRunLines, Reported, {}} :
        \E slow \in SUBSET {m \in Reported \ skips : truth[m] \in {"caught", "survives"}} :
          /\ Trusts(elapsed') \/ skips # OffRunLines => slow = {}
          /\ report' = [m \in Reported |->
                          IF m \in skips THEN "SKIPPED"
                          ELSE IF m \in slow THEN "TIMED OUT" ELSE StatusOf(m)]
    BY <1>3 DEF RunGremlins
  <2>3. PICK slow \in SUBSET {m \in Reported \ skips : truth[m] \in {"caught", "survives"}} :
          /\ Trusts(elapsed') => slow = {}
          /\ report' = [m \in Reported |->
                          IF m \in skips THEN "SKIPPED"
                          ELSE IF m \in slow THEN "TIMED OUT" ELSE StatusOf(m)]
    BY <2>2
  <2>4. Trusted' = Trusts(elapsed') /\ \A m : StatusOf(m)' = StatusOf(m)
    BY <2>1 DEF Trusted, Trusts, StatusOf
  <2>5. ASSUME NEW m \in Reported PROVE Shown(m)'
    BY <2>1, <2>3, <2>4, <2>5 DEF Shown
  <2>6. AllReported'
    BY <2>1, <2>3, <2>5 DEF AllReported
  <2> QED BY <1>1, <1>2, <1>3, <2>6 DEF RunGremlins
<1>4. CASE QueryFails
  BY <1>1, <1>2, <1>4 DEF QueryFails
<1>5. CASE RunLonger
  BY <1>1, <1>2, <1>5 DEF RunLonger
<1> QED BY <1>3, <1>4, <1>5

(* Judging a report keeps the invariant, whatever the verdict. *)
LEMMA JudgeKeeps == ASSUME VerdictInv, Judge PROVE VerdictInv'
<1>1. /\ stage = "judge" /\ stage' = "answered" /\ AllReported /\ UNCHANGED <<selectionVars, runVars>>
      /\ findings = {} /\ incomplete = FALSE /\ status = "none"
  BY DEF Judge, VerdictInv
<1>2. files' \subseteq Files /\ accepted' \subseteq Entries /\ truth' \in [Mutants -> Fates]
  BY <1>1 DEF VerdictInv, selectionVars
<1>3. CASE Misread
  <2>1. status' = "broken" /\ findings' = {} /\ incomplete' = FALSE
    BY <1>1, <1>3 DEF Judge, verdictVars
  <2>2. PassMeansCaught' /\ FindingsAreTrue'
    BY <2>1 DEF PassMeansCaught, FindingsAreTrue
  <2> QED BY <1>1, <1>2, <2>1, <2>2 DEF VerdictInv
<1>4. CASE ~Misread
  <2>1. /\ findings' = ({"survived"} \X Survivors) \cup ({"ambiguous"} \X Ambiguous)
                         \cup ({"stale"} \X Stale)
                         \cup ({"timeout"} \X (IF Incomplete THEN TimedOut ELSE {}))
        /\ incomplete' = Incomplete /\ status' = "none"
    BY <1>1, <1>4 DEF Judge
  <2>2. incomplete' \in BOOLEAN /\ (incomplete' => findings' # {})
    <3>1. Incomplete \in BOOLEAN
      BY DEF Incomplete
    <3>2. ASSUME Incomplete PROVE findings' # {}
      <4>1. PICK m \in TimedOut : TRUE
        BY <3>2, IncompleteHasTimeouts
      <4>2. <<"timeout", m>> \in findings'
        BY <2>1, <3>2, <4>1
      <4> QED BY <4>2
    <3> QED BY <2>1, <3>1, <3>2
  <2>3. /\ \A m : <<"survived", m>> \in findings' => m \in Survivors
        /\ \A e : <<"stale", e>> \in findings' => e \in Stale
    <3> DEFINE T == IF Incomplete THEN TimedOut ELSE {}
    <3> HIDE DEF T
    <3>1. findings' = ({"survived"} \X Survivors) \cup ({"ambiguous"} \X Ambiguous)
                       \cup ({"stale"} \X Stale) \cup ({"timeout"} \X T)
      BY <2>1 DEF T
    <3>2. ASSUME NEW x
          PROVE  /\ <<"survived", x>> \in findings' => x \in Survivors
                 /\ <<"stale", x>> \in findings' => x \in Stale
      <4>1. \A k, j, S : <<k, x>> \in {j} \X S <=> k = j /\ x \in S
        OBVIOUS
      <4>2. /\ "survived" \notin {"ambiguous", "stale", "timeout"}
            /\ "stale" \notin {"survived", "ambiguous", "timeout"}
        OBVIOUS
      <4>3. \A k : <<k, x>> \in findings' <=>
              \/ k = "survived" /\ x \in Survivors
              \/ k = "ambiguous" /\ x \in Ambiguous
              \/ k = "stale" /\ x \in Stale
              \/ k = "timeout" /\ x \in T
        BY <3>1, <4>1, Zenon
      <4> QED BY <4>2, <4>3
    <3> QED BY <3>2
  <2>4. Truthful'
    <3>1. truth' = truth
      BY <1>1 DEF selectionVars
    <3> QED BY <1>1, <2>3, <3>1, FoundIsTrue, SameSelection DEF Truthful
  <2>5. findings' = {} => Survivors = {} /\ Stale = {} /\ ~Incomplete
    <3>1. \A m \in Survivors : <<"survived", m>> \in findings'
      BY <2>1
    <3>2. \A e \in Stale : <<"stale", e>> \in findings'
      BY <2>1
    <3> QED BY <2>1, <2>2, <3>1, <3>2
  <2>6. findings' = {} => PassWould'
    BY <1>1, <1>4, <2>5, PassesHideNothing, SameRun
  <2>7. ~incomplete' => HangsOnly'
    BY <1>1, <2>1, TrustedTimeoutsHang, SameRun
  <2>8. PassMeansCaught'
    BY <2>1 DEF PassMeansCaught
  <2>9. FindingsAreTrue'
    BY <1>1, <2>1, <2>4 DEF FindingsAreTrue, Truthful
  <2> QED BY <1>1, <1>2, <2>1, <2>2, <2>6, <2>7, <2>8, <2>9 DEF VerdictInv
<1> QED BY <1>3, <1>4

(* The status is the answer's, unless a context ended. *)
LEMMA ConcludeKeeps == ASSUME VerdictInv, Conclude PROVE VerdictInv'
<1> USE DEF VerdictInv
<1>1. /\ stage = "answered" /\ stage' = "done" /\ status' \in {Answer, "error", "cancelled"}
      /\ UNCHANGED <<selectionVars, runVars, verdictVars>> /\ status \in {"none", "broken"}
  BY DEF Conclude
<1>2. UNCHANGED <<findings, incomplete, files, accepted, truth>>
  BY <1>1 DEF verdictVars, selectionVars
<1>3. /\ status' \in {"passed", "failed"} => status = "none" /\ ~incomplete
      /\ status' = "passed" => status = "none" /\ findings = {}
  BY <1>1 DEF Answer
<1>4. Truthful
  BY DEF Truthful, FindingsAreTrue
<1>5. Truthful'
  BY <1>1, <1>2, <1>4, SameSelection DEF Truthful
<1>6. PassMeansCaught'
  BY <1>1, <1>3, SameRun DEF PassMeansCaught, PassWould
<1>7. FindingsAreTrue'
  BY <1>1, <1>2, <1>3, <1>5, SameRun DEF FindingsAreTrue, Truthful, HangsOnly
<1> QED BY <1>1, <1>2, <1>6, <1>7

(* Every step of a call keeps the invariant. *)
LEMMA VerdictStep == VerdictInv /\ [MutationNext]_mutationVars => VerdictInv'
<1> SUFFICES ASSUME VerdictInv, [MutationNext]_mutationVars PROVE VerdictInv'
  OBVIOUS
<1>1. CASE UNCHANGED mutationVars
  <2>1. UNCHANGED <<selectionVars, runVars, verdictVars, stage, status>>
    BY <1>1 DEF mutationVars, selectionVars, runVars, verdictVars
  <2>2. UNCHANGED <<findings, incomplete, files, accepted, truth, report>>
    BY <1>1 DEF mutationVars
  <2>3. Truthful'
    BY <2>1, <2>2, SameSelection DEF VerdictInv, Truthful, FindingsAreTrue
  <2>4. PassMeansCaught'
    BY <2>1, SameRun DEF VerdictInv, PassMeansCaught, PassWould
  <2>5. FindingsAreTrue'
    BY <2>1, <2>2, <2>3, SameRun DEF VerdictInv, FindingsAreTrue, Truthful, HangsOnly
  <2> QED BY <2>1, <2>2, <2>4, <2>5, SameRun DEF VerdictInv
<1> QED
  BY <1>1, SelectionKeeps, GremlinsRunKeeps, JudgeKeeps, ConcludeKeeps DEF MutationNext, MutationDone

(* The invariant holds in every state a behaviour reaches. *)
LEMMA VerdictAlways == MutationSpec => []VerdictInv
<1>1. MutationInit => VerdictInv
  BY VerdictInit DEF MutationInit
<1> QED BY <1>1, VerdictStep, PTL DEF MutationSpec

(***************************************************************************)
(* mutation.go:298-312: for any mutants, entries, limits and number of     *)
(* runs, a pass hides no survivor of the change and keeps no stale entry.  *)
(***************************************************************************)
THEOREM PassHidesNoSurvivor == MutationSpec => []PassMeansCaught
<1>1. VerdictInv => PassMeansCaught
  BY DEF VerdictInv
<1> QED BY <1>1, VerdictAlways, PTL

(***************************************************************************)
(* docs/mutation.md "Outcomes" and "Timeouts": no limit, however short,    *)
(* makes a caught mutant a survivor, an entry stale, or a timeout that is  *)
(* no hang a verdict.                                                      *)
(***************************************************************************)
THEOREM FoundMeansSurvived == MutationSpec => []FindingsAreTrue
<1>1. VerdictInv => FindingsAreTrue
  BY DEF VerdictInv
<1> QED BY <1>1, VerdictAlways, PTL

(***************************************************************************)
(* mutation.go:527: what is asked for is no shorter than what was, as that *)
(* was below the floor, and at most twice the floor, as a coverage time is *)
(* at least a millisecond.                                                 *)
(***************************************************************************)
LEMMA LongerIsBounded ==
  ASSUME NEW f \in Nat \ {0}, NEW e \in Nat \ {0}, NEW c \in Nat, e * c < f
  PROVE  (2 * f + e - 1) \div e \in c..2 * f
<1> DEFINE q == (2 * f + e - 1) \div e
           r == (2 * f + e - 1) % e
<1>1. 2 * f \in Nat /\ 2 * f + e - 1 \in Nat
  BY SMT
<1>2. q \in Nat /\ e * q >= 2 * f
  BY <1>1, RoundedUp
<1>3. r \in 0..e - 1 /\ 2 * f + e - 1 = e * q + r
  BY <1>1, SMT
<1> HIDE DEF q, r
<1>4. q >= c
  <2> SUFFICES ASSUME q < c PROVE FALSE
    BY <1>2, SMT
  <2>1. c - q \in Nat /\ e * (c - q) >= 0
    BY <1>2, SMT
  <2>2. e * (c - q) = e * c - e * q
    BY <1>2, SMT
  <2> QED BY <1>2, <2>1, <2>2, SMT
<1>5. q <= 2 * f
  <2> SUFFICES ASSUME q > 2 * f PROVE FALSE
    BY <1>1, <1>2, SMT
  <2> DEFINE d == q - (2 * f + 1)
             eq == e * q
             ef == e * (2 * f)
  <2>1. d \in Nat /\ e * d >= 0
    BY <1>1, <1>2, SMT
  <2>2. e * d = eq - ef - e
    BY <1>1, <1>2, SMT
  <2>3. ef >= 2 * f /\ ef \in Nat /\ eq \in Nat
    BY <1>1, <1>2, SMT
  <2>4. eq <= 2 * f + e - 1
    BY <1>1, <1>2, <1>3, SMT
  <2>5. eq - ef - e >= 0
    BY <2>1, <2>2
  <2> HIDE DEF eq, ef, d
  <2> QED BY <1>1, <2>3, <2>4, <2>5, SMT
<1> QED BY <1>1, <1>2, <1>4, <1>5, SMT DEF q

MutationInv == MutationTypeOK /\ RaisedFor /\ VerdictInv

(* Nothing is out of shape at first. *)
LEMMA MutationInvInit == MutationRest /\ stage \in {"idle", "start"} => MutationInv
<1> SUFFICES ASSUME MutationRest, stage \in {"idle", "start"} PROVE MutationTypeOK
  BY RaisedForInit, VerdictInit DEF MutationInv
<1>1. 1 \in 1..MaxRuns /\ Coefficient \in Coefficient..2 * Floor
  BY MutationAssumption, SMT DEF MutationAssumption
<1>2. truth \in [Mutants -> Fates]
  BY DEF MutationRest, Fates
<1> QED BY <1>1, <1>2 DEF MutationRest, MutationTypeOK

(* Steps of the host keep the shapes. *)
LEMMA HostShapes ==
  ASSUME MutationInv, SelectionFails \/ NothingToMutate \/ Select \/ Conclude
  PROVE  MutationTypeOK'
<1> USE DEF MutationInv, MutationTypeOK, selectionVars, runVars, verdictVars
<1>1. CASE SelectionFails \/ NothingToMutate
  <2>1. Reported' = Reported
    BY <1>1 DEF SelectionFails, NothingToMutate, Reported
  <2> QED BY <1>1, <2>1 DEF SelectionFails, NothingToMutate
<1>2. CASE Conclude
  <2>1. Reported' = Reported
    BY <1>2 DEF Conclude, Reported
  <2>2. status' \in {"passed", "failed", "incomplete", "error", "cancelled"}
    BY <1>2 DEF Conclude, Answer
  <2> QED BY <1>2, <2>1, <2>2 DEF Conclude
<1>3. CASE Select
  <2>1. report = NoReport /\ report' = NoReport
    BY <1>3 DEF Select, VerdictInv
  <2>2. files' \subseteq Files /\ changed' \subseteq Lines /\ accepted' \subseteq Entries
    BY <1>3 DEF Select, LinesOf
  <2> QED BY <1>3, <2>1, <2>2 DEF Select
<1> QED BY <1>1, <1>2, <1>3

(* Runs of gremlins keep them. *)
LEMMA RunShapes ==
  ASSUME MutationInv, RunGremlins \/ QueryFails \/ RunLonger PROVE MutationTypeOK'
<1> USE DEF MutationInv, MutationTypeOK, selectionVars, runVars, verdictVars
<1>1. Reported' = Reported
  BY DEF RunGremlins, QueryFails, RunLonger, Reported
<1>2. CASE RunGremlins
  <2>1. \A m \in Reported : StatusOf(m) \in Statuses
    <3>1. \A m \in Reported : m \in Mutants /\ truth[m] \in Fates
      BY DEF Reported
    <3> QED BY <3>1 DEF StatusOf, Fates, Statuses
  <2>2. report' \in [Reported -> Statuses]
    <3>1. PICK skips \in {OffRunLines, Reported, {}} :
            \E slow \in SUBSET {m \in Reported \ skips : truth[m] \in {"caught", "survives"}} :
              report' = [m \in Reported |->
                           IF m \in skips THEN "SKIPPED"
                           ELSE IF m \in slow THEN "TIMED OUT" ELSE StatusOf(m)]
      BY <1>2 DEF RunGremlins
    <3>2. PICK slow \in SUBSET {m \in Reported \ skips : truth[m] \in {"caught", "survives"}} :
            report' = [m \in Reported |->
                         IF m \in skips THEN "SKIPPED"
                         ELSE IF m \in slow THEN "TIMED OUT" ELSE StatusOf(m)]
      BY <3>1
    <3> QED BY <2>1, <3>2 DEF Statuses
  <2> QED BY <1>1, <1>2, <2>2 DEF RunGremlins
<1>3. CASE QueryFails
  BY <1>1, <1>3 DEF QueryFails
<1>4. CASE RunLonger
  <2>2. Floor \in Nat \ {0} /\ Coefficient \in Nat /\ MaxRuns \in Nat
    BY MutationAssumption DEF MutationAssumption
  <2>3. coefficient \in Nat /\ coefficient >= Coefficient
    BY <2>2, SMT
  <2>1. elapsed \in Nat \ {0} /\ elapsed * coefficient < Floor
    <3>1. elapsed > 0 /\ ~(elapsed > 0 /\ elapsed * coefficient >= Floor)
      BY <1>4 DEF RunLonger, TooShort, Trusted, Trusts
    <3>2. elapsed \in Nat
      BY MutationAssumption DEF MutationAssumption
    <3> DEFINE limit == elapsed * coefficient
    <3>3. limit \in Nat
      BY <2>3, <3>2, SMT
    <3> HIDE DEF limit
    <3>4. limit < Floor /\ elapsed \in Nat \ {0}
      BY <2>2, <3>1, <3>2, <3>3, SMT DEF limit
    <3> QED BY <3>4 DEF limit
  <2>4. coefficient' \in coefficient..2 * Floor
    BY <1>4, <2>1, <2>2, <2>3, LongerIsBounded DEF RunLonger, LongerCoefficient
  <2>5. coefficient' \in Coefficient..2 * Floor
    BY <2>2, <2>3, <2>4, SMT
  <2>6. attempt' \in 1..MaxRuns
    BY <1>4, <2>2, SMT DEF RunLonger
  <2> QED BY <1>4, <2>5, <2>6 DEF RunLonger
<1> QED BY <1>2, <1>3, <1>4

(* And so does the verdict: it is of mutants that were reported. *)
LEMMA JudgeShapes == ASSUME MutationInv, Judge PROVE MutationTypeOK'
<1> USE DEF MutationInv
<1>1. /\ stage' = "answered" /\ status' \in {status, "broken"}
      /\ UNCHANGED <<files, changed, accepted, truth, attempt, coefficient, elapsed, report>>
  BY DEF Judge, selectionVars, runVars
<1>2. Reported' = Reported
  BY <1>1 DEF Reported
<1>3. /\ incomplete' \in BOOLEAN
      /\ findings' \subseteq ({"survived", "timeout"} \X Mutants)
                              \cup ({"ambiguous", "stale"} \X Entries)
  <2>1. CASE Misread
    BY <2>1 DEF Judge, verdictVars, MutationTypeOK
  <2>2. CASE ~Misread
    <3>1. Incomplete \in BOOLEAN
      BY DEF Incomplete
    <3>2. /\ Survivors \subseteq Mutants /\ TimedOut \subseteq Mutants
          /\ Ambiguous \subseteq Entries /\ Stale \subseteq Entries
      BY DEF Survivors, TimedOut, Ambiguous, Stale, Reported, MutationTypeOK
    <3> DEFINE T == IF Incomplete THEN TimedOut ELSE {}
    <3>3. T \subseteq Mutants
      BY <3>2
    <3> HIDE DEF T
    <3>4. findings' = ({"survived"} \X Survivors) \cup ({"ambiguous"} \X Ambiguous)
                       \cup ({"stale"} \X Stale) \cup ({"timeout"} \X T)
      BY <2>2 DEF Judge, T
    <3>5. /\ {"survived"} \X Survivors \subseteq {"survived", "timeout"} \X Mutants
          /\ {"timeout"} \X T \subseteq {"survived", "timeout"} \X Mutants
          /\ {"ambiguous"} \X Ambiguous \subseteq {"ambiguous", "stale"} \X Entries
          /\ {"stale"} \X Stale \subseteq {"ambiguous", "stale"} \X Entries
      BY <3>2, <3>3
    <3> QED BY <2>2, <3>1, <3>4, <3>5 DEF Judge
  <2> QED BY <2>1, <2>2
<1> QED BY <1>1, <1>2, <1>3 DEF MutationTypeOK

(* Every step of a call keeps the whole invariant. *)
LEMMA MutationInvStep == MutationInv /\ [MutationNext]_mutationVars => MutationInv'
<1> SUFFICES ASSUME MutationInv, [MutationNext]_mutationVars PROVE MutationTypeOK'
  BY RaisedForStep, VerdictStep DEF MutationInv
<1>1. CASE UNCHANGED mutationVars
  <2>1. Reported' = Reported
    BY <1>1 DEF mutationVars, Reported
  <2> QED BY <1>1, <2>1 DEF mutationVars, MutationInv, MutationTypeOK
<1> QED BY <1>1, HostShapes, RunShapes, JudgeShapes DEF MutationNext, MutationDone

(***************************************************************************)
(* Type correctness: in particular a coefficient is never lowered, and is  *)
(* at most what a coverage time of a millisecond asks for.                 *)
(***************************************************************************)
THEOREM MutationTypeCorrect == MutationSpec => []MutationTypeOK
<1>1. MutationInit => MutationInv
  BY MutationInvInit DEF MutationInit
<1>2. MutationInv => MutationTypeOK
  BY DEF MutationInv
<1> QED BY <1>1, <1>2, MutationInvStep, PTL DEF MutationSpec

-------------------------------------------------------------------------------
(***************************************************************************)
(* The Go check tools and the pinned releases, for any checks, of any      *)
(* kinds and checkouts, beside one another, and any number of mishaps.     *)
(***************************************************************************)
USE NativeToolsAssumption

(***************************************************************************)
(* A lock has one holder.  Whoever has compiled, hashed or fetched holds   *)
(* its own checkout's bytes; a file has its path's version unless somebody *)
(* wrote it; and what a check is about to publish or run is not, or is,    *)
(* where it belongs.                                                       *)
(***************************************************************************)
ToolResults ==
  [status : {"none", "passed", "failed", "error", "cancelled"},
   fact : Truths \cup {"unknown", "nothing"}]

HasTool(c) ==
  \/ toolStep[c] \in {"look", "publish", "install"}
  \/ toolStep[c] = "wait" /\ ~Pinned(c)

OneHolder ==
  \A c, d \in ToolChecks :
    Locking(c) /\ Locking(d) /\ ToolLock(c) = ToolLock(d) => c = d
HeldIsOwn == \A c \in ToolChecks : HasTool(c) => held[c] = CheckoutOf[c]
StepOfKind ==
  \A c \in ToolChecks :
    /\ toolStep[c] \in {"fetch", "install"} => Pinned(c)
    /\ toolStep[c] \in {"look", "publish"} => ~Pinned(c)
FilesUntouched == mishaps = 0 => \A p \in DOMAIN cacheFiles : cacheFiles[p] = p.version
PublishFree ==
  mishaps = 0 => \A c \in ToolChecks :
    toolStep[c] = "publish" => ToolPath(c) \notin DOMAIN cacheFiles
RunGenuine == \A c \in ToolChecks : toolStep[c] = "run" => RunsGenuine(c)

ToolInv ==
  /\ ToolTypeOK /\ toolResult \in [ToolChecks -> ToolResults]
  /\ OneHolder /\ HeldIsOwn /\ StepOfKind /\ FilesUntouched /\ PublishFree /\ RunGenuine
  /\ ToolVerdictIsTrue

(* A run that ended is judged one way or another, whatever it printed. *)
LEMMA VerdictOfType ==
  ASSUME NEW kind, NEW run PROVE VerdictOf(kind, run) \in {"passed", "failed", "error"}
<1>1. TestVerdict(run) \in {"passed", "failed", "error"}
  BY DEF TestVerdict
<1>2. ModVerdict(run) \in {"passed", "failed", "error"}
  BY DEF ModVerdict
<1>3. \A fails, entries : ReportVerdict(fails, run, entries) \in {"passed", "failed", "error"}
  BY DEF ReportVerdict
<1>4. ToolExit(kind, run) \in {"passed", "failed", "error"}
  BY SMT DEF ToolExit
<1>5. ZizmorVerdict(run) \in {"passed", "failed", "error"}
  BY SMT DEF ZizmorVerdict
<1>6. GocheckVerdict(run) \in {"passed", "failed", "error"}
  BY <1>3 DEF GocheckVerdict
<1> HIDE DEF TestVerdict, ModVerdict, ReportVerdict, ToolExit, ZizmorVerdict, GocheckVerdict
<1> QED
  BY <1>1, <1>2, <1>3, <1>4, <1>5, <1>6, SMT
     DEF VerdictOf, SecretsVerdict, ShellVerdict, DepsVerdict

(***************************************************************************)
(* A report of a linter, a scanner or a release, with entries that do not  *)
(* count on the side: it fails the check if it has an entry that counts,   *)
(* and says error if the run was cut short or disagrees with its exit code.*)
(***************************************************************************)
LEMMA ReportIsTrue ==
  ASSUME NEW fact \in Truths, NEW fails \in Nat \ {0, 2}, NEW aside,
         "real" \notin aside, "malformed" \notin aside,
         NEW run \in Reports(fact, fails, aside)
  PROVE  ReportVerdict(fails, run, run.entries \ aside) = TrueVerdict(fact)
<1>1. CASE fact = "clean"
  <2>1. run = Report(0, aside)
    BY <1>1 DEF Reports
  <2> QED BY <1>1, <2>1 DEF Report, ReportVerdict, TrueVerdict
<1>2. CASE fact = "found"
  <2>1. run \in {Report(fails, {"real"}), Report(fails, {"real"} \cup aside)}
    BY <1>2 DEF Reports
  <2>2. /\ run.exit = fails /\ run.readable
        /\ run.entries \ aside = {"real"}
    BY <2>1 DEF Report
  <2> QED BY <1>2, <2>2 DEF ReportVerdict, TrueVerdict
<1>3. CASE fact = "failed"
  <2>1. run \in {Report(2, {}), CutShort(Report(0, {})), CutShort(Report(fails, {})),
                 Report(fails, {}), Report(0, {"real"}), Report(fails, {"real", "malformed"})}
    BY <1>3 DEF Reports
  <2>2. \/ run.exit \notin {0, fails} \/ ~run.readable
        \/ (run.exit = 0) # (run.entries \ aside = {})
        \/ "malformed" \in run.entries \ aside
    BY <2>1 DEF Report, CutShort
  <2> QED BY <1>3, <2>2 DEF ReportVerdict, TrueVerdict
<1> QED BY <1>1, <1>2, <1>3 DEF Truths

(* Go's tests: a package that was not built, or a cut list, is no verdict. *)
LEMMA TestIsTrue ==
  ASSUME NEW fact \in Truths, NEW run \in TestRuns(fact)
  PROVE  TestVerdict(run) = TrueVerdict(fact)
<1>1. CASE fact = "clean"
  BY <1>1 DEF TestRuns, Tests, TestVerdict, TrueVerdict
<1>2. CASE fact = "found"
  <2>1. run \in {Tests(1, FALSE, TRUE, TRUE), Tests(0, FALSE, TRUE, TRUE),
                Tests(1, FALSE, TRUE, FALSE)}
    BY <1>2 DEF TestRuns
  <2> QED BY <1>2, <2>1 DEF Tests, TestVerdict, TrueVerdict
<1>3. CASE fact = "failed"
  <2>1. run \in {Tests(0, FALSE, FALSE, FALSE), Tests(1, TRUE, TRUE, TRUE),
                Tests(1, FALSE, FALSE, TRUE), Tests(2, FALSE, FALSE, FALSE),
                CutShort(Tests(1, FALSE, TRUE, FALSE)), CutShort(Tests(0, FALSE, FALSE, TRUE))}
    BY <1>3 DEF TestRuns
  <2> QED BY <1>3, <2>1 DEF Tests, CutShort, TestVerdict, TrueVerdict
<1> QED BY <1>1, <1>2, <1>3 DEF Truths

(* go mod's two commands: one that failed outweighs one that disagrees. *)
LEMMA ModIsTrue ==
  ASSUME NEW fact \in Truths, NEW runs \in ModRuns(fact)
  PROVE  ModVerdict(runs) = TrueVerdict(fact)
<1>1. \A a, b : {ModStep(<<a, b>>[i]) : i \in DOMAIN <<a, b>>} = {ModStep(a), ModStep(b)}
  OBVIOUS
<1>2. /\ ModStep(Tidy(0, FALSE)) = "passed"
      /\ ModStep(Tidy(1, TRUE)) = "failed"
      /\ ModStep(Tidy(1, FALSE)) = "error"
  BY DEF ModStep, Tidy
<1> DEFINE Whole(of) ==
      IF "error" \in of THEN "error" ELSE IF "failed" \in of THEN "failed" ELSE "passed"
<1>3. \A a, b : ModVerdict(<<a, b>>) = Whole({ModStep(a), ModStep(b)})
  BY <1>1 DEF ModVerdict
<1>4. CASE fact = "clean"
  BY <1>2, <1>3, <1>4 DEF ModRuns, TrueVerdict
<1>5. CASE fact = "found"
  <2>1. runs \in {<<Tidy(1, TRUE), Tidy(0, FALSE)>>, <<Tidy(0, FALSE), Tidy(1, TRUE)>>}
    BY <1>5 DEF ModRuns
  <2>2. ModVerdict(runs) = "failed"
    BY <1>2, <1>3, <2>1
  <2> QED BY <1>5, <2>2 DEF TrueVerdict
<1>6. CASE fact = "failed"
  <2>1. runs \in {<<Tidy(1, FALSE), Tidy(0, FALSE)>>, <<Tidy(1, TRUE), Tidy(1, FALSE)>>}
    BY <1>6 DEF ModRuns
  <2>2. ModVerdict(runs) = "error"
    BY <1>2, <1>3, <2>1
  <2> QED BY <1>6, <2>2 DEF TrueVerdict
<1> QED BY <1>4, <1>5, <1>6 DEF Truths

(* A tool that finds something exits with its code for that, and says it. *)
LEMMA ExitIsTrue ==
  ASSUME NEW fact \in Truths, NEW fails \in {1, 3, 13}, NEW run \in ExitRuns(fact, fails)
  PROVE  (CASE run.exit = 0 -> "passed"
            [] run.exit = fails /\ run.text -> "failed"
            [] OTHER -> "error") = TrueVerdict(fact)
<1>1. CASE fact = "clean"
  <2>1. run.exit = 0
    BY <1>1 DEF ExitRuns, Ran
  <2> QED BY <1>1, <2>1, SMT DEF TrueVerdict
<1>2. CASE fact = "found"
  <2>1. run.exit = fails /\ run.text
    BY <1>2 DEF ExitRuns, Ran
  <2> QED BY <1>2, <2>1, SMT DEF TrueVerdict
<1>3. CASE fact = "failed"
  <2>1. run \in {Ran(fails, FALSE), Ran(2, TRUE), Ran(IF fails = 1 THEN 3 ELSE 1, TRUE)}
    BY <1>3 DEF ExitRuns
  <2>2. run.exit # 0 /\ (run.exit = fails => ~run.text)
    BY <2>1 DEF Ran
  <2> QED BY <1>3, <2>2, SMT DEF TrueVerdict
<1> QED BY <1>1, <1>2, <1>3 DEF Truths

(***************************************************************************)
(* A tool of any kind that says what there is to find is judged by that,   *)
(* whichever of its kind's forms its run takes.                            *)
(***************************************************************************)
LEMMA VerdictIsTrue ==
  ASSUME NEW kind, NEW fact \in Truths, NEW run \in RunsOf(kind, fact)
  PROVE  VerdictOf(kind, run) \in TrueVerdicts(kind, fact)
<1> SUFFICES \/ VerdictOf(kind, run) = TrueVerdict(fact)
             \/ VerdictOf(kind, run) = "failed" /\ Indistinct(kind, fact)
  BY DEF TrueVerdicts
<1> DEFINE GocheckKinds == {"go-imports", "go-lint"}
<1>1. CASE kind = "go-test"
  BY <1>1, TestIsTrue DEF RunsOf, VerdictOf
<1>2. CASE kind = "go-mod"
  BY <1>2, ModIsTrue DEF RunsOf, VerdictOf
<1>3. \A entries : entries \ {} = entries
  OBVIOUS
<1>4. CASE kind = "secrets"
  <2>1. ReportVerdict(3, run, run.entries \ {}) = TrueVerdict(fact)
    BY <1>4, ReportIsTrue DEF RunsOf
  <2> QED BY <1>3, <1>4, <2>1 DEF VerdictOf, SecretsVerdict
<1>5. CASE kind = "shell-lint"
  <2>1. ReportVerdict(1, run, run.entries \ {}) = TrueVerdict(fact)
    BY <1>5, ReportIsTrue DEF RunsOf
  <2> QED BY <1>3, <1>5, <2>1 DEF VerdictOf, ShellVerdict
<1>6. CASE kind = "deps-vuln"
  <2>1. ReportVerdict(1, run, run.entries \ {"uncounted"}) = TrueVerdict(fact)
    BY <1>6, ReportIsTrue DEF RunsOf
  <2> QED BY <1>6, <2>1 DEF VerdictOf, DepsVerdict
<1>7. CASE kind = "workflow-security"
  <2>1. run \in ExitRuns(fact, 13)
    BY <1>7 DEF RunsOf
  <2>2. run.exit # 14
    BY <2>1 DEF ExitRuns, Ran
  <2>3. VerdictOf(kind, run) = ZizmorVerdict(run)
    BY <1>7 DEF VerdictOf
  <2>4. ZizmorVerdict(run) = CASE run.exit = 0 -> "passed"
                               [] run.exit = 13 /\ run.text -> "failed"
                               [] OTHER -> "error"
    BY <2>2, SMT DEF ZizmorVerdict
  <2> QED BY <2>1, <2>3, <2>4, ExitIsTrue
<1>8. CASE kind \in GocheckKinds
  <2>1. VerdictOf(kind, run) = GocheckVerdict(run)
    BY <1>8 DEF VerdictOf
  <2>2. CASE run \in Reports(fact, 1, {})
    <3>1. ReportVerdict(1, run, run.entries \ {}) = TrueVerdict(fact)
      BY <2>2, ReportIsTrue
    <3>2. ~run.stderr
      <4>1. \A exit, entries :
              /\ Report(exit, entries).stderr = FALSE
              /\ CutShort(Report(exit, entries)).stderr = FALSE
        BY DEF Report, CutShort
      <4>2. \E exit, entries : run \in {Report(exit, entries), CutShort(Report(exit, entries))}
        BY <2>2 DEF Reports
      <4> QED BY <4>1, <4>2
    <3> QED BY <1>3, <2>1, <3>1, <3>2 DEF GocheckVerdict
  <2>3. CASE run \notin Reports(fact, 1, {})
    <3>1. fact = "failed" /\ run = [Report(0, {}) EXCEPT !.stderr = TRUE]
      BY <1>8, <2>3 DEF RunsOf
    <3> QED BY <2>1, <3>1 DEF Report, GocheckVerdict, TrueVerdict
  <2> QED BY <2>2, <2>3
<1>9. CASE kind \notin {"go-test", "go-mod", "secrets", "shell-lint", "deps-vuln",
                        "workflow-security"} \cup GocheckKinds
  <2>1. \/ run \in ExitRuns(fact, FailureCode(kind))
        \/ run = Ran(1, TRUE) /\ Indistinct(kind, fact)
    BY <1>9 DEF RunsOf, FailureCode, Indistinct
  <2>2. VerdictOf(kind, run) = ToolExit(kind, run)
    BY <1>9 DEF VerdictOf
  <2>3. FailureCode(kind) \in {1, 3, 13}
    BY DEF FailureCode
  <2>4. CASE run \in ExitRuns(fact, FailureCode(kind))
    BY <2>2, <2>3, <2>4, ExitIsTrue DEF ToolExit
  <2>5. CASE run = Ran(1, TRUE) /\ Indistinct(kind, fact)
    <3>1. run.exit = 1 /\ run.text /\ FailureCode(kind) = 1
      BY <2>5 DEF Ran, Indistinct, FailureCode
    <3>2. ToolExit(kind, run) = "failed"
      BY <3>1, SMT DEF ToolExit
    <3> QED BY <2>2, <2>5, <3>2
  <2> QED BY <2>1, <2>4, <2>5
<1> QED BY <1>1, <1>2, <1>4, <1>5, <1>6, <1>7, <1>8, <1>9

(* Before any check begins, nothing is published and nothing went wrong. *)
LEMMA ToolInvInit ==
  ASSUME ToolRest, NEW some \in SUBSET ToolChecks, BeginTools(some) PROVE ToolInv
<1>1. /\ toolStep \in [ToolChecks -> {"idle", "start"}]
      /\ \A c \in ToolChecks : toolResult[c] = NoResult /\ held[c] = Nothing
  BY DEF ToolRest, BeginTools
<1>2. ToolTypeOK /\ toolResult \in [ToolChecks -> ToolResults]
  BY <1>1 DEF ToolRest, ToolTypeOK, ToolSteps, ToolResults, NoResult
<1>3. OneHolder /\ HeldIsOwn /\ StepOfKind /\ PublishFree /\ RunGenuine
  BY <1>1 DEF OneHolder, HeldIsOwn, StepOfKind, PublishFree, RunGenuine, HasTool, Locking
<1>4. FilesUntouched /\ ToolVerdictIsTrue
  BY <1>1 DEF ToolRest, FilesUntouched, ToolVerdictIsTrue, NoResult
<1> QED BY <1>2, <1>3, <1>4 DEF ToolInv

(***************************************************************************)
(* A check that goes on keeps the invariant if it does so with a lock that *)
(* was free and a tool that is its own.                                    *)
(***************************************************************************)
LEMMA ToolGoes ==
  ASSUME ToolInv, NEW c \in ToolChecks, NEW step \in ToolSteps \ {"done"}, toolStep[c] # "done",
         ToolGoto(c, step),
         held' \in {held, [held EXCEPT ![c] = CheckoutOf[c]]},
         mishaps' \in 0..MaxMishaps, mishaps <= mishaps',
         Locking(c)' => Locking(c) \/ LockFree(c),
         HasTool(c)' => held'[c] = CheckoutOf[c],
         step \in {"fetch", "install"} => Pinned(c),
         step \in {"look", "publish"} => ~Pinned(c),
         FilesUntouched', PublishFree', RunGenuine'
  PROVE  ToolInv'
<1>1. /\ toolStep' = [toolStep EXCEPT ![c] = step]
      /\ toolStep \in [ToolChecks -> ToolSteps]
      /\ toolResult' = toolResult /\ toolStopped' = toolStopped
  BY DEF ToolGoto, ToolInv, ToolTypeOK
<1>2. /\ toolStep'[c] = step
      /\ \A d \in ToolChecks \ {c} : toolStep'[d] = toolStep[d]
  BY <1>1
<1>3. \A d \in ToolChecks \ {c} : held'[d] = held[d]
  BY DEF ToolInv, ToolTypeOK
<1>4. ToolTypeOK' /\ (toolResult \in [ToolChecks -> ToolResults])'
  <2>1. held' \in [ToolChecks -> {Nothing, Foreign} \cup {CheckoutOf[d] : d \in ToolChecks}]
    BY DEF ToolInv, ToolTypeOK
  <2> QED BY <1>1, <1>2, <2>1 DEF ToolInv, ToolTypeOK
<1>5. OneHolder'
  BY <1>2 DEF ToolInv, OneHolder, Locking, LockFree, ToolLock, Pinned, ToolPath
<1>6. HeldIsOwn'
  BY <1>2, <1>3 DEF ToolInv, HeldIsOwn, HasTool, Pinned
<1>7. StepOfKind'
  BY <1>2 DEF ToolInv, StepOfKind, Pinned
<1>8. ToolVerdictIsTrue'
  BY <1>1 DEF ToolInv, ToolTypeOK, ToolVerdictIsTrue
<1> QED BY <1>4, <1>5, <1>6, <1>7, <1>8 DEF ToolInv

(* A check that ends keeps the invariant if what it says of itself is so. *)
LEMMA ToolEnds ==
  ASSUME ToolInv, NEW c \in ToolChecks, toolStep[c] # "done",
         NEW ending \in {"passed", "failed", "error", "cancelled"},
         NEW fact \in Truths \cup {"unknown", "nothing"},
         EndTool(c, ending, fact),
         held' = held, cacheFiles' = cacheFiles,
         mishaps' \in 0..MaxMishaps, mishaps <= mishaps',
         ending \in {"passed", "failed"} =>
           fact \in Truths /\ ending \in TrueVerdicts(ToolKindOf[c], fact),
         ending = "error" => fact \in {"failed", "nothing"} \/ mishaps' > 0,
         ending = "cancelled" => c \in toolStopped
  PROVE  ToolInv'
<1> DEFINE said == IF c \in toolStopped THEN "cancelled" ELSE ending
<1>1. /\ toolStep' = [toolStep EXCEPT ![c] = "done"]
      /\ toolStep \in [ToolChecks -> ToolSteps]
      /\ toolResult' = [toolResult EXCEPT ![c] = [status |-> said, fact |-> fact]]
      /\ toolResult \in [ToolChecks -> ToolResults]
      /\ toolStopped' = toolStopped
  BY DEF EndTool, ToolInv, ToolTypeOK
<1>2. /\ toolStep'[c] = "done"
      /\ \A d \in ToolChecks \ {c} : toolStep'[d] = toolStep[d]
      /\ toolResult'[c] = [status |-> said, fact |-> fact]
      /\ \A d \in ToolChecks \ {c} : toolResult'[d] = toolResult[d]
  BY <1>1
<1>3. said \in {"passed", "failed", "error", "cancelled"}
  OBVIOUS
<1>4. ToolTypeOK' /\ (toolResult \in [ToolChecks -> ToolResults])'
  <2>1. toolResult' \in [ToolChecks -> ToolResults]
    BY <1>1, <1>3 DEF ToolResults
  <2>2. toolStep' \in [ToolChecks -> ToolSteps]
    BY <1>1 DEF ToolSteps
  <2>3. \A d \in ToolChecks :
          /\ toolResult'[d].fact \in Truths \cup {"unknown", "nothing"}
          /\ toolResult'[d].status \in {"none", "passed", "failed", "error", "cancelled"}
          /\ (toolResult'[d].status = "none") = (toolStep'[d] # "done")
    BY <1>2, <1>3 DEF ToolInv, ToolTypeOK
  <2> QED BY <1>1, <2>1, <2>2, <2>3 DEF ToolInv, ToolTypeOK
<1>5. OneHolder'
  BY <1>2 DEF ToolInv, OneHolder, Locking, ToolLock, Pinned, ToolPath
<1>6. HeldIsOwn' /\ StepOfKind'
  BY <1>2 DEF ToolInv, HeldIsOwn, StepOfKind, HasTool, Pinned
<1>7. (mishaps' = 0) => mishaps = 0
  BY DEF ToolInv, ToolTypeOK
<1>8. FilesUntouched' /\ PublishFree' /\ RunGenuine'
  BY <1>2, <1>7
     DEF ToolInv, FilesUntouched, PublishFree, RunGenuine, RunsGenuine, Content, ToolPath
<1>9. ToolVerdictIsTrue'
  <2>1. \A d \in ToolChecks \ {c} :
          toolResult[d].status = "error" =>
            toolResult[d].fact \in {"failed", "nothing"} \/ mishaps' > 0
    BY DEF ToolInv, ToolTypeOK, ToolVerdictIsTrue
  <2> QED BY <1>1, <1>2, <2>1 DEF ToolInv, ToolVerdictIsTrue
<1> QED BY <1>4, <1>5, <1>6, <1>8, <1>9 DEF ToolInv

(* What goes wrong is counted, and counts as one thing more. *)
LEMMA MishapCounts ==
  ASSUME ToolInv, Mishap
  PROVE  mishaps' \in 0..MaxMishaps /\ mishaps <= mishaps' /\ mishaps' > 0
BY DEF ToolInv, ToolTypeOK, Mishap

(* While the files stay as they are, only what a check goes on to matters. *)
LEMMA FilesStay ==
  ASSUME ToolInv, NEW c \in ToolChecks, NEW step,
         toolStep' = [toolStep EXCEPT ![c] = step], cacheFiles' = cacheFiles,
         mishaps' \in 0..MaxMishaps, mishaps <= mishaps',
         step = "publish" /\ mishaps = 0 => ToolPath(c) \notin DOMAIN cacheFiles,
         step = "run" => RunsGenuine(c)
  PROVE  FilesUntouched' /\ PublishFree' /\ RunGenuine'
<1>1. (mishaps' = 0) => mishaps = 0
  BY DEF ToolInv, ToolTypeOK
<1>2. /\ toolStep'[c] = step
      /\ \A d \in ToolChecks \ {c} : toolStep'[d] = toolStep[d]
  BY DEF ToolInv, ToolTypeOK
<1> QED
  BY <1>1, <1>2
     DEF ToolInv, FilesUntouched, PublishFree, RunGenuine, RunsGenuine, Content, ToolPath

(* The steps that neither read nor write the directory. *)
LEMMA ToolKeepsAside ==
  ASSUME ToolInv, NEW c \in ToolChecks,
         \/ NothingToCheck(c) \/ Preflight(c) \/ CompileTool(c) \/ TakeToolLock(c)
         \/ ToolFails(c) \/ GiveUp(c) \/ ProcessDies(c)
  PROVE  ToolInv'
<1> USE DEF ToolInv
<1>1. mishaps \in 0..MaxMishaps /\ mishaps <= mishaps
  BY DEF ToolTypeOK
<1>2. CASE NothingToCheck(c) \/ GiveUp(c)
  <2>1. toolStep[c] # "done"
    BY <1>2 DEF NothingToCheck, GiveUp
  <2>2. CASE NothingToCheck(c)
    BY <1>1, <2>1, <2>2, ToolEnds DEF NothingToCheck
  <2>3. CASE GiveUp(c)
    BY <1>1, <2>1, <2>3, ToolEnds DEF GiveUp
  <2> QED BY <1>2, <2>2, <2>3
<1>3. CASE ToolFails(c)
  <2>1. toolStep[c] # "done" /\ EndTool(c, "error", "unknown") /\ UNCHANGED <<held, cacheFiles>>
    BY <1>3 DEF ToolFails
  <2> QED BY <1>3, <2>1, MishapCounts, ToolEnds DEF ToolFails
<1>4. CASE Preflight(c)
  <2>1. PICK step \in {"wait", "compile", "run"} :
          /\ ToolGoto(c, step)
          /\ step = "wait" => Pinned(c)
          /\ step = "run" => ToolKindOf[c] \in HostKinds
    <3>1. CASE Pinned(c)
      BY <1>4, <3>1 DEF Preflight, HostKinds, ReleaseKinds, Pinned
    <3>2. CASE ~Pinned(c) /\ Compiled(c)
      BY <1>4, <3>2 DEF Preflight
    <3>3. CASE ~Pinned(c) /\ ~Compiled(c)
      BY <1>4, <3>3 DEF Preflight, Pinned, Compiled
    <3> QED BY <3>1, <3>2, <3>3
  <2>2. toolStep' = [toolStep EXCEPT ![c] = step] /\ toolStep'[c] = step /\ toolStep[c] = "start"
    BY <1>4, <2>1 DEF Preflight, ToolGoto, ToolTypeOK
  <2>3. step \in ToolSteps \ {"done"} /\ UNCHANGED <<held, cacheFiles, mishaps>>
    BY <1>4 DEF Preflight, ToolSteps
  <2>4. FilesUntouched' /\ PublishFree' /\ RunGenuine'
    BY <1>1, <2>1, <2>2, <2>3, FilesStay DEF RunsGenuine
  <2>5. ~Locking(c)' /\ ~HasTool(c)'
    BY <2>1, <2>2 DEF Locking, HasTool, Pinned
  <2> QED BY <1>1, <2>1, <2>2, <2>3, <2>4, <2>5, ToolGoes
<1>5. CASE CompileTool(c)
  <2>1. /\ toolStep[c] = "compile" /\ ToolGoto(c, "wait")
        /\ held' = [held EXCEPT ![c] = CheckoutOf[c]] /\ UNCHANGED <<cacheFiles, mishaps>>
    BY <1>5 DEF CompileTool
  <2>2. toolStep' = [toolStep EXCEPT ![c] = "wait"] /\ toolStep'[c] = "wait"
    BY <2>1 DEF ToolGoto, ToolTypeOK
  <2>3. FilesUntouched' /\ PublishFree' /\ RunGenuine'
    BY <1>1, <2>1, <2>2, FilesStay
  <2>4. ~Locking(c)' /\ held'[c] = CheckoutOf[c] /\ "wait" \in ToolSteps
    BY <2>1, <2>2 DEF Locking, ToolTypeOK, ToolSteps
  <2> QED BY <1>1, <2>1, <2>3, <2>4, ToolGoes
<1>6. CASE TakeToolLock(c)
  <2>1. PICK step \in {"fetch", "look"} :
          ToolGoto(c, step) /\ (step = "fetch") = Pinned(c)
    BY <1>6 DEF TakeToolLock, Pinned
  <2>2. toolStep[c] = "wait" /\ LockFree(c) /\ UNCHANGED <<held, cacheFiles, mishaps>>
    BY <1>6 DEF TakeToolLock
  <2>3. toolStep' = [toolStep EXCEPT ![c] = step] /\ toolStep'[c] = step
    BY <2>1 DEF ToolGoto, ToolTypeOK
  <2>4. FilesUntouched' /\ PublishFree' /\ RunGenuine'
    BY <1>1, <2>2, <2>3, FilesStay
  <2>5. HasTool(c)' => held'[c] = CheckoutOf[c]
    BY <2>1, <2>2, <2>3 DEF HeldIsOwn, HasTool, Pinned
  <2>6. step \in ToolSteps \ {"done"} /\ held' = held
    BY <2>2 DEF ToolSteps
  <2> QED BY <1>1, <2>1, <2>2, <2>4, <2>5, <2>6, ToolGoes
<1>7. CASE ProcessDies(c)
  <2>1. /\ toolStep[c] # "done" /\ ToolGoto(c, "dead") /\ Mishap
        /\ UNCHANGED <<held, cacheFiles>>
    BY <1>7 DEF ProcessDies
  <2>2. toolStep' = [toolStep EXCEPT ![c] = "dead"] /\ toolStep'[c] = "dead"
    BY <2>1 DEF ToolGoto, ToolTypeOK
  <2>3. FilesUntouched' /\ PublishFree' /\ RunGenuine'
    BY <2>1, <2>2, MishapCounts, FilesStay
  <2>4. ~Locking(c)' /\ ~HasTool(c)' /\ "dead" \in ToolSteps \ {"done"}
    BY <2>2 DEF Locking, HasTool, ToolSteps
  <2> QED BY <2>1, <2>3, <2>4, MishapCounts, ToolGoes
<1> QED BY <1>2, <1>3, <1>4, <1>5, <1>6, <1>7

(* An interrupt changes what a check will say, and nothing it has done. *)
LEMMA StopKeepsTools ==
  ASSUME ToolInv, NEW c \in ToolChecks, StopTool(c) PROVE ToolInv'
<1>1. /\ toolStopped' = toolStopped \cup {c}
      /\ UNCHANGED <<toolStep, held, cacheFiles, toolResult, mishaps>>
  BY DEF StopTool
<1> QED
  BY <1>1 DEF ToolInv, ToolTypeOK, OneHolder, HeldIsOwn, StepOfKind, FilesUntouched, PublishFree,
              RunGenuine, ToolVerdictIsTrue, Locking, HasTool, ToolLock, RunsGenuine, Content

(* A tool that is genuine says what there is to find, and that is kept. *)
LEMMA RunKeepsTools ==
  ASSUME ToolInv, NEW c \in ToolChecks, RunTool(c) PROVE ToolInv'
<1>1. PICK fact \in Truths, said \in Truths :
        /\ RunsGenuine(c) => said = fact
        /\ \E run \in RunsOf(ToolKindOf[c], said) :
             EndTool(c, VerdictOf(ToolKindOf[c], run), fact)
  BY DEF RunTool
<1>2. said = fact
  BY <1>1 DEF ToolInv, RunGenuine, RunTool
<1>3. PICK run \in RunsOf(ToolKindOf[c], fact) : EndTool(c, VerdictOf(ToolKindOf[c], run), fact)
  BY <1>1, <1>2
<1>4. PICK ending \in TrueVerdicts(ToolKindOf[c], fact) : EndTool(c, ending, fact)
  BY <1>3, VerdictIsTrue
<1>5. /\ toolStep[c] # "done" /\ mishaps \in 0..MaxMishaps /\ mishaps <= mishaps
      /\ UNCHANGED <<held, cacheFiles, mishaps>>
  BY DEF RunTool, ToolInv, ToolTypeOK
<1>6. ending \in {"passed", "failed", "error"} /\ (ending = "error" => fact = "failed")
  BY DEF TrueVerdict, TrueVerdicts, Truths
<1> QED BY <1>4, <1>5, <1>6, ToolEnds

(* Paths are apart when their names, versions or what they keep are. *)
LEMMA PathsApart ==
  ASSUME NEW c, NEW d
  PROVE  /\ ToolPath(c).version = CheckoutOf[c] /\ AssetPath(c).version = CheckoutOf[c]
         /\ AssetPath(c) # ToolPath(d)
         /\ ToolPath(c) = ToolPath(d) =>
              ToolKindOf[c] = ToolKindOf[d] /\ CheckoutOf[c] = CheckoutOf[d]
BY DEF ToolPath, AssetPath, PathOf

(* A file that is put somewhere is there, and the others are as they were. *)
LEMMA PutThere ==
  ASSUME NEW p, NEW bytes, Put(p, bytes)
  PROVE  /\ DOMAIN cacheFiles' = DOMAIN cacheFiles \cup {p}
         /\ \A q \in DOMAIN cacheFiles' : cacheFiles'[q] = IF q = p THEN bytes ELSE cacheFiles[q]
BY DEF Put

(* The lookup ends the check, or hands it its own tool, or finds nothing. *)
LEMMA LookKeepsTools ==
  ASSUME ToolInv, NEW c \in ToolChecks, LookUp(c) PROVE ToolInv'
<1> USE DEF ToolInv
<1>1. /\ mishaps \in 0..MaxMishaps /\ mishaps <= mishaps
      /\ toolStep[c] = "look" /\ UNCHANGED <<held, cacheFiles, mishaps>>
      /\ held[c] = CheckoutOf[c] /\ ~Pinned(c)
  BY DEF LookUp, ToolTypeOK, HeldIsOwn, HasTool, StepOfKind
<1>2. mishaps = 0 /\ ToolPath(c) \in DOMAIN cacheFiles => Content(ToolPath(c)) = CheckoutOf[c]
  BY PathsApart DEF FilesUntouched, Content
<1>3. CASE Content(ToolPath(c)) \notin {Nothing, held[c]}
  <2>1. EndTool(c, "error", "unknown")
    BY <1>3 DEF LookUp
  <2>2. mishaps > 0
    BY <1>1, <1>2, <1>3 DEF Content
  <2> QED BY <1>1, <2>1, <2>2, ToolEnds
<1>4. CASE Content(ToolPath(c)) \in {Nothing, held[c]}
  <2>1. PICK step \in {"publish", "run"} :
          /\ ToolGoto(c, step)
          /\ step = "publish" => Content(ToolPath(c)) = Nothing
          /\ step = "run" => Content(ToolPath(c)) = CheckoutOf[c]
    BY <1>1, <1>4 DEF LookUp
  <2>2. toolStep' = [toolStep EXCEPT ![c] = step] /\ toolStep'[c] = step
    BY <2>1 DEF ToolGoto, ToolTypeOK
  <2>3. step = "publish" /\ mishaps = 0 => ToolPath(c) \notin DOMAIN cacheFiles
    BY <1>2, <2>1
  <2>4. FilesUntouched' /\ PublishFree' /\ RunGenuine'
    BY <1>1, <2>1, <2>2, <2>3, FilesStay DEF RunsGenuine
  <2>5. step \in ToolSteps \ {"done"} /\ Locking(c) /\ held'[c] = CheckoutOf[c]
    BY <1>1 DEF ToolSteps, Locking
  <2> QED BY <1>1, <2>1, <2>4, <2>5, ToolGoes
<1> QED BY <1>3, <1>4

(***************************************************************************)
(* What a check puts under its own lock is its checkout's, and disturbs    *)
(* neither a tool that runs nor one that is about to be published.         *)
(***************************************************************************)
LEMMA FilesPut ==
  ASSUME ToolInv, NEW c \in ToolChecks, NEW step \in {"install", "run"},
         toolStep' = [toolStep EXCEPT ![c] = step],
         Locking(c), step = "install" => Pinned(c), UNCHANGED mishaps,
         NEW p \in {ToolPath(c), AssetPath(c)}, p = AssetPath(c) => Pinned(c),
         Put(p, CheckoutOf[c]),
         step = "run" => p = ToolPath(c)
  PROVE  FilesUntouched' /\ PublishFree' /\ RunGenuine'
<1> USE DEF ToolInv
<1>1. /\ toolStep'[c] = step
      /\ \A d \in ToolChecks \ {c} : toolStep'[d] = toolStep[d]
  BY DEF ToolTypeOK
<1>2. /\ DOMAIN cacheFiles' = DOMAIN cacheFiles \cup {p}
      /\ \A q \in DOMAIN cacheFiles' :
           cacheFiles'[q] = IF q = p THEN CheckoutOf[c] ELSE cacheFiles[q]
  BY PutThere
<1>3. FilesUntouched'
  BY <1>2, PathsApart DEF FilesUntouched
<1>4. PublishFree'
  <2> SUFFICES ASSUME mishaps = 0, NEW d \in ToolChecks, toolStep'[d] = "publish"
               PROVE  ToolPath(d) \notin DOMAIN cacheFiles'
    BY DEF PublishFree, ToolPath
  <2>1. d # c /\ toolStep[d] = "publish" /\ ToolPath(d) \notin DOMAIN cacheFiles /\ ~Pinned(d)
    BY <1>1 DEF PublishFree, StepOfKind
  <2>2. ToolPath(d) # p
    <3>1. CASE p = AssetPath(c)
      BY <3>1, PathsApart
    <3>2. CASE p = ToolPath(c)
      <4>1. ToolPath(d) = ToolPath(c) => ToolLock(d) = ToolLock(c)
        BY <2>1, PathsApart DEF ToolLock, Pinned
      <4> QED BY <2>1, <3>2, <4>1 DEF OneHolder, Locking
    <3> QED BY <3>1, <3>2
  <2> QED BY <1>2, <2>1, <2>2
<1>5. RunGenuine'
  <2> SUFFICES ASSUME NEW d \in ToolChecks, toolStep'[d] = "run", ToolKindOf[d] \notin HostKinds
               PROVE  Content(ToolPath(d))' = CheckoutOf[d]
    BY DEF RunGenuine, RunsGenuine
  <2>1. CASE p = ToolPath(d)
    <3>1. CheckoutOf[c] = CheckoutOf[d]
      BY <2>1, PathsApart
    <3> QED BY <1>2, <2>1, <3>1 DEF Content, ToolPath
  <2>2. CASE p # ToolPath(d)
    <3>1. d # c
      BY <1>1, <2>2
    <3>2. Content(ToolPath(d)) = CheckoutOf[d] /\ CheckoutOf[d] # Nothing
      BY <1>1, <3>1 DEF RunGenuine, RunsGenuine
    <3> QED BY <1>2, <2>2, <3>2 DEF Content, ToolPath
  <2> QED BY <2>1, <2>2
<1> QED BY <1>3, <1>4, <1>5

(* Publishing, fetching and installing, each under the lock of its digest. *)
LEMMA PutKeepsTools ==
  ASSUME ToolInv, NEW c \in ToolChecks,
         PublishTool(c) \/ FetchRelease(c) \/ InstallRelease(c)
  PROVE  ToolInv'
<1> USE DEF ToolInv
<1>1. mishaps \in 0..MaxMishaps /\ mishaps <= mishaps /\ UNCHANGED mishaps /\ Locking(c)
  BY DEF ToolTypeOK, PublishTool, FetchRelease, InstallRelease, Locking
<1>2. {"run", "install"} \subseteq ToolSteps \ {"done"}
  BY DEF ToolSteps
<1>3. CASE PublishTool(c)
  <2>1. /\ toolStep[c] = "publish" /\ held' = held /\ held[c] = CheckoutOf[c]
        /\ ~Pinned(c)
    BY <1>3 DEF PublishTool, HeldIsOwn, HasTool, StepOfKind
  <2>2. CASE Content(ToolPath(c)) = Nothing
    <3>1. Put(ToolPath(c), CheckoutOf[c]) /\ ToolGoto(c, "run")
      BY <1>3, <2>1, <2>2 DEF PublishTool
    <3>2. toolStep' = [toolStep EXCEPT ![c] = "run"] /\ toolStep'[c] = "run"
      BY <3>1 DEF ToolGoto, ToolTypeOK
    <3>3. FilesUntouched' /\ PublishFree' /\ RunGenuine'
      BY <1>1, <2>1, <3>1, <3>2, FilesPut, PathsApart
    <3> QED BY <1>1, <1>2, <2>1, <3>1, <3>3, ToolGoes
  <2>3. CASE Content(ToolPath(c)) # Nothing
    <3>1. EndTool(c, "error", "unknown") /\ UNCHANGED cacheFiles
      BY <1>3, <2>3 DEF PublishTool
    <3>2. mishaps > 0
      BY <1>1, <2>1, <2>3 DEF PublishFree, Content
    <3> QED BY <1>1, <2>1, <3>1, <3>2, ToolEnds
  <2> QED BY <2>2, <2>3
<1>4. CASE FetchRelease(c)
  <2>1. toolStep[c] = "fetch" /\ ToolGoto(c, "install") /\ Pinned(c)
    BY <1>4 DEF FetchRelease, StepOfKind
  <2>2. toolStep' = [toolStep EXCEPT ![c] = "install"] /\ toolStep'[c] = "install"
    BY <2>1 DEF ToolGoto, ToolTypeOK
  <2>3. held' = [held EXCEPT ![c] = CheckoutOf[c]]
    BY <1>4 DEF FetchRelease, Reviewed
  <2>4. held'[c] = CheckoutOf[c]
    BY <2>3 DEF ToolTypeOK
  <2>5. FilesUntouched' /\ PublishFree' /\ RunGenuine'
    <3>1. CASE cacheFiles' = cacheFiles
      BY <1>1, <2>2, <3>1, FilesStay
    <3>2. CASE Put(AssetPath(c), CheckoutOf[c])
      BY <1>1, <2>1, <2>2, <3>2, FilesPut
    <3> QED BY <1>4, <3>1, <3>2 DEF FetchRelease
  <2> QED BY <1>1, <1>2, <2>1, <2>3, <2>4, <2>5, ToolGoes
<1>5. CASE InstallRelease(c)
  <2>1. /\ toolStep[c] = "install" /\ ToolGoto(c, "run") /\ Pinned(c) /\ held' = held
        /\ Put(ToolPath(c), CheckoutOf[c])
    BY <1>5 DEF InstallRelease, StepOfKind, HeldIsOwn, HasTool
  <2>2. toolStep' = [toolStep EXCEPT ![c] = "run"] /\ toolStep'[c] = "run"
    BY <2>1 DEF ToolGoto, ToolTypeOK
  <2>3. FilesUntouched' /\ PublishFree' /\ RunGenuine'
    BY <1>1, <2>1, <2>2, FilesPut
  <2>4. ~HasTool(c)'
    BY <2>1, <2>2 DEF HasTool, Pinned
  <2> QED BY <1>1, <1>2, <2>1, <2>3, <2>4, ToolGoes
<1> QED BY <1>3, <1>4, <1>5

(* Somebody's file is a mishap, and never one that a running check holds. *)
LEMMA OverwriteKeepsTools ==
  ASSUME ToolInv, NEW p, Overwrite(p) PROVE ToolInv'
<1> USE DEF ToolInv
<1>1. /\ UNCHANGED <<toolStep, held, toolStopped, toolResult>> /\ mishaps' > 0
      /\ mishaps' \in 0..MaxMishaps /\ Put(p, Foreign)
      /\ \A c \in ToolChecks : toolStep[c] = "run" => ToolPath(c) # p
  BY MishapCounts DEF Overwrite
<1>2. /\ DOMAIN cacheFiles' = DOMAIN cacheFiles \cup {p}
      /\ \A q \in DOMAIN cacheFiles' : cacheFiles'[q] = IF q = p THEN Foreign ELSE cacheFiles[q]
  BY <1>1, PutThere
<1>3. RunGenuine'
  <2> SUFFICES ASSUME NEW c \in ToolChecks, toolStep'[c] = "run", ToolKindOf[c] \notin HostKinds
               PROVE  Content(ToolPath(c))' = CheckoutOf[c]
    BY DEF RunGenuine, RunsGenuine
  <2>1. /\ Content(ToolPath(c)) = CheckoutOf[c] /\ CheckoutOf[c] # Nothing
        /\ ToolPath(c) # p
    BY <1>1 DEF RunGenuine, RunsGenuine
  <2> QED BY <1>2, <2>1 DEF Content, ToolPath
<1>4. FilesUntouched' /\ PublishFree'
  BY <1>1 DEF FilesUntouched, PublishFree
<1>5. ToolTypeOK' /\ (toolResult \in [ToolChecks -> ToolResults])'
  BY <1>1 DEF ToolTypeOK
<1>6. OneHolder' /\ HeldIsOwn' /\ StepOfKind'
  BY <1>1 DEF OneHolder, HeldIsOwn, StepOfKind, HasTool, Locking, ToolLock, Pinned, ToolPath
<1>7. ToolVerdictIsTrue'
  BY <1>1 DEF ToolVerdictIsTrue
<1> QED BY <1>3, <1>4, <1>5, <1>6, <1>7

(* Every step of the tools keeps the invariant. *)
LEMMA ToolInvStep ==
  ASSUME ToolInv, [ToolNext]_toolVars PROVE ToolInv'
<1>1. CASE \E c \in ToolChecks : ToolAdvance(c) \/ ToolFails(c) \/ StopTool(c) \/ ProcessDies(c)
  BY <1>1, ToolKeepsAside, StopKeepsTools, RunKeepsTools, LookKeepsTools, PutKeepsTools
     DEF ToolAdvance
<1>2. CASE \E p : Overwrite(p)
  BY <1>2, OverwriteKeepsTools
<1>3. CASE UNCHANGED toolVars
  BY <1>3 DEF toolVars, ToolInv, ToolTypeOK, OneHolder, HeldIsOwn, StepOfKind, FilesUntouched,
              PublishFree, RunGenuine, ToolVerdictIsTrue, Locking, HasTool, ToolLock, RunsGenuine,
              Content
<1> QED BY <1>1, <1>2, <1>3 DEF ToolNext

(***************************************************************************)
(* gotools.go:191-196, releases.go:65-70: whichever checks run beside one  *)
(* another, from whatever checkouts, and however often one of them dies, a *)
(* command fails or somebody writes into the directory: a check that is    *)
(* concluded says what the tool of its own checkout found, and unless      *)
(* something went wrong it is concluded.                                   *)
(***************************************************************************)
THEOREM ToolVerdictsAreTrue == ToolSpec => [](ToolTypeOK /\ ToolVerdictIsTrue)
<1>1. ToolRest /\ (\E some \in Beside : BeginTools(some)) => ToolInv
  BY ToolInvInit
<1>2. ToolInv /\ [ToolNext]_toolVars => ToolInv'
  BY ToolInvStep
<1>3. ToolInv => ToolTypeOK /\ ToolVerdictIsTrue
  BY DEF ToolInv
<1> QED BY <1>1, <1>2, <1>3, PTL DEF ToolSpec

HIDE NativeToolsAssumption

-------------------------------------------------------------------------------
(***************************************************************************)
(* The requests of a semantic-lint check: functions that are defined step  *)
(* by step, first.                                                         *)
(***************************************************************************)
(* Of natural numbers there is a least one. *)
LEMMA LeastNat ==
  ASSUME NEW T, T \subseteq Nat, T # {}
  PROVE  \E n \in T : \A m \in T : n <= m
<1>1. PICK n \in T : \A m \in T : <<m, n>> \notin OpToRel(<, Nat)
  BY WFMin, NatLessThanWellFounded, Zenon
<1>2. ASSUME NEW m \in T PROVE n <= m
  <2>1. m \in Nat /\ n \in Nat
    OBVIOUS
  <2>2. ~(m < n)
    BY <1>1, <2>1 DEF OpToRel
  <2> QED BY <2>1, <2>2
<1> QED BY <1>2

(* Induction, for a set in place of a predicate. *)
LEMMA NatAll ==
  ASSUME NEW T, 0 \in T, \A n \in Nat : n \in T => n + 1 \in T
  PROVE  Nat \subseteq T
<1> SUFFICES ASSUME Nat \ T # {} PROVE FALSE
  OBVIOUS
<1>1. PICK n \in Nat \ T : \A m \in Nat \ T : n <= m
  BY LeastNat
<1>2. n # 0 /\ n - 1 \in Nat
  BY <1>1
<1>3. n - 1 \in T
  BY <1>1, <1>2
<1> QED BY <1>1, <1>2, <1>3

(* A function on 0..N with values in D, given by its first value and steps. *)
Steps(D, N) == [1..N -> [D -> D]]
Stepwise(g, D, N, base, step) ==
  g \in [0..N -> D] /\ g[0] = base /\ \A i \in 1..N : g[i] = step[i][g[i - 1]]

(***************************************************************************)
(* A function that is defined on 0..N by its first value and, for each of  *)
(* the others, by the one before exists.                                   *)
(***************************************************************************)
LEMMA StepwiseExists ==
  ASSUME NEW D, NEW N \in Nat, NEW base \in D, NEW step \in Steps(D, N)
  PROVE  \E g : Stepwise(g, D, N, base, step)
<1> USE DEF Steps
<1> DEFINE Upto(n) ==
      {g \in [0..n -> D] : g[0] = base /\ \A i \in 1..n : g[i] = step[i][g[i - 1]]}
           Reached == {n \in Nat : n <= N => Upto(n) # {}}
<1>1. 0 \in Reached
  <2>1. [i \in 0..0 |-> base] \in Upto(0)
    OBVIOUS
  <2> QED BY <2>1
<1>2. ASSUME NEW n \in Nat, n \in Reached PROVE n + 1 \in Reached
  <2> SUFFICES ASSUME n + 1 <= N PROVE Upto(n + 1) # {}
    OBVIOUS
  <2>1. PICK g \in Upto(n) : TRUE
    BY <1>2
  <2>2. /\ g \in [0..n -> D] /\ g[0] = base
        /\ \A i \in 1..n : g[i] = step[i][g[i - 1]]
    BY <2>1
  <2> HIDE DEF Upto
  <2> DEFINE h == [i \in 0..n + 1 |-> IF i = n + 1 THEN step[n + 1][g[n]] ELSE g[i]]
  <2>3. step[n + 1][g[n]] \in D
    BY <2>2
  <2>4. /\ h \in [0..n + 1 -> D]
        /\ h[n + 1] = step[n + 1][g[n]]
        /\ \A i \in 0..n : h[i] = g[i]
    BY <2>2, <2>3
  <2> HIDE DEF h
  <2>5. \A i \in 1..n + 1 : h[i] = step[i][h[i - 1]]
    <3> TAKE i \in 1..n + 1
    <3>1. CASE i = n + 1
      BY <2>4, <3>1
    <3>2. CASE i # n + 1
      BY <2>2, <2>4, <3>2
    <3> QED BY <3>1, <3>2
  <2>6. h[0] = base
    BY <2>2, <2>4
  <2>7. h \in Upto(n + 1)
    BY <2>4, <2>5, <2>6 DEF Upto
  <2> QED BY <2>7
<1> HIDE DEF Reached
<1>3. Nat \subseteq Reached
  BY <1>1, <1>2, NatAll
<1>4. Upto(N) # {}
  BY <1>3 DEF Reached
<1> QED BY <1>4 DEF Stepwise

USE SemanticAssumption

Totals(chars, size, q, N) ==
  /\ chars \in [0..N -> Nat] /\ chars[0] = 0
  /\ \A i \in 1..N : chars[i] = chars[i - 1] + size[q[i]]
  /\ TotalOf(size, q) = chars[N]

(* The sizes of a sequence's requests add up one by one. *)
LEMMA TotalSteps ==
  ASSUME NEW size, NEW N \in Nat, NEW q, q = [i \in 1..N |-> q[i]],
         \A i \in 1..N : size[q[i]] \in Nat
  PROVE  \E chars : Totals(chars, size, q, N)
<1> DEFINE Row(g) == [n \in 0..N |-> IF n = 0 THEN 0 ELSE g[n - 1] + size[q[n]]]
           f == CHOOSE g : g = Row(g)
           step == [i \in 1..N |-> [x \in Nat |-> x + size[q[i]]]]
<1>1. TotalOf(size, q) = f[N]
  <2>1. Len(q) = N
    OBVIOUS
  <2> QED BY <2>1 DEF TotalOf
<1>2. step \in Steps(Nat, N)
  BY DEF Steps
<1>3. \A i \in 1..N, x \in Nat : step[i][x] = x + size[q[i]]
  OBVIOUS
<1> HIDE DEF step
<1>4. PICK g : Stepwise(g, Nat, N, 0, step)
  BY <1>2, StepwiseExists
<1>5. /\ g \in [0..N -> Nat] /\ g[0] = 0
      /\ \A i \in 1..N : g[i] = g[i - 1] + size[q[i]]
  <2>1. g \in [0..N -> Nat] /\ g[0] = 0 /\ \A i \in 1..N : g[i] = step[i][g[i - 1]]
    BY <1>4 DEF Stepwise
  <2>2. \A i \in 1..N : g[i - 1] \in Nat
    BY <2>1
  <2> QED BY <1>3, <2>1, <2>2
<1>6. g = Row(g)
  BY <1>5
<1>7. f = Row(f)
  <2> HIDE DEF Row
  <2> QED BY <1>6
<1> HIDE DEF f
<1>8. /\ f = [n \in 0..N |-> f[n]] /\ f[0] = 0
      /\ \A i \in 1..N : f[i] = f[i - 1] + size[q[i]]
  <2> DEFINE row == Row(f)
  <2>1. /\ row = [n \in 0..N |-> row[n]] /\ row[0] = 0
        /\ \A i \in 1..N : row[i] = f[i - 1] + size[q[i]]
    OBVIOUS
  <2> HIDE DEF row
  <2> QED BY <1>7, <2>1 DEF row
<1> DEFINE T == {n \in Nat : n <= N => f[n] \in Nat}
<1>9. 0 \in T
  BY <1>8
<1>10. ASSUME NEW n \in Nat, n \in T PROVE n + 1 \in T
  <2> SUFFICES ASSUME n + 1 <= N PROVE f[n + 1] \in Nat
    OBVIOUS
  <2>1. PICK m \in 1..N : m = n + 1
    OBVIOUS
  <2>2. f[m] = f[m - 1] + size[q[m]] /\ m - 1 = n
    <3>1. f[m] = f[m - 1] + size[q[m]]
      BY <1>8, Zenon
    <3> QED BY <2>1, <3>1
  <2>3. f[n] \in Nat /\ size[q[m]] \in Nat
    BY <1>10
  <2> QED BY <2>1, <2>2, <2>3
<1> HIDE DEF T
<1>11. Nat \subseteq T
  BY <1>9, <1>10, NatAll
<1>12. \A n \in 0..N : f[n] \in Nat
  BY <1>11 DEF T
<1>13. f \in [0..N -> Nat]
  BY <1>8, <1>12
<1> QED BY <1>1, <1>8, <1>13 DEF Totals

(* Nothing has no size, and one more request adds its own. *)
LEMMA TotalAppend ==
  ASSUME NEW S, NEW size, \A r \in S : size[r] \in Nat, NEW N \in Nat, NEW q \in [1..N -> S]
  PROVE  /\ TotalOf(size, <<>>) = 0
         /\ TotalOf(size, q) \in Nat
         /\ \A r \in S : TotalOf(size, Append(q, r)) = TotalOf(size, q) + size[r]
<1>1. \A i \in 1..N : size[q[i]] \in Nat
  OBVIOUS
<1>2. PICK a : Totals(a, size, q, N)
  <2>1. q = [i \in 1..N |-> q[i]]
    OBVIOUS
  <2> QED BY <1>1, <2>1, TotalSteps
<1>3. TotalOf(size, <<>>) = 0
  <2>1. <<>> = [i \in 1..0 |-> <<>>[i]] /\ \A i \in 1..0 : size[<<>>[i]] \in Nat
    OBVIOUS
  <2>2. \E e : Totals(e, size, <<>>, 0)
    BY <2>1, TotalSteps
  <2> QED BY <2>2 DEF Totals
<1>4. ASSUME NEW r \in S PROVE TotalOf(size, Append(q, r)) = TotalOf(size, q) + size[r]
  <2> DEFINE p == Append(q, r)
  <2>1. p = [i \in 1..N + 1 |-> p[i]]
    <3>1. q \in Seq(S) /\ Len(q) = N
      OBVIOUS
    <3>2. p \in Seq(S) /\ Len(p) = N + 1
      BY <3>1
    <3> HIDE DEF p
    <3> QED BY <3>2
  <2>2. p[N + 1] = r /\ \A i \in 1..N : p[i] = q[i]
    OBVIOUS
  <2> HIDE DEF p
  <2>3. N + 1 \in Nat /\ \A i \in 1..N + 1 : size[p[i]] \in Nat
    <3>1. \A i \in 1..N + 1 : i \in 1..N \/ i = N + 1
      OBVIOUS
    <3> QED BY <1>1, <2>2, <3>1
  <2>4. PICK b : Totals(b, size, p, N + 1)
    BY <2>1, <2>3, TotalSteps
  <2> DEFINE T == {n \in Nat : n <= N => a[n] = b[n]}
  <2>5. 0 \in T
    BY <1>2, <2>4 DEF Totals
  <2>6. ASSUME NEW n \in Nat, n \in T PROVE n + 1 \in T
    <3> SUFFICES ASSUME n + 1 <= N PROVE a[n + 1] = b[n + 1]
      OBVIOUS
    <3>1. PICK m \in 1..N : m = n + 1
      OBVIOUS
    <3>2. m \in 1..N + 1 /\ m - 1 = n /\ p[m] = q[m]
      <4>1. m \in 1..N + 1 /\ m - 1 = n
        BY <3>1
      <4>2. p[m] = q[m]
        BY <2>2, Zenon
      <4> QED BY <4>1, <4>2
    <3>3. a[m] = a[m - 1] + size[q[m]] /\ b[m] = b[m - 1] + size[p[m]]
      BY <1>2, <2>4, <3>2 DEF Totals
    <3>4. a[n] = b[n]
      BY <2>6
    <3> QED BY <3>1, <3>2, <3>3, <3>4
  <2> HIDE DEF T
  <2>7. Nat \subseteq T
    BY <2>5, <2>6, NatAll
  <2>8. a[N] = b[N]
    BY <2>7 DEF T
  <2>9. PICK m \in 1..N + 1 : m = N + 1
    OBVIOUS
  <2>10. b[m] = b[m - 1] + size[p[m]] /\ m - 1 = N
    BY <2>4, <2>9 DEF Totals
  <2>11. TotalOf(size, p) = TotalOf(size, q) + size[r]
    BY <1>2, <2>2, <2>4, <2>8, <2>9, <2>10 DEF Totals
  <2> QED BY <2>11 DEF p
<1>5. TotalOf(size, q) \in Nat
  BY <1>2 DEF Totals
<1> QED BY <1>3, <1>4, <1>5

(* A longer sequence has what it had and the element appended. *)
LEMMA AppendTo ==
  ASSUME NEW S, NEW N \in Nat, NEW q \in [1..N -> S], NEW r \in S
  PROVE  /\ Len(q) = N /\ q \in Seq(S)
         /\ Append(q, r) \in [1..N + 1 -> S] /\ Len(Append(q, r)) = N + 1
         /\ Append(q, r)[N + 1] = r
         /\ \A i \in 1..N : i \in 1..N + 1 /\ Append(q, r)[i] = q[i]
<1>1. q \in Seq(S) /\ Len(q) = N
  OBVIOUS
<1> DEFINE p == Append(q, r)
<1>2. p \in Seq(S) /\ Len(p) = N + 1
  BY <1>1
<1>3. p[N + 1] = r /\ \A i \in 1..N : i \in 1..N + 1 /\ p[i] = q[i]
  BY <1>1
<1> HIDE DEF p
<1>4. p \in [1..N + 1 -> S]
  <2>1. p = [i \in 1..N + 1 |-> p[i]]
    BY <1>2
  <2>2. \A i \in 1..N + 1 : p[i] \in S
    <3>1. \A i \in 1..N + 1 : i \in 1..N \/ i = N + 1
      OBVIOUS
    <3> QED BY <1>3, <3>1
  <2> QED BY <2>1, <2>2
<1> QED BY <1>1, <1>2, <1>3, <1>4 DEF p

(***************************************************************************)
(* The ids of a set up to m, and nothing else; the change-level one first. *)
(***************************************************************************)
InOrderUpto(s, ids, m) ==
  \E n \in 0..m + 1 :
    /\ s \in [1..n -> ids]
    /\ \A r \in ids : r <= m => \E i \in 1..n : s[i] = r
    /\ 0 \in ids => n >= 1 /\ s[1] = 0

(* One more id. *)
LEMMA OneMoreInOrder ==
  ASSUME NEW ids \in SUBSET Ids, NEW m \in Nat, m # 0, NEW s, InOrderUpto(s, ids, m - 1)
  PROVE  InOrderUpto(IF m \in ids THEN Append(s, m) ELSE s, ids, m)
<1>1. PICK n \in 0..m : /\ s \in [1..n -> ids]
                        /\ \A r \in ids : r <= m - 1 => \E i \in 1..n : s[i] = r
                        /\ 0 \in ids => n >= 1 /\ s[1] = 0
  BY DEF InOrderUpto
<1>2. \A r \in ids : r \in Nat
  BY DEF Ids
<1>3. CASE m \notin ids
  <2>1. \A r \in ids : r <= m => r <= m - 1
    BY <1>2, <1>3
  <2> QED BY <1>1, <1>3, <2>1 DEF InOrderUpto
<1>4. CASE m \in ids
  <2> DEFINE t == Append(s, m)
  <2>1. t \in [1..n + 1 -> ids] /\ t[n + 1] = m /\ \A i \in 1..n : i \in 1..n + 1 /\ t[i] = s[i]
    BY <1>1, <1>4, AppendTo
  <2> HIDE DEF t
  <2>2. n + 1 \in 0..m + 1 /\ n + 1 \in 1..n + 1
    OBVIOUS
  <2>3. ASSUME NEW r \in ids, r <= m PROVE \E i \in 1..n + 1 : t[i] = r
    <3>1. CASE r = m
      BY <2>1, <2>2, <3>1
    <3>2. CASE r # m
      <4>1. r <= m - 1
        BY <1>2, <2>3, <3>2
      <4>2. PICK i \in 1..n : s[i] = r
        BY <1>1, <4>1
      <4> QED BY <2>1, <4>2
    <3> QED BY <3>1, <3>2
  <2>4. 0 \in ids => n + 1 >= 1 /\ t[1] = 0
    <3> SUFFICES ASSUME 0 \in ids PROVE n + 1 >= 1 /\ t[1] = 0
      OBVIOUS
    <3>1. 1 \in 1..n /\ s[1] = 0
      BY <1>1
    <3>2. t[1] = s[1]
      BY <2>1, <3>1
    <3> QED BY <3>1, <3>2
  <2>5. InOrderUpto(t, ids, m)
    BY <2>1, <2>2, <2>3, <2>4 DEF InOrderUpto
  <2> QED BY <1>4, <2>5 DEF t
<1> QED BY <1>3, <1>4

(* InOrder has every id. *)
LEMMA InOrderHasAll ==
  ASSUME NEW ids \in SUBSET Ids PROVE InOrderUpto(InOrder(ids), ids, MaxHunks)
<1> DEFINE After(s, n) == IF n \in ids THEN Append(s, n) ELSE s
           Row(g) == [n \in Ids |-> LET before == IF n = 0 THEN <<>> ELSE g[n - 1]
                                    IN  IF n \in ids THEN Append(before, n) ELSE before]
           f == CHOOSE g : g = Row(g)
           D == Seq(Ids)
           step == [i \in 1..MaxHunks |-> [s \in D |-> After(s, i)]]
<1>1. MaxHunks \in Nat
  OBVIOUS
<1>2. InOrder(ids) = f[MaxHunks]
  BY DEF InOrder
<1>3. step \in Steps(D, MaxHunks)
  <2>1. ASSUME NEW i \in 1..MaxHunks, NEW s \in D PROVE After(s, i) \in D
    <3>1. i \in Ids
      BY <1>1 DEF Ids
    <3>2. Append(s, i) \in D
      BY <3>1
    <3> QED BY <3>2
  <2> HIDE DEF D, After
  <2> QED BY <2>1 DEF Steps
<1>4. After(<<>>, 0) \in D
  <2>1. 0 \in Ids
    BY <1>1 DEF Ids
  <2>2. <<>> \in D /\ Append(<<>>, 0) \in D
    BY <2>1
  <2> QED BY <2>2
<1>5. \A i \in 1..MaxHunks, s \in D : step[i][s] = After(s, i)
  OBVIOUS
<1> HIDE DEF step, D
<1>6. PICK g : Stepwise(g, D, MaxHunks, After(<<>>, 0), step)
  <2> HIDE DEF After
  <2> QED BY <1>1, <1>3, <1>4, StepwiseExists
<1>7. /\ g \in [0..MaxHunks -> D] /\ g[0] = After(<<>>, 0)
      /\ \A i \in 1..MaxHunks : g[i] = After(g[i - 1], i)
  <2> HIDE DEF After
  <2>1. /\ g \in [0..MaxHunks -> D] /\ g[0] = After(<<>>, 0)
        /\ \A i \in 1..MaxHunks : g[i] = step[i][g[i - 1]]
    BY <1>6 DEF Stepwise
  <2>2. \A i \in 1..MaxHunks : i - 1 \in 0..MaxHunks
    BY <1>1
  <2>3. \A i \in 1..MaxHunks : g[i - 1] \in D
    BY <2>1, <2>2
  <2> QED BY <1>5, <2>1, <2>3
<1>8. g = Row(g)
  <2>1. ASSUME NEW n \in Ids
        PROVE  g[n] = LET before == IF n = 0 THEN <<>> ELSE g[n - 1]
                      IN  IF n \in ids THEN Append(before, n) ELSE before
    <3>1. CASE n = 0
      BY <1>7, <3>1
    <3>2. CASE n \in 1..MaxHunks
      BY <1>7, <3>2
    <3> QED BY <1>1, <3>1, <3>2 DEF Ids
  <2>2. g = [n \in Ids |-> g[n]]
    BY <1>7 DEF Ids
  <2> QED BY <2>1, <2>2
<1>9. f = Row(f)
  <2> HIDE DEF Row
  <2> QED BY <1>8
<1> HIDE DEF f
<1>10. \A n \in Ids : f[n] = LET before == IF n = 0 THEN <<>> ELSE f[n - 1]
                             IN  IF n \in ids THEN Append(before, n) ELSE before
  <2> DEFINE row == Row(f)
  <2>1. \A n \in Ids : row[n] = LET before == IF n = 0 THEN <<>> ELSE f[n - 1]
                                IN  IF n \in ids THEN Append(before, n) ELSE before
    OBVIOUS
  <2> HIDE DEF row
  <2> QED BY <1>9, <2>1 DEF row
<1> HIDE DEF Row
<1> DEFINE T == {n \in Nat : n <= MaxHunks => InOrderUpto(f[n], ids, n)}
<1>11. 0 \in T
  <2>1. f[0] = IF 0 \in ids THEN Append(<<>>, 0) ELSE <<>>
    <3>1. PICK z \in Ids : z = 0
      BY <1>1 DEF Ids
    <3>2. f[z] = LET before == IF z = 0 THEN <<>> ELSE f[z - 1]
                 IN  IF z \in ids THEN Append(before, z) ELSE before
      BY <1>10
    <3> QED BY <3>1, <3>2
  <2>2. <<>> \in [1..0 -> ids]
    OBVIOUS
  <2>3. CASE 0 \in ids
    <3>1. Append(<<>>, 0) \in [1..0 + 1 -> ids] /\ Append(<<>>, 0)[0 + 1] = 0
      BY <2>2, <2>3, AppendTo
    <3>2. InOrderUpto(Append(<<>>, 0), ids, 0)
      BY <3>1 DEF InOrderUpto, Ids
    <3> QED BY <2>1, <2>3, <3>2
  <2>4. CASE 0 \notin ids
    <3>1. InOrderUpto(<<>>, ids, 0)
      BY <2>2, <2>4 DEF InOrderUpto, Ids
    <3> QED BY <2>1, <2>4, <3>1
  <2> QED BY <2>3, <2>4
<1>12. ASSUME NEW n \in Nat, n \in T PROVE n + 1 \in T
  <2> SUFFICES ASSUME n + 1 <= MaxHunks PROVE InOrderUpto(f[n + 1], ids, n + 1)
    OBVIOUS
  <2>1. PICK m \in Ids : m = n + 1
    BY <1>1 DEF Ids
  <2>2. m \in Nat /\ m # 0 /\ m - 1 = n
    BY <2>1
  <2>3. InOrderUpto(f[m - 1], ids, m - 1)
    BY <1>1, <1>12, <2>1, <2>2
  <2>4. f[m] = IF m \in ids THEN Append(f[m - 1], m) ELSE f[m - 1]
    <3>1. f[m] = LET before == IF m = 0 THEN <<>> ELSE f[m - 1]
                 IN  IF m \in ids THEN Append(before, m) ELSE before
      BY <1>10
    <3> QED BY <2>2, <3>1
  <2>5. InOrderUpto(f[m], ids, m)
    BY <2>2, <2>3, <2>4, OneMoreInOrder
  <2> QED BY <2>1, <2>5
<1> HIDE DEF T
<1>13. Nat \subseteq T
  BY <1>11, <1>12, NatAll
<1>14. InOrderUpto(f[MaxHunks], ids, MaxHunks)
  BY <1>1, <1>13 DEF T
<1> QED BY <1>2, <1>14

(***************************************************************************)
(* Of the first n requests, k is within both budgets, a request left out   *)
(* does not fit, and the first is kept unless it alone is too large.       *)
(***************************************************************************)
Spends(k, S, size, q, n) ==
  \E m \in 0..n :
    /\ k \in [1..m -> S] /\ m <= MaxRequests /\ TotalOf(size, k) <= MaxChars
    /\ \A i \in 1..n : \/ \E j \in 1..m : k[j] = q[i]
                       \/ m = MaxRequests
                       \/ TotalOf(size, k) + size[q[i]] > MaxChars
    /\ n >= 1 /\ size[q[1]] <= MaxChars => \E j \in 1..m : k[j] = q[1]

Fits(k, size, r) == Len(k) < MaxRequests /\ TotalOf(size, k) + size[r] <= MaxChars

(* One more request. *)
LEMMA OneMoreSpends ==
  ASSUME NEW S, NEW size, \A r \in S : size[r] \in Nat, NEW n \in Nat, NEW N \in Nat,
         n + 1 <= N, NEW q \in [1..N -> S], NEW k, Spends(k, S, size, q, n)
  PROVE  Spends(IF Fits(k, size, q[n + 1]) THEN Append(k, q[n + 1]) ELSE k, S, size, q, n + 1)
<1>1. PICK m \in 0..n :
        /\ k \in [1..m -> S] /\ m <= MaxRequests /\ TotalOf(size, k) <= MaxChars
        /\ \A i \in 1..n : \/ \E j \in 1..m : k[j] = q[i]
                           \/ m = MaxRequests
                           \/ TotalOf(size, k) + size[q[i]] > MaxChars
        /\ n >= 1 /\ size[q[1]] <= MaxChars => \E j \in 1..m : k[j] = q[1]
  BY DEF Spends
<1> DEFINE r == q[n + 1]
           total == TotalOf(size, k)
<1>2. r \in S /\ size[r] \in Nat /\ m \in Nat /\ MaxRequests \in Nat \ {0} /\ MaxChars \in Nat
  BY <1>1
<1>3. /\ TotalOf(size, <<>>) = 0 /\ total \in Nat
      /\ TotalOf(size, Append(k, r)) = total + size[r]
  BY <1>1, <1>2, TotalAppend
<1>4. Len(k) = m
  BY <1>1, <1>2, AppendTo
<1>5. \A i \in 1..n + 1 : i \in 1..n \/ i = n + 1
  OBVIOUS
<1>6. \A i \in 1..n : size[q[i]] \in Nat
  OBVIOUS
<1>7. CASE ~Fits(k, size, r)
  <2>1. m = MaxRequests \/ total + size[r] > MaxChars
    BY <1>1, <1>2, <1>3, <1>4, <1>7 DEF Fits
  <2>2. \A i \in 1..n + 1 : \/ \E j \in 1..m : k[j] = q[i]
                            \/ m = MaxRequests
                            \/ total + size[q[i]] > MaxChars
    BY <1>1, <1>5, <2>1
  <2>3. n + 1 >= 1 /\ size[q[1]] <= MaxChars => \E j \in 1..m : k[j] = q[1]
    <3>1. CASE n >= 1
      BY <1>1, <3>1
    <3>2. CASE n = 0
      <4>1. m = 0 /\ r = q[1]
        BY <1>1, <3>2
      <4>2. k = <<>>
        BY <1>1, <4>1
      <4>3. size[q[1]] > MaxChars
        BY <1>2, <1>3, <2>1, <4>1, <4>2
      <4> QED BY <1>2, <4>1, <4>3
    <3> QED BY <3>1, <3>2
  <2>4. m \in 0..n + 1
    BY <1>1
  <2>5. Spends(k, S, size, q, n + 1)
    BY <1>1, <2>2, <2>3, <2>4 DEF Spends
  <2> QED BY <1>7, <2>5
<1>8. CASE Fits(k, size, r)
  <2> DEFINE t == Append(k, r)
  <2>1. /\ t \in [1..m + 1 -> S] /\ t[m + 1] = r
        /\ \A i \in 1..m : i \in 1..m + 1 /\ t[i] = k[i]
    <3>1. PICK M \in Nat : M = m
      BY <1>2
    <3>2. k \in [1..M -> S] /\ r \in S
      BY <1>1, <1>2, <3>1
    <3> HIDE DEF r
    <3>3. Append(k, r) \in [1..M + 1 -> S]
      BY <3>2, AppendTo
    <3>4. Append(k, r)[M + 1] = r
      BY <3>2, AppendTo
    <3>5. \A i \in 1..M : i \in 1..M + 1 /\ Append(k, r)[i] = k[i]
      BY <3>2, AppendTo
    <3> QED BY <3>1, <3>3, <3>4, <3>5
  <2>2. /\ TotalOf(size, t) = total + size[r] /\ total + size[r] <= MaxChars
        /\ m + 1 <= MaxRequests /\ m # MaxRequests
    BY <1>1, <1>2, <1>3, <1>4, <1>8 DEF Fits
  <2> HIDE DEF t
  <2>3. ASSUME NEW i \in 1..n + 1
        PROVE  \/ \E j \in 1..m + 1 : t[j] = q[i]
               \/ TotalOf(size, t) + size[q[i]] > MaxChars
    <3>1. CASE i = n + 1
      <4>1. m + 1 \in 1..m + 1
        BY <1>2
      <4> QED BY <2>1, <3>1, <4>1
    <3>2. CASE i \in 1..n /\ \E j \in 1..m : k[j] = q[i]
      BY <2>1, <3>2
    <3>3. CASE i \in 1..n /\ total + size[q[i]] > MaxChars
      BY <1>2, <1>3, <1>6, <2>2, <3>3
    <3> QED BY <1>1, <1>5, <2>2, <3>1, <3>2, <3>3
  <2>4. size[q[1]] <= MaxChars => \E j \in 1..m + 1 : t[j] = q[1]
    <3>1. CASE n >= 1
      BY <1>1, <2>1, <3>1
    <3>2. CASE n = 0
      <4>1. r = q[1] /\ m + 1 \in 1..m + 1
        BY <1>2, <3>2
      <4> QED BY <2>1, <4>1
    <3> QED BY <3>1, <3>2
  <2>5. m + 1 \in 0..n + 1
    BY <1>1
  <2>6. TotalOf(size, t) <= MaxChars
    BY <2>2
  <2>7. Spends(t, S, size, q, n + 1)
    BY <2>1, <2>2, <2>3, <2>4, <2>5, <2>6 DEF Spends
  <2> QED BY <1>8, <2>7 DEF t
<1> QED BY <1>7, <1>8

(* withinBudget keeps, of all of them, such requests. *)
LEMMA KeepSpends ==
  ASSUME NEW S, NEW size, \A r \in S : size[r] \in Nat, NEW N \in Nat, NEW q \in [1..N -> S]
  PROVE  Spends(KeepWithin(size, q), S, size, q, N)
<1> DEFINE Row(g) ==
             [n \in 0..N |->
                LET before == IF n = 0 THEN <<>> ELSE g[n - 1]
                IN  IF /\ n # 0 /\ Len(before) < MaxRequests
                       /\ TotalOf(size, before) + size[q[n]] <= MaxChars
                    THEN Append(before, q[n])
                    ELSE before]
           f == CHOOSE g : g = Row(g)
           D == Seq(S)
           After(k, i) == IF Fits(k, size, q[i]) THEN Append(k, q[i]) ELSE k
           step == [i \in 1..N |-> [k \in D |-> After(k, i)]]
<1>1. KeepWithin(size, q) = f[N]
  <2>1. Len(q) = N
    OBVIOUS
  <2> QED BY <2>1 DEF KeepWithin
<1>2. step \in Steps(D, N) /\ <<>> \in D
  <2>1. ASSUME NEW i \in 1..N, NEW k \in D PROVE After(k, i) \in D
    <3>1. Append(k, q[i]) \in D
      OBVIOUS
    <3> QED BY <3>1
  <2>2. <<>> \in D
    OBVIOUS
  <2> HIDE DEF D, After
  <2> QED BY <2>1, <2>2 DEF Steps
<1>3. \A i \in 1..N, k \in D : step[i][k] = After(k, i)
  OBVIOUS
<1> HIDE DEF step, D
<1>4. PICK g : Stepwise(g, D, N, <<>>, step)
  BY <1>2, StepwiseExists
<1>5. g \in [0..N -> D] /\ g[0] = <<>> /\ \A i \in 1..N : g[i] = After(g[i - 1], i)
  <2> HIDE DEF After
  <2>1. g \in [0..N -> D] /\ g[0] = <<>> /\ \A i \in 1..N : g[i] = step[i][g[i - 1]]
    BY <1>4 DEF Stepwise
  <2>2. \A i \in 1..N : i - 1 \in 0..N
    OBVIOUS
  <2>3. \A i \in 1..N : g[i - 1] \in D
    BY <2>1, <2>2
  <2> QED BY <1>3, <2>1, <2>3
<1>6. g = Row(g)
  <2>1. ASSUME NEW n \in 0..N
        PROVE  g[n] = LET before == IF n = 0 THEN <<>> ELSE g[n - 1]
                      IN  IF /\ n # 0 /\ Len(before) < MaxRequests
                             /\ TotalOf(size, before) + size[q[n]] <= MaxChars
                          THEN Append(before, q[n])
                          ELSE before
    <3>1. CASE n = 0
      BY <1>5, <3>1
    <3>2. CASE n \in 1..N
      BY <1>5, <3>2 DEF Fits
    <3> QED BY <3>1, <3>2
  <2>2. g = [n \in 0..N |-> g[n]]
    BY <1>5
  <2> QED BY <2>1, <2>2
<1>7. f = Row(f)
  <2> HIDE DEF Row
  <2> QED BY <1>6
<1> HIDE DEF f
<1>8. \A n \in 0..N :
        f[n] = LET before == IF n = 0 THEN <<>> ELSE f[n - 1]
               IN  IF /\ n # 0 /\ Len(before) < MaxRequests
                      /\ TotalOf(size, before) + size[q[n]] <= MaxChars
                   THEN Append(before, q[n])
                   ELSE before
  <2> DEFINE row == Row(f)
  <2>1. \A n \in 0..N :
          row[n] = LET before == IF n = 0 THEN <<>> ELSE f[n - 1]
                   IN  IF /\ n # 0 /\ Len(before) < MaxRequests
                          /\ TotalOf(size, before) + size[q[n]] <= MaxChars
                       THEN Append(before, q[n])
                       ELSE before
    OBVIOUS
  <2> HIDE DEF row
  <2> QED BY <1>7, <2>1 DEF row
<1> HIDE DEF Row
<1>9. f[0] = <<>>
  <2>1. PICK z \in 0..N : z = 0
    OBVIOUS
  <2>2. f[z] = LET before == IF z = 0 THEN <<>> ELSE f[z - 1]
               IN  IF /\ z # 0 /\ Len(before) < MaxRequests
                      /\ TotalOf(size, before) + size[q[z]] <= MaxChars
                   THEN Append(before, q[z])
                   ELSE before
    BY <1>8
  <2> QED BY <2>1, <2>2
<1>10. \A n \in 1..N : f[n] = After(f[n - 1], n)
  <2> TAKE n \in 1..N
  <2>1. n \in 0..N /\ n # 0
    OBVIOUS
  <2>2. f[n] = LET before == IF n = 0 THEN <<>> ELSE f[n - 1]
               IN  IF /\ n # 0 /\ Len(before) < MaxRequests
                      /\ TotalOf(size, before) + size[q[n]] <= MaxChars
                   THEN Append(before, q[n])
                   ELSE before
    BY <1>8, <2>1
  <2> QED BY <2>1, <2>2 DEF Fits
<1> DEFINE T == {n \in Nat : n <= N => Spends(f[n], S, size, q, n)}
<1>11. 0 \in T
  <2>1. TotalOf(size, <<>>) = 0
    <3>1. <<>> \in [1..0 -> S]
      OBVIOUS
    <3> QED BY <3>1, TotalAppend
  <2>2. Spends(<<>>, S, size, q, 0)
    <3>1. 0 \in 0..0 /\ <<>> \in [1..0 -> S] /\ 0 <= MaxRequests /\ 0 <= MaxChars
          /\ 1..0 = {} /\ ~(0 >= 1)
      OBVIOUS
    <3> QED BY <2>1, <3>1 DEF Spends
  <2> QED BY <1>9, <2>2
<1>12. ASSUME NEW n \in Nat, n \in T PROVE n + 1 \in T
  <2> SUFFICES ASSUME n + 1 <= N PROVE Spends(f[n + 1], S, size, q, n + 1)
    OBVIOUS
  <2>1. Spends(f[n], S, size, q, n)
    BY <1>12
  <2>2. PICK m \in 1..N : m = n + 1
    OBVIOUS
  <2>3. f[m] = After(f[m - 1], m) /\ m - 1 = n
    <3>1. f[m] = After(f[m - 1], m)
      BY <1>10, Zenon
    <3> QED BY <2>2, <3>1
  <2>4. f[n + 1] = IF Fits(f[n], size, q[n + 1]) THEN Append(f[n], q[n + 1]) ELSE f[n]
    BY <2>2, <2>3
  <2> QED BY <2>1, <2>4, OneMoreSpends
<1> HIDE DEF T
<1>13. Nat \subseteq T
  BY <1>11, <1>12, NatAll
<1>14. Spends(f[N], S, size, q, N)
  BY <1>13 DEF T
<1> QED BY <1>1, <1>14

(***************************************************************************)
(* The queue that Load builds from the change, and what it is then: of the *)
(* candidates only, and as BudgetWellSpent says.                           *)
(***************************************************************************)
InputsOK == change \in Shapes \cup {NoChange} /\ hunks \in Lists(Shapes, MaxHunks)
QueueBuilt == queue = WithinBudget(BuildRequests)
QueueOK == queue \in Lists(Ids, MaxHunks + 1) /\ Queued \subseteq Candidates
WellSpent ==
  /\ Len(queue) <= MaxRequests
  /\ TotalChars(queue) <= MaxChars
  /\ \A r \in Candidates \ Queued :
       \/ Oversize(r)
       \/ Len(queue) = MaxRequests
       \/ TotalChars(queue) + RequestChars(r) > MaxChars
  /\ 0 \in Candidates /\ ~Oversize(0) /\ RequestChars(0) <= MaxChars => 0 \in Queued

(* A candidate is an id, and has the shape of a request. *)
LEMMA CandidateShape ==
  InputsOK => Candidates \subseteq Ids /\ \A r \in Candidates : Shape(r) \in Shapes
<1> SUFFICES ASSUME InputsOK
             PROVE  Candidates \subseteq Ids /\ \A r \in Candidates : Shape(r) \in Shapes
  OBVIOUS
<1>1. PICK n \in 0..MaxHunks : hunks \in [1..n -> Shapes]
  BY DEF InputsOK, Lists
<1>2. Len(hunks) = n
  BY <1>1
<1>3. ASSUME NEW r \in Candidates PROVE r \in Ids /\ Shape(r) \in Shapes
  <2>1. CASE r = 0 /\ change # NoChange
    BY <2>1 DEF InputsOK, Shape, Ids
  <2>2. CASE r \in 1..n
    BY <1>1, <2>2 DEF Shape, Ids
  <2> QED BY <1>2, <1>3, <2>1, <2>2 DEF Candidates
<1> QED BY <1>3

(* The queue is within the budgets, and leaves out only what is not. *)
LEMMA QueueWellSpent == InputsOK /\ QueueBuilt => QueueOK /\ WellSpent
<1> SUFFICES ASSUME InputsOK, QueueBuilt PROVE QueueOK /\ WellSpent
  OBVIOUS
<1> DEFINE ids == {r \in Candidates : ~Oversize(r)}
           requests == InOrder(ids)
<1>1. Candidates \subseteq Ids /\ \A r \in Candidates : Shape(r) \in Shapes
  BY CandidateShape
<1>2. \A r \in Candidates : RequestChars(r) \in Nat
  <2> TAKE r \in Candidates
  <2>1. Shape(r).full \in Nat /\ Shape(r).least \in Nat /\ Shape(r).asks \in Nat
    BY <1>1
  <2> QED BY <2>1 DEF RequestChars, Fitted
<1>3. \A r \in Candidates : Sizes[r] = RequestChars(r) /\ Sizes[r] \in Nat
  BY <1>2 DEF Sizes
<1>4. ids \in SUBSET Ids /\ ids \subseteq Candidates
  BY <1>1
<1>5. queue = KeepWithin(Sizes, requests)
  BY DEF QueueBuilt, WithinBudget, BuildRequests
<1> HIDE DEF ids
<1>6. PICK N \in 0..MaxHunks + 1 :
        /\ requests \in [1..N -> ids]
        /\ \A r \in ids : r <= MaxHunks => \E i \in 1..N : requests[i] = r
        /\ 0 \in ids => N >= 1 /\ requests[1] = 0
  BY <1>4, InOrderHasAll DEF InOrderUpto
<1> HIDE DEF requests
<1>7. N \in Nat /\ \A r \in ids : Sizes[r] \in Nat
  BY <1>3, <1>4, <1>6
<1>8. Spends(queue, ids, Sizes, requests, N)
  BY <1>5, <1>6, <1>7, KeepSpends
<1>9. PICK m \in 0..N :
        /\ queue \in [1..m -> ids] /\ m <= MaxRequests /\ TotalOf(Sizes, queue) <= MaxChars
        /\ \A i \in 1..N : \/ \E j \in 1..m : queue[j] = requests[i]
                           \/ m = MaxRequests
                           \/ TotalOf(Sizes, queue) + Sizes[requests[i]] > MaxChars
        /\ N >= 1 /\ Sizes[requests[1]] <= MaxChars => \E j \in 1..m : queue[j] = requests[1]
  BY <1>8 DEF Spends
<1>10. m \in 0..MaxHunks + 1 /\ Len(queue) = m /\ DOMAIN queue = 1..m
  BY <1>6, <1>9
<1>11. Queued \subseteq Candidates /\ \A j \in 1..m : queue[j] \in Queued
  BY <1>4, <1>9, <1>10 DEF Queued
<1>12. QueueOK
  <2>1. queue \in [1..m -> Ids]
    BY <1>4, <1>9
  <2> QED BY <1>10, <1>11, <2>1 DEF QueueOK, Lists
<1>13. ASSUME NEW r \in Candidates \ Queued
       PROVE  \/ Oversize(r)
              \/ Len(queue) = MaxRequests
              \/ TotalChars(queue) + RequestChars(r) > MaxChars
  <2> SUFFICES ASSUME ~Oversize(r)
               PROVE  m = MaxRequests \/ TotalOf(Sizes, queue) + Sizes[r] > MaxChars
    BY <1>3, <1>10 DEF TotalChars
  <2>1. r \in ids /\ r <= MaxHunks
    BY <1>1 DEF ids, Ids
  <2>2. PICK i \in 1..N : requests[i] = r
    BY <1>6, <2>1
  <2> QED BY <1>9, <1>11, <2>2
<1>14. 0 \in Candidates /\ ~Oversize(0) /\ RequestChars(0) <= MaxChars => 0 \in Queued
  <2> SUFFICES ASSUME 0 \in Candidates, ~Oversize(0), RequestChars(0) <= MaxChars
               PROVE  0 \in Queued
    OBVIOUS
  <2>1. 0 \in ids
    BY DEF ids
  <2>2. N >= 1 /\ requests[1] = 0 /\ Sizes[requests[1]] <= MaxChars
    BY <1>3, <1>6, <2>1
  <2> QED BY <1>9, <1>11, <2>2
<1> QED BY <1>9, <1>10, <1>12, <1>13, <1>14 DEF WellSpent, TotalChars

(* So it is in the state that Load leads to. *)
LEMMA QueueWellSpentNext == InputsOK' /\ QueueBuilt' => QueueOK' /\ WellSpent'
BY QueueWellSpent, PTL

(* And so it stays while what it was built from does. *)
LEMMA QueueKeeps ==
  ASSUME UNCHANGED <<change, hunks, queue>>
  PROVE  /\ InputsOK' = InputsOK /\ QueueOK' = QueueOK /\ WellSpent' = WellSpent
         /\ Queued' = Queued /\ Candidates' = Candidates /\ \A r : Shape(r)' = Shape(r)
<1>1. \A r : /\ Shape(r)' = Shape(r) /\ Fitted(r)' = Fitted(r) /\ Oversize(r)' = Oversize(r)
             /\ RequestChars(r)' = RequestChars(r)
  BY DEF Shape, Fitted, Oversize, RequestChars
<1>2. Candidates' = Candidates /\ Queued' = Queued
  BY DEF Candidates, Queued
<1>3. Sizes' = Sizes
  BY <1>1, <1>2 DEF Sizes
<1>4. TotalChars(queue)' = TotalChars(queue)
  BY <1>3 DEF TotalChars
<1> QED BY <1>1, <1>2, <1>4 DEF InputsOK, QueueOK, WellSpent

(***************************************************************************)
(* Requests before the one the loop is at have been sent or have an error; *)
(* those that are in flight are asked under the worker limit; what ended a *)
(* request was a context; and the outcome is of what was asked.            *)
(***************************************************************************)
AskTypeOK ==
  /\ next \in 1..MaxHunks + 2 /\ selecting \in BOOLEAN
  /\ work \in [Ids -> {"unsent", "attempt", "backoff", "returned"}]
  /\ tries \in [Ids -> 0..MaxAttempts] /\ got \in [Ids -> Nat]
  /\ errs \in [Ids -> {"none", "ended", "rejected", "gaveUp"}]
  /\ {ownEnded, parentEnded, runErr} \subseteq BOOLEAN
  /\ phase \in {"idle", "start", "ask", "decide", "done"}
  /\ outcome \in {"none", "passed", "error", "cancelled"}
  /\ Cardinality(InFlight) <= AskWorkers

TriesLeft ==
  \A r \in Ids :
    /\ work[r] = "attempt" => tries[r] >= 1
    /\ work[r] = "backoff" => tries[r] < MaxAttempts

LoopInQueue ==
  /\ next <= Len(queue) + 1
  /\ selecting => phase = "ask" /\ next <= Len(queue)
  /\ phase \in {"decide", "done"} /\ Asked # {} => next > Len(queue)

SentOrFailed ==
  \A i \in 1..Len(queue) : i < next => work[queue[i]] # "unsent" \/ errs[queue[i]] # "none"

EndedByContext == \A r \in Ids : errs[r] = "ended" => Ended

AtRest ==
  phase \in {"idle", "start"} =>
    /\ queue = <<>> /\ next = 1 /\ selecting = FALSE /\ runErr = FALSE /\ outcome = "none"
    /\ work = [r \in Ids |-> "unsent"] /\ errs = [r \in Ids |-> "none"]

Settled ==
  /\ phase \in {"decide", "done"} => InFlight = {}
  /\ phase # "done" => outcome = "none"
  /\ phase = "done" => outcome = Verdict \/ (outcome = "error" /\ Asked = {})

SemanticInv ==
  /\ InputsOK /\ QueueOK /\ (phase = "ask" => WellSpent)
  /\ AskTypeOK /\ TriesLeft /\ LoopInQueue /\ SentOrFailed /\ EndedByContext /\ AtRest
  /\ Settled

(* The invariant is enough. *)
LEMMA SemanticInvImplies ==
  ASSUME SemanticInv PROVE SemanticTypeOK /\ BudgetWellSpent /\ OutcomeIsHonest
<1>1. SemanticTypeOK
  BY DEF SemanticInv, InputsOK, QueueOK, AskTypeOK, SemanticTypeOK
<1>2. BudgetWellSpent
  BY DEF SemanticInv, WellSpent, BudgetWellSpent
<1>3. ReportIsFinal
  <2> SUFFICES ASSUME phase \in {"decide", "done"}
               PROVE  /\ InFlight = {}
                      /\ \A r \in Asked : errs[r] = "none" => work[r] = "returned"
    BY DEF ReportIsFinal
  <2>1. InFlight = {}
    BY DEF SemanticInv, Settled
  <2>2. ASSUME NEW r \in Asked, errs[r] = "none" PROVE work[r] = "returned"
    <3>1. queue \in Lists(Ids, MaxHunks + 1) /\ next > Len(queue)
      BY DEF SemanticInv, QueueOK, LoopInQueue
    <3>2. PICK n \in 0..MaxHunks + 1 : queue \in [1..n -> Ids]
      BY <3>1 DEF Lists
    <3>3. PICK i \in 1..n : queue[i] = r
      BY <3>2 DEF Asked, Queued
    <3>4. Len(queue) = n /\ next \in Nat
      BY <3>2 DEF SemanticInv, AskTypeOK
    <3>5. work[r] # "unsent" /\ r \in Ids
      BY <2>2, <3>1, <3>2, <3>3, <3>4 DEF SemanticInv, SentOrFailed
    <3> QED BY <2>1, <3>5 DEF InFlight, SemanticInv, AskTypeOK
  <2> QED BY <2>1, <2>2
<1>4. \A r \in Asked : Shape(r) \in Shapes /\ r \in Ids
  BY CandidateShape DEF SemanticInv, QueueOK, Asked
<1>5. outcome = "error" => ~Judgments
  <2>1. Asked = {} => ~Judgments
    BY DEF Judgments
  <2>2. Verdict = "error" => runErr \/ ~Judgments
    BY DEF Verdict
  <2>3. runErr => Asked = {}
    BY DEF Asked
  <2> QED BY <2>1, <2>2, <2>3 DEF SemanticInv, Settled
<1>6. outcome = "passed" => Judgments \/ ~Unanswered
  BY DEF SemanticInv, Settled, Verdict
<1>7. outcome = "cancelled" => parentEnded
  BY DEF SemanticInv, Settled, Verdict
<1>8. ASSUME phase = "done", ~ownEnded, NEW r \in Asked, errs[r] = "ended"
      PROVE  outcome = "cancelled"
  <2>1. parentEnded
    BY <1>4, <1>8 DEF SemanticInv, EndedByContext, Ended
  <2>2. Missing(r) = Shape(r).asks /\ Missing(r) > 0
    <3>1. Judged(r) = 0
      BY <1>8 DEF Judged
    <3>2. Shape(r).asks \in Nat \ {0}
      BY <1>4
    <3> QED BY <3>1, <3>2 DEF Missing
  <2>3. Unanswered
    BY <2>2 DEF Unanswered
  <2>4. Verdict = "cancelled"
    BY <2>1, <2>3 DEF Verdict
  <2> QED BY <1>8, <2>4 DEF SemanticInv, Settled
<1> QED BY <1>1, <1>2, <1>3, <1>5, <1>6, <1>7, <1>8 DEF OutcomeIsHonest

(* At rest nothing is asked. *)
LEMMA SemanticInvInit ==
  ASSUME SemanticRest, phase \in {"idle", "start"} PROVE SemanticInv
<1>1. queue \in [1..0 -> Ids] /\ hunks \in [1..0 -> Shapes] /\ Len(queue) = 0 /\ Queued = {}
  BY DEF SemanticRest, Queued
<1>2. MaxHunks \in Nat /\ 0 \in 0..MaxHunks + 1 /\ 0 \in 0..MaxHunks
  OBVIOUS
<1>3. InputsOK /\ QueueOK
  BY <1>1, <1>2 DEF SemanticRest, InputsOK, QueueOK, Lists
<1>4. InFlight = {}
  BY DEF SemanticRest, InFlight
<1>5. Cardinality(InFlight) <= AskWorkers
  BY <1>4, FS_EmptySet
<1>6. AskTypeOK
  <2>1. 0 \in 0..MaxAttempts /\ 1 \in 1..MaxHunks + 2
    OBVIOUS
  <2>2. tries \in [Ids -> 0..MaxAttempts] /\ next \in 1..MaxHunks + 2
    BY <2>1 DEF SemanticRest
  <2> QED BY <1>5, <2>2 DEF SemanticRest, AskTypeOK
<1>7. TriesLeft /\ SentOrFailed /\ EndedByContext /\ AtRest
  BY <1>1 DEF SemanticRest, TriesLeft, SentOrFailed, EndedByContext, AtRest
<1>8. LoopInQueue /\ Settled
  BY <1>1, <1>4 DEF SemanticRest, LoopInQueue, Settled
<1> QED BY <1>3, <1>6, <1>7, <1>8 DEF SemanticInv

(***************************************************************************)
(* What most steps leave as it is.                                         *)
(***************************************************************************)
(* Steps that leave the change and the queue. *)
LEMMA QueueStays ==
  ASSUME SemanticInv, UNCHANGED <<change, hunks, queue>>, phase' = "ask" => phase = "ask"
  PROVE  InputsOK' /\ QueueOK' /\ (phase' = "ask" => WellSpent')
BY QueueKeeps DEF SemanticInv

(* Steps that leave what was asked and answered. *)
LEMMA VerdictStays ==
  ASSUME UNCHANGED <<change, hunks, queue, got, errs, runErr, parentEnded>>
  PROVE  Asked' = Asked /\ Verdict' = Verdict
<1>1. Queued' = Queued /\ \A r : Shape(r)' = Shape(r)
  BY QueueKeeps
<1>2. Asked' = Asked
  BY <1>1 DEF Asked
<1>3. \A r : Judged(r)' = Judged(r) /\ Missing(r)' = Missing(r)
  BY <1>1 DEF Judged, Missing
<1>4. Judgments' = Judgments /\ Unanswered' = Unanswered
  BY <1>2, <1>3 DEF Judgments, Unanswered
<1> QED BY <1>2, <1>4 DEF Verdict

(* Nothing is asked of an empty queue. *)
LEMMA NothingAsked ==
  ASSUME queue' = <<>> \/ runErr' = TRUE PROVE Asked' = {}
BY DEF Asked, Queued

(* Before the questions are asked. *)
LEMMA StartKeepsSemantic ==
  ASSUME SemanticInv, Refuse \/ LoadFails \/ Load PROVE SemanticInv'
<1>1. /\ phase = "start" /\ queue = <<>> /\ next = 1 /\ selecting = FALSE /\ outcome = "none"
      /\ work = [r \in Ids |-> "unsent"] /\ errs = [r \in Ids |-> "none"] /\ runErr = FALSE
  BY DEF SemanticInv, AtRest, Refuse, LoadFails, Load
<1>2. UNCHANGED <<next, selecting, work, tries, got, errs, ownEnded, parentEnded>>
  BY DEF Refuse, LoadFails, Load, askVars, contextVars
<1>3. /\ phase' \in {"ask", "decide", "done"} /\ runErr' \in BOOLEAN
      /\ outcome' \in {"none", "error"}
  BY <1>1 DEF Refuse, LoadFails, Load
<1>4. InFlight' = InFlight /\ InFlight = {}
  BY <1>1, <1>2 DEF InFlight
<1>5. AskTypeOK'
  <2>1. Cardinality(InFlight)' <= AskWorkers
    BY <1>4, FS_EmptySet
  <2> QED BY <1>2, <1>3, <2>1 DEF SemanticInv, AskTypeOK
<1>6. TriesLeft' /\ EndedByContext' /\ AtRest'
  BY <1>1, <1>2, <1>3 DEF TriesLeft, EndedByContext, AtRest, Ended
<1>7. InputsOK' /\ QueueOK' /\ (phase' = "ask" => WellSpent')
  <2>1. CASE Load
    <3>1. InputsOK' /\ QueueBuilt'
      BY <2>1 DEF Load, inputVars, InputsOK, QueueBuilt, SemanticInv
    <3> QED BY <3>1, QueueWellSpentNext
  <2>2. CASE Refuse \/ LoadFails
    <3>1. UNCHANGED <<change, hunks, queue>> /\ phase' # "ask"
      BY <2>2 DEF Refuse, LoadFails, inputVars
    <3> QED BY <3>1, QueueStays
  <2> QED BY <2>1, <2>2
<1>8. SentOrFailed' /\ Len(queue') \in Nat
  <2>1. PICK n \in 0..MaxHunks + 1 : queue' \in [1..n -> Ids]
    BY <1>7 DEF QueueOK, Lists
  <2>2. Len(queue') = n
    BY <2>1
  <2>3. \A i \in 1..n : ~(i < next')
    BY <1>1, <1>2
  <2> QED BY <2>2, <2>3 DEF SentOrFailed
<1>9. Asked' = {} \/ phase' = "ask"
  <2>1. queue' = <<>> \/ runErr' = TRUE \/ phase' = "ask"
    BY <1>1 DEF Refuse, LoadFails, Load
  <2> QED BY <2>1, NothingAsked
<1>10. LoopInQueue'
  BY <1>1, <1>2, <1>8, <1>9 DEF LoopInQueue
<1>11. Settled'
  <2>1. phase' # "done" => outcome' = "none"
    BY <1>1 DEF Refuse, LoadFails, Load
  <2>2. phase' = "done" => outcome' = "error"
    BY DEF Refuse, LoadFails, Load
  <2> QED BY <1>4, <1>9, <2>1, <2>2 DEF Settled
<1> QED BY <1>5, <1>6, <1>7, <1>8, <1>10, <1>11 DEF SemanticInv

(* A context that ends can explain what happens after, not what happened. *)
LEMMA EndKeepsSemantic ==
  ASSUME SemanticInv, EndOwn \/ EndParent PROVE SemanticInv'
<1>1. /\ phase \in {"start", "ask", "decide"}
      /\ UNCHANGED <<change, hunks, phase, queue, next, selecting, work, tries, got, errs,
                     runErr, outcome>>
  BY DEF EndOwn, EndParent, inputVars, askVars
<1>2. ownEnded' \in BOOLEAN /\ parentEnded' \in BOOLEAN /\ (Ended => Ended')
  BY DEF EndOwn, EndParent, Ended, SemanticInv, AskTypeOK
<1>3. InputsOK' /\ QueueOK' /\ (phase' = "ask" => WellSpent')
  BY <1>1, QueueStays
<1>4. InFlight' = InFlight
  BY <1>1 DEF InFlight
<1>5. Asked' = Asked
  BY <1>1 DEF Asked, Queued
<1>6. AskTypeOK' /\ TriesLeft' /\ SentOrFailed' /\ EndedByContext' /\ AtRest'
  BY <1>1, <1>2, <1>4
     DEF SemanticInv, AskTypeOK, TriesLeft, SentOrFailed, EndedByContext, AtRest
<1>7. LoopInQueue' /\ Settled'
  BY <1>1, <1>4, <1>5 DEF SemanticInv, LoopInQueue, Settled
<1> QED BY <1>3, <1>6, <1>7 DEF SemanticInv

(* Nothing that steps outside of the loop and the goroutines. *)
LEMMA JoinKeepsSemantic ==
  ASSUME SemanticInv, Join \/ Decide PROVE SemanticInv'
<1>1. UNCHANGED <<change, hunks, queue, next, selecting, work, tries, got, errs,
                  ownEnded, parentEnded, runErr>>
  BY DEF Join, Decide, inputVars, askVars, contextVars
<1>2. InputsOK' /\ QueueOK' /\ (phase' = "ask" => WellSpent')
  BY <1>1, QueueStays DEF Join, Decide
<1>3. InFlight' = InFlight /\ Asked' = Asked /\ Verdict' = Verdict
  BY <1>1, VerdictStays DEF InFlight
<1>4. /\ phase' \in {"decide", "done"} /\ InFlight = {}
      /\ Asked # {} => next > Len(queue)
      /\ phase' = "decide" => outcome' = "none"
      /\ phase' = "done" => outcome' = Verdict
  BY DEF Join, Decide, SemanticInv, Settled, LoopInQueue
<1>5. outcome' \in {"none", "passed", "error", "cancelled"}
  BY <1>4 DEF Verdict
<1>6. AskTypeOK' /\ TriesLeft' /\ SentOrFailed' /\ EndedByContext' /\ AtRest'
  BY <1>1, <1>3, <1>4, <1>5
     DEF SemanticInv, AskTypeOK, TriesLeft, SentOrFailed, EndedByContext, AtRest, Ended
<1>7. selecting = FALSE
  BY DEF Join, Decide, SemanticInv, LoopInQueue, AskTypeOK, QueueOK
<1>8. LoopInQueue' /\ Settled'
  BY <1>1, <1>3, <1>4, <1>7 DEF SemanticInv, LoopInQueue, Settled
<1> QED BY <1>2, <1>6, <1>8 DEF SemanticInv

(***************************************************************************)
(* While requests are asked: the queue and the contexts stay, and what is  *)
(* left to show is of the loop and of the requests.                        *)
(***************************************************************************)
AskKept ==
  /\ phase = "ask"
  /\ UNCHANGED <<change, hunks, queue, phase, ownEnded, parentEnded, runErr, outcome>>

(* Of these parts the invariant is made in the next state. *)
LEMMA AskingKeepsSemantic ==
  ASSUME SemanticInv, AskKept, AskTypeOK', TriesLeft', EndedByContext', SentOrFailed',
         next' <= Len(queue) + 1, selecting' => next' <= Len(queue)
  PROVE  SemanticInv'
<1>1. InputsOK' /\ QueueOK' /\ (phase' = "ask" => WellSpent')
  BY QueueStays DEF AskKept
<1>2. LoopInQueue' /\ AtRest' /\ Settled'
  BY DEF AskKept, LoopInQueue, AtRest, Settled, SemanticInv
<1> QED BY <1>1, <1>2 DEF SemanticInv

(* A finite set of ids is in flight, and no more than before if it is less. *)
LEMMA FewerInFlight ==
  ASSUME SemanticInv, InFlight' \subseteq InFlight PROVE Cardinality(InFlight)' <= AskWorkers
<1>1. IsFiniteSet(Ids)
  BY FS_Interval DEF Ids
<1>2. IsFiniteSet(InFlight)
  <2>1. InFlight \subseteq Ids
    BY DEF InFlight
  <2> QED BY <1>1, <2>1, FS_Subset
<1>3. Cardinality(InFlight') <= Cardinality(InFlight)
  BY <1>2, FS_Subset
<1>4. Cardinality(InFlight') \in Nat /\ Cardinality(InFlight) \in Nat
  BY <1>2, FS_Subset, FS_CardinalityType
<1> QED BY <1>3, <1>4 DEF SemanticInv, AskTypeOK

(* The request the loop is at is one of the queue. *)
LEMMA LoopAt ==
  ASSUME SemanticInv, next <= Len(queue)
  PROVE  /\ next \in 1..Len(queue) /\ queue[next] \in Ids /\ Len(queue) \in 0..MaxHunks + 1
         /\ \A i \in 1..Len(queue) : queue[i] \in Ids
<1>1. PICK n \in 0..MaxHunks + 1 : queue \in [1..n -> Ids]
  BY DEF SemanticInv, QueueOK, Lists
<1>2. Len(queue) = n
  BY <1>1
<1>3. next \in 1..n
  BY <1>2 DEF SemanticInv, AskTypeOK
<1> QED BY <1>1, <1>2, <1>3

(* The loop gives a request up for a context that has ended. *)
LEMMA PassOverKeeps ==
  ASSUME SemanticInv, AskKept, next <= Len(queue), Ended, PassOver(queue[next], "ended")
  PROVE  SemanticInv'
<1>1. /\ next \in 1..Len(queue) /\ queue[next] \in Ids /\ Len(queue) \in 0..MaxHunks + 1
      /\ \A i \in 1..Len(queue) : queue[i] \in Ids
  BY LoopAt
<1>2. /\ errs' = [errs EXCEPT ![queue[next]] = "ended"] /\ next' = next + 1
      /\ selecting' = FALSE /\ UNCHANGED <<work, tries, got>>
  BY DEF PassOver
<1>3. errs \in [Ids -> {"none", "ended", "rejected", "gaveUp"}]
  BY DEF SemanticInv, AskTypeOK
<1>4. InFlight' = InFlight
  BY <1>2 DEF InFlight
<1>5. AskTypeOK'
  <2>1. Cardinality(InFlight)' <= AskWorkers
    BY <1>4, FewerInFlight
  <2>2. next' \in 1..MaxHunks + 2
    BY <1>1, <1>2
  <2> QED BY <1>1, <1>2, <1>3, <2>1, <2>2 DEF SemanticInv, AskTypeOK, AskKept
<1>6. EndedByContext'
  BY <1>2, <1>3 DEF SemanticInv, EndedByContext, Ended, AskKept
<1>7. SentOrFailed'
  <2> SUFFICES ASSUME NEW i \in 1..Len(queue), i < next + 1
               PROVE  work[queue[i]] # "unsent" \/ errs'[queue[i]] # "none"
    BY <1>2 DEF SentOrFailed, AskKept
  <2>1. CASE i = next
    BY <1>1, <1>2, <1>3, <2>1
  <2>2. CASE i < next
    <3>1. work[queue[i]] # "unsent" \/ errs[queue[i]] # "none"
      BY <2>2 DEF SemanticInv, SentOrFailed
    <3> QED BY <1>1, <1>2, <1>3, <3>1
  <2> QED BY <1>1, <2>1, <2>2
<1>8. TriesLeft'
  BY <1>2 DEF SemanticInv, TriesLeft
<1> QED BY <1>1, <1>2, <1>5, <1>6, <1>7, <1>8, AskingKeepsSemantic

(* The loop looks, sends, or gives up. *)
LEMMA LoopKeepsSemantic ==
  ASSUME SemanticInv, LoopCheck \/ LoopSend \/ LoopEnded PROVE SemanticInv'
<1>1. AskKept
  BY DEF LoopCheck, LoopSend, LoopEnded, AskKept, inputVars, contextVars
<1>2. next <= Len(queue)
  BY DEF LoopCheck, LoopSend, LoopEnded, SemanticInv, LoopInQueue
<1>3. /\ next \in 1..Len(queue) /\ queue[next] \in Ids /\ Len(queue) \in 0..MaxHunks + 1
      /\ \A i \in 1..Len(queue) : queue[i] \in Ids
  BY <1>2, LoopAt
<1>4. CASE Ended /\ PassOver(queue[next], "ended")
  BY <1>1, <1>2, <1>4, PassOverKeeps
<1>5. CASE selecting' = TRUE /\ UNCHANGED <<next, work, tries, got, errs>>
  <2>1. InFlight' = InFlight
    BY <1>5 DEF InFlight
  <2>2. Cardinality(InFlight)' <= AskWorkers
    BY <2>1, FewerInFlight
  <2>3. AskTypeOK' /\ TriesLeft' /\ EndedByContext' /\ SentOrFailed'
    BY <1>1, <1>5, <2>2
       DEF SemanticInv, AskKept, AskTypeOK, TriesLeft, EndedByContext, SentOrFailed, Ended
  <2> QED BY <1>1, <1>2, <1>3, <1>5, <2>3, AskingKeepsSemantic
<1>6. CASE LoopSend
  <2> DEFINE r == queue[next]
  <2>1. /\ Cardinality(InFlight) < AskWorkers
        /\ work' = [work EXCEPT ![r] = "attempt"] /\ tries' = [tries EXCEPT ![r] = 1]
        /\ next' = next + 1 /\ selecting' = FALSE /\ UNCHANGED <<got, errs>>
    BY <1>6 DEF LoopSend
  <2>2. /\ work \in [Ids -> {"unsent", "attempt", "backoff", "returned"}]
        /\ tries \in [Ids -> 0..MaxAttempts] /\ r \in Ids
    BY <1>3 DEF SemanticInv, AskTypeOK
  <2> HIDE DEF r
  <2>3. Cardinality(InFlight)' <= AskWorkers
    <3>1. InFlight' \subseteq InFlight \cup {r}
      BY <2>1, <2>2 DEF InFlight
    <3>2. IsFiniteSet(InFlight)
      <4>1. InFlight \subseteq Ids
        BY DEF InFlight
      <4>2. IsFiniteSet(Ids)
        BY FS_Interval DEF Ids
      <4> QED BY <4>1, <4>2, FS_Subset
    <3>3. /\ IsFiniteSet(InFlight \cup {r})
          /\ Cardinality(InFlight \cup {r}) \in {Cardinality(InFlight), Cardinality(InFlight) + 1}
      BY <3>2, FS_AddElement
    <3>4. /\ Cardinality(InFlight') <= Cardinality(InFlight \cup {r})
          /\ IsFiniteSet(InFlight')
      BY <3>1, <3>3, FS_Subset
    <3>5. Cardinality(InFlight') \in Nat /\ Cardinality(InFlight) \in Nat
      BY <3>2, <3>4, FS_CardinalityType
    <3> QED BY <2>1, <3>3, <3>4, <3>5
  <2>4. 1 \in 0..MaxAttempts /\ next' \in 1..MaxHunks + 2
    BY <1>3, <2>1
  <2>5. AskTypeOK'
    BY <1>1, <2>1, <2>2, <2>3, <2>4 DEF SemanticInv, AskTypeOK, AskKept
  <2>6. TriesLeft' /\ EndedByContext'
    BY <1>1, <2>1, <2>2 DEF SemanticInv, TriesLeft, EndedByContext, Ended, AskKept
  <2>7. SentOrFailed'
    <3> SUFFICES ASSUME NEW i \in 1..Len(queue), i < next + 1
                 PROVE  work'[queue[i]] # "unsent" \/ errs[queue[i]] # "none"
      BY <1>1, <2>1 DEF SentOrFailed, AskKept
    <3>1. CASE i = next
      BY <1>3, <2>1, <2>2, <3>1 DEF r
    <3>2. CASE i < next
      <4>1. work[queue[i]] # "unsent" \/ errs[queue[i]] # "none"
        BY <3>2 DEF SemanticInv, SentOrFailed
      <4> QED BY <1>3, <2>1, <2>2, <4>1
    <3> QED BY <1>3, <3>1, <3>2
  <2> QED BY <1>1, <1>3, <2>1, <2>5, <2>6, <2>7, AskingKeepsSemantic
<1> QED BY <1>4, <1>5, <1>6 DEF LoopCheck, LoopEnded

(* A goroutine: it returns, or waits, or tries again. *)
LEMMA GoroutineKeepsSemantic ==
  ASSUME SemanticInv, NEW r \in Ids,
         Answered(r) \/ Rejected(r) \/ Retryable(r) \/ WakeUp(r) \/ AskEnded(r)
  PROVE  SemanticInv'
<1>1. r \in InFlight
  BY DEF Answered, Rejected, Retryable, WakeUp, AskEnded, InFlight
<1>2. phase = "ask"
  BY <1>1 DEF SemanticInv, AskTypeOK, AtRest, Settled, InFlight
<1>3. /\ work \in [Ids -> {"unsent", "attempt", "backoff", "returned"}]
      /\ errs \in [Ids -> {"none", "ended", "rejected", "gaveUp"}]
      /\ tries \in [Ids -> 0..MaxAttempts] /\ got \in [Ids -> Nat]
  BY DEF SemanticInv, AskTypeOK
<1>4. /\ next <= Len(queue) + 1 /\ (selecting => next <= Len(queue))
      /\ \A i \in 1..Len(queue) : queue[i] \in Ids
  <2>1. PICK n \in 0..MaxHunks + 1 : queue \in [1..n -> Ids]
    BY DEF SemanticInv, QueueOK, Lists
  <2>2. Len(queue) = n
    BY <2>1
  <2>3. next <= Len(queue) + 1 /\ (selecting => next <= Len(queue))
    BY DEF SemanticInv, LoopInQueue
  <2> QED BY <2>1, <2>2, <2>3
<1>5. ASSUME NEW err, NEW n \in Nat, Return(r, err, n),
             err \in {"none", "ended", "rejected", "gaveUp"}, err = "ended" => Ended
      PROVE  SemanticInv'
  <2>1. /\ work' = [work EXCEPT ![r] = "returned"] /\ errs' = [errs EXCEPT ![r] = err]
        /\ got' = [got EXCEPT ![r] = n] /\ UNCHANGED <<next, selecting, tries>>
    BY <1>5 DEF Return
  <2>2. AskKept
    BY <1>2, <1>5 DEF Return, AskKept, inputVars, contextVars
  <2>3. InFlight' \subseteq InFlight
    BY <1>3, <2>1 DEF InFlight
  <2>4. AskTypeOK'
    BY <1>3, <1>5, <2>1, <2>2, <2>3, FewerInFlight DEF SemanticInv, AskTypeOK, AskKept
  <2>5. TriesLeft' /\ EndedByContext'
    BY <1>3, <1>5, <2>1, <2>2 DEF SemanticInv, TriesLeft, EndedByContext, Ended, AskKept
  <2>6. SentOrFailed'
    BY <1>1, <1>3, <1>4, <2>1, <2>2 DEF SemanticInv, SentOrFailed, AskKept, InFlight
  <2> QED BY <1>4, <2>1, <2>2, <2>4, <2>5, <2>6, AskingKeepsSemantic
<1>6. ASSUME NEW to \in {"attempt", "backoff"}, NEW n \in 0..MaxAttempts, AskKept,
             work' = [work EXCEPT ![r] = to], tries' = [tries EXCEPT ![r] = n],
             UNCHANGED <<next, selecting, got, errs>>,
             to = "attempt" => n >= 1, to = "backoff" => n < MaxAttempts
      PROVE  SemanticInv'
  <2>1. InFlight' \subseteq InFlight
    BY <1>1, <1>3, <1>6 DEF InFlight
  <2>2. AskTypeOK'
    BY <1>3, <1>6, <2>1, FewerInFlight DEF SemanticInv, AskTypeOK, AskKept
  <2>3. TriesLeft' /\ EndedByContext'
    BY <1>3, <1>6 DEF SemanticInv, TriesLeft, EndedByContext, Ended, AskKept
  <2>4. SentOrFailed'
    BY <1>3, <1>4, <1>6 DEF SemanticInv, SentOrFailed, AskKept
  <2> QED BY <1>4, <1>6, <2>2, <2>3, <2>4, AskingKeepsSemantic
<1>7. CASE Answered(r)
  <2>1. PICK n \in 0..Shape(r).asks : Return(r, "none", n)
    BY <1>7 DEF Answered
  <2>2. n \in Nat
    OBVIOUS
  <2> QED BY <1>5, <2>1, <2>2
<1>8. CASE Rejected(r)
  BY <1>5, <1>8 DEF Rejected
<1>9. CASE AskEnded(r)
  BY <1>5, <1>9 DEF AskEnded
<1>10. CASE Retryable(r)
  <2>1. CASE Return(r, "gaveUp", 0)
    BY <1>5, <2>1
  <2>2. CASE ~Return(r, "gaveUp", 0)
    <3>1. /\ tries[r] # MaxAttempts /\ work' = [work EXCEPT ![r] = "backoff"]
          /\ UNCHANGED <<next, selecting, tries, got, errs>>
      BY <1>10, <2>2 DEF Retryable
    <3>2. AskKept
      BY <1>2, <1>10, <2>2 DEF Retryable, AskKept, inputVars, contextVars
    <3>3. tries' = [tries EXCEPT ![r] = tries[r]] /\ tries[r] \in 0..MaxAttempts
          /\ tries[r] < MaxAttempts
      BY <1>3, <3>1
    <3> QED BY <1>6, <3>1, <3>2, <3>3
  <2> QED BY <2>1, <2>2
<1>11. CASE WakeUp(r)
  <2>1. tries[r] \in 0..MaxAttempts /\ tries[r] < MaxAttempts
    BY <1>3, <1>11 DEF WakeUp, SemanticInv, TriesLeft
  <2>2. tries[r] + 1 \in 0..MaxAttempts /\ tries[r] + 1 >= 1
    BY <2>1
  <2>3. /\ work' = [work EXCEPT ![r] = "attempt"] /\ tries' = [tries EXCEPT ![r] = tries[r] + 1]
        /\ UNCHANGED <<next, selecting, got, errs>> /\ AskKept
    BY <1>2, <1>11 DEF WakeUp, AskKept, inputVars, contextVars
  <2> QED BY <1>6, <2>2, <2>3
<1> QED BY <1>7, <1>8, <1>9, <1>10, <1>11

(* Every step keeps the invariant, and so does one of another machine. *)
LEMMA SemanticInvStep ==
  ASSUME SemanticInv, [SemanticNext]_semanticVars PROVE SemanticInv'
<1>1. CASE UNCHANGED semanticVars
  <2>1. UNCHANGED <<change, hunks, phase, queue, next, selecting, work, tries, got, errs,
                    ownEnded, parentEnded, runErr, outcome>>
    BY <1>1 DEF semanticVars
  <2>2. InputsOK' /\ QueueOK' /\ (phase' = "ask" => WellSpent')
    BY <2>1, QueueStays
  <2>3. InFlight' = InFlight /\ Asked' = Asked /\ Verdict' = Verdict
    BY <2>1, VerdictStays DEF InFlight
  <2>4. AskTypeOK' /\ TriesLeft' /\ SentOrFailed' /\ EndedByContext' /\ AtRest'
    BY <2>1, <2>3
       DEF SemanticInv, AskTypeOK, TriesLeft, SentOrFailed, EndedByContext, AtRest, Ended
  <2>5. LoopInQueue' /\ Settled'
    BY <2>1, <2>3 DEF SemanticInv, LoopInQueue, Settled
  <2> QED BY <2>2, <2>4, <2>5 DEF SemanticInv
<1> QED BY <1>1, StartKeepsSemantic, LoopKeepsSemantic, GoroutineKeepsSemantic, JoinKeepsSemantic,
           EndKeepsSemantic DEF SemanticNext, SemanticDone

(* Whatever the change and its hunks, however requests and contexts end. *)
LEMMA SemanticAlways == SemanticSpec => []SemanticInv
<1>1. SemanticInit => SemanticInv
  BY SemanticInvInit DEF SemanticInit
<1>2. SemanticInv /\ [SemanticNext]_semanticVars => SemanticInv'
  BY SemanticInvStep
<1> QED BY <1>1, <1>2, PTL DEF SemanticSpec

(***************************************************************************)
(* check.go:186-214, 349-354: for any budgets and any change, what is sent *)
(* is within both budgets, nothing that would still fit is left out, and a *)
(* tight budget goes to the change as a whole first.                       *)
(***************************************************************************)
THEOREM BudgetsAreWellSpent == SemanticSpec => []BudgetWellSpent
<1>1. SemanticInv => BudgetWellSpent
  BY SemanticInvImplies
<1> QED BY <1>1, SemanticAlways, PTL

(***************************************************************************)
(* semantic.go:93-113, check.go:146-149: for any number of requests, of    *)
(* workers and of attempts, and whichever context ends when: the report is *)
(* of requests that are over, no answer is thrown away, a pass answered    *)
(* something or everything, and what the run's end cut short is cancelled. *)
(***************************************************************************)
THEOREM OutcomesAreHonest == SemanticSpec => [](SemanticTypeOK /\ OutcomeIsHonest)
<1>1. SemanticInv => SemanticTypeOK /\ OutcomeIsHonest
  BY SemanticInvImplies
<1> QED BY <1>1, SemanticAlways, PTL

HIDE SemanticAssumption

-------------------------------------------------------------------------------
(***************************************************************************)
(* go-lint: what both linters say, whatever the caches held, for any       *)
(* sources, configurations and rule modules.                               *)
(***************************************************************************)
USE GoLintAssumption, NamesAssumption, MarksAssumption

BuildKinds == {"plain", "tested"}
Linting == [code : Sources, config : Configs, linter : {"core"} \cup DOMAIN Modules]

OfTests(x, r, u) == JudgedBy(x.linter, r) = "tested" /\ u = "plain" /\ r \in x.code.codes

Like(x, u, result) ==
  /\ result \in Results
  /\ result.open = Analyzed(x, u).open
  /\ result.line \subseteq Registered(x)
  /\ \A r \in Registered(x) :
       ~OfTests(x, r, u) => (r \in result.line <=> r \in Analyzed(x, u).line)

PackagesTrue ==
  \A x \in Linting, u \in BuildKinds :
    PackageKey(x, u) \in DOMAIN packageCache => Like(x, u, packageCache[PackageKey(x, u)])

(* What is registered is a rule of the linter, and no code of Staticcheck's. *)
LEMMA RegisteredRules ==
  ASSUME NEW x \in Linting
  PROVE  /\ Registered(x) \subseteq AllRules
         /\ x.linter = "core" => Registered(x) \subseteq CoreRules
         /\ x.linter # "core" => x.linter \in DOMAIN Modules
                                 /\ Registered(x) \subseteq Modules[x.linter].rules
         /\ Registered(x) \cap {"staticcheck", "mixed"} = {}
<1>1. x.linter = "core" => Registered(x) \subseteq CoreRules
  BY DEF Registered
<1>2. x.linter # "core" => x.linter \in DOMAIN Modules
                           /\ Registered(x) \subseteq Modules[x.linter].rules
  BY DEF Registered, Selected, Linting
<1>3. Registered(x) \subseteq AllRules
  BY <1>1, <1>2 DEF AllRules
<1> QED BY <1>1, <1>2, <1>3 DEF NamesAssumption

(* An analysis is like itself. *)
LEMMA AnalyzedLike ==
  ASSUME NEW x \in Linting, NEW u \in BuildKinds PROVE Like(x, u, Analyzed(x, u))
<1>1. Registered(x) \subseteq AllRules
  BY RegisteredRules
<1>2. Analyzed(x, u).line \subseteq Registered(x) /\ Analyzed(x, u).open \subseteq Registered(x)
  BY DEF Analyzed
<1>3. Analyzed(x, u) \in Results
  BY <1>1, <1>2 DEF Analyzed, Results
<1> QED BY <1>2, <1>3 DEF Like

(* What is kept under a key is like the analysis of everything with that key. *)
LEMMA SameKeyLike ==
  ASSUME NEW x \in Linting, NEW y \in Linting, NEW u \in BuildKinds, NEW w \in BuildKinds,
         PackageKey(x, u) = PackageKey(y, w)
  PROVE  u = w /\ Like(y, w, Analyzed(x, u))
<1>1. /\ u = w /\ x.linter = y.linter /\ x.code.text = y.code.text
      /\ Registered(x) = Registered(y) /\ SettingOf(x) = SettingOf(y)
      /\ u = "tested" => x.code.tested = y.code.tested
  BY DEF PackageKey
<1>2. x.code \in Sources /\ y.code \in Sources
  BY DEF Linting
<1>3. x.code.codes = y.code.codes /\ x.code.plain = y.code.plain /\ x.code.open = y.code.open
  BY <1>1, <1>2 DEF GoLintAssumption
<1>4. Like(x, u, Analyzed(x, u))
  BY AnalyzedLike
<1>5. ASSUME NEW r \in Registered(y) PROVE Elsewhere(x, r, u) <=> Elsewhere(y, r, w)
  BY <1>1, <1>3 DEF Elsewhere
<1>6. Analyzed(x, u).open = Analyzed(y, w).open
  BY <1>1, <1>5 DEF Analyzed
<1>7. ASSUME NEW r \in Registered(y), ~OfTests(y, r, w)
      PROVE  UnderDirective(x.code, x.linter, r, u) <=> UnderDirective(y.code, y.linter, r, w)
  <2>1. CASE w = "plain"
    BY <1>1, <1>3, <1>7, <2>1 DEF UnderDirective, OfTests
  <2>2. CASE w = "tested"
    BY <1>1, <1>3, <1>7, <2>2 DEF UnderDirective, OfTests
  <2> QED BY <2>1, <2>2 DEF BuildKinds
<1>8. ASSUME NEW r \in Registered(y), ~OfTests(y, r, w)
      PROVE  r \in Analyzed(x, u).line <=> r \in Analyzed(y, w).line
  BY <1>1, <1>7, <1>8 DEF Analyzed
<1> QED BY <1>1, <1>4, <1>6, <1>8 DEF Like

(***************************************************************************)
(* What a linter says.                                                     *)
(***************************************************************************)
TrueLines(x) == (IF x.code.compiles THEN TrueFindingsOf(x) ELSE {}) \cup Excluded(x)

(* Its lines, and those that the code of modules added, if it is not "core". *)
SaysTrue(x, lines, added) ==
  /\ x.linter = "core" => added = {}
  /\ TrueLines(x) \subseteq lines
  /\ ~x.code.compiles /\ x.linter = "core" => CompileError(x) \in lines
  /\ \A f \in lines \ TrueLines(x) :
       f.rule = "staticcheck" \/ f \in added \/ (~x.code.compiles /\ f.rule = "compile")
  /\ \A f \in lines \ added : f.rule = "staticcheck" => f.at = "line"

(* A rule that a directive does not name says where a linter reports it. *)
LEMMA HereIsShown ==
  ASSUME NEW x \in Linting, NEW r \in Registered(x), r \notin x.code.codes
  PROVE  Here(x, r) <=> \E u \in Builds(x.code) : r \in Analyzed(x, u).line
<1> DEFINE s == x.code
<1>1. s \in Sources
  BY DEF Linting
<1>2. \A u \in BuildKinds : r \in Analyzed(x, u).line <=> UnderDirective(s, x.linter, r, u)
  BY DEF Analyzed
<1>3. Builds(s) \subseteq BuildKinds /\ "plain" \in Builds(s)
      /\ ("tested" \in Builds(s) <=> s.tests)
  BY DEF Builds, BuildKinds
<1> SUFFICES Here(x, r) <=> \E u \in Builds(s) : UnderDirective(s, x.linter, r, u)
  BY <1>2, <1>3
<1>4. CASE x.linter = "core"
  <2>1. r \in CoreRules /\ JudgedIn[r] \in {"plain", "tested", "both"}
    BY <1>4, RegisteredRules DEF GoLintAssumption
  <2>2. CASE JudgedIn[r] = "plain"
    <3>1. Here(x, r) <=> r \in s.plain
      BY <1>4, <2>2 DEF Here, Deciding
    <3>2. UnderDirective(s, x.linter, r, "plain") <=> r \in s.plain
      BY <1>4, <2>2 DEF UnderDirective, JudgedBy
    <3>3. ~UnderDirective(s, x.linter, r, "tested")
      BY <1>4, <2>2 DEF UnderDirective, JudgedBy
    <3> QED BY <1>3, <3>1, <3>2, <3>3 DEF BuildKinds
  <2>3. CASE JudgedIn[r] = "tested"
    <3>1. Here(x, r) <=> r \in IF s.tests THEN s.tested ELSE s.plain
      BY <1>4, <2>3 DEF Here, Deciding
    <3>2. UnderDirective(s, x.linter, r, "plain") <=> r \in s.plain
      BY <1>4, <2>3 DEF UnderDirective, JudgedBy
    <3>3. UnderDirective(s, x.linter, r, "tested") <=> r \in s.tested
      BY <1>4, <2>3 DEF UnderDirective, JudgedBy
    <3>4. s.tests /\ r \in s.plain => r \in s.tested
      BY <1>1, <2>1, <2>3 DEF GoLintAssumption
    <3> QED BY <1>3, <3>1, <3>2, <3>3, <3>4 DEF BuildKinds
  <2>4. CASE JudgedIn[r] = "both"
    <3>1. Deciding(x, r) = Builds(s)
      BY <1>4, <2>4 DEF Deciding
    <3>2. \A u \in BuildKinds : UnderDirective(s, x.linter, r, u) <=> r \in s[u]
      BY <1>4, <2>4 DEF UnderDirective, JudgedBy
    <3> QED BY <1>3, <3>1, <3>2 DEF Here
  <2> QED BY <2>1, <2>2, <2>3, <2>4
<1>5. CASE x.linter # "core"
  <2>1. Deciding(x, r) = Builds(s)
    BY <1>5 DEF Deciding
  <2>2. \A u \in BuildKinds : UnderDirective(s, x.linter, r, u) <=> r \in s[u]
    BY <1>5 DEF UnderDirective, JudgedBy
  <2> QED BY <1>3, <2>1, <2>2 DEF Here
<1> QED BY <1>4, <1>5

(* No true finding is one of a directive that suppresses nothing. *)
LEMMA TrueAreNotStale ==
  ASSUME NEW x \in Linting, NEW f \in TrueLines(x) PROVE f.rule # "staticcheck"
<1>1. "staticcheck" \notin Registered(x)
  BY RegisteredRules
<1>2. \A g \in TrueFindingsOf(x) : g.rule # "staticcheck"
  <2>1. ASSUME NEW rules \in SUBSET Registered(x), NEW where, NEW g \in FindingsOf(x, rules, where)
        PROVE  g.rule # "staticcheck"
    BY <1>1, <2>1 DEF FindingsOf, Finding
  <2>2. \A g \in OwnRules(x) : g.rule # "staticcheck"
    BY DEF OwnRules, Finding
  <2>3. \A g \in FindingsOf(x, {r \in Registered(x) \ x.code.codes : Here(x, r)}, "line") :
          g.rule # "staticcheck"
    BY <2>1
  <2>4. \A g \in FindingsOf(x, {r \in Registered(x) : There(x, r)}, "elsewhere") :
          g.rule # "staticcheck"
    BY <2>1
  <2> QED BY <2>2, <2>3, <2>4 DEF TrueFindingsOf
<1> QED BY <1>2 DEF TrueLines, Excluded, Finding

(***************************************************************************)
(* Whatever Staticcheck's cache held, what is printed of a compiled source *)
(* is what its rules say, and reports of its directive.                    *)
(***************************************************************************)
LEMMA DiagnosticsSayTrue ==
  ASSUME NEW x \in Linting, NEW results, x.code.compiles,
         \A u \in Builds(x.code) : Like(x, u, results[u]),
         x.linter # "core" => Registered(x) # {}
  PROVE  /\ TrueFindingsOf(x) \subseteq Diagnostics(x, results)
         /\ \A f \in Diagnostics(x, results) \ TrueFindingsOf(x) :
              f.rule = "staticcheck" /\ f.at = "line"
<1> DEFINE s == x.code
           At(u) == Directive(x, results[u].line)
                      \cup FindingsOf(x, results[u].line \ s.codes, "line")
                      \cup FindingsOf(x, results[u].open, "elsewhere")
           Lined == FindingsOf(x, {r \in Registered(x) \ s.codes : Here(x, r)}, "line")
           OpenLines == FindingsOf(x, {r \in Registered(x) : There(x, r)}, "elsewhere")
<1>1. Diagnostics(x, results) = OwnRules(x) \cup UNION {At(u) : u \in Builds(s)}
  BY DEF Diagnostics
<1>2. TrueFindingsOf(x) = Lined \cup OpenLines \cup OwnRules(x)
  BY DEF TrueFindingsOf, OwnRules
<1>3. "plain" \in Builds(s) /\ Builds(s) \subseteq BuildKinds
  BY DEF Builds, BuildKinds
<1>4. ASSUME NEW u \in Builds(s), NEW r \in Registered(x) \ s.codes
      PROVE  r \in results[u].line <=> r \in Analyzed(x, u).line
  BY <1>4 DEF Like, OfTests
<1>5. Lined \subseteq UNION {At(u) : u \in Builds(s)}
  <2> SUFFICES ASSUME NEW f \in Lined PROVE \E u \in Builds(s) : f \in At(u)
    OBVIOUS
  <2>1. PICK r \in {r \in Registered(x) \ s.codes : Here(x, r)} :
          f = Finding(r, "line", IsAdvisory(x, r))
    BY DEF FindingsOf
  <2>2. PICK u \in Builds(s) : r \in Analyzed(x, u).line
    BY <2>1, HereIsShown
  <2>3. r \in results[u].line \ s.codes
    BY <1>4, <2>1, <2>2
  <2> QED BY <2>1, <2>3 DEF FindingsOf
<1>6. OpenLines \subseteq At("plain")
  <2>1. {r \in Registered(x) : There(x, r)} \subseteq Analyzed(x, "plain").open
    BY DEF Analyzed, There, Elsewhere
  <2>2. results["plain"].open = Analyzed(x, "plain").open
    BY <1>3 DEF Like
  <2> QED BY <2>1, <2>2 DEF FindingsOf
<1>7. ASSUME NEW u \in Builds(s), NEW f \in At(u)
      PROVE  f \in TrueFindingsOf(x) \/ (f.rule = "staticcheck" /\ f.at = "line")
  <2>1. CASE f \in Directive(x, results[u].line)
    BY <2>1 DEF Directive, Finding
  <2>2. CASE f \in FindingsOf(x, results[u].line \ s.codes, "line")
    <3>1. PICK r \in results[u].line \ s.codes : f = Finding(r, "line", IsAdvisory(x, r))
      BY <2>2 DEF FindingsOf
    <3>2. r \in Registered(x) \ s.codes
      BY <3>1 DEF Like
    <3>3. Here(x, r)
      BY <1>4, <3>1, <3>2, HereIsShown
    <3> QED BY <1>2, <3>1, <3>2, <3>3 DEF FindingsOf
  <2>3. CASE f \in FindingsOf(x, results[u].open, "elsewhere")
    <3>1. PICK r \in results[u].open : f = Finding(r, "elsewhere", IsAdvisory(x, r))
      BY <2>3 DEF FindingsOf
    <3>2. r \in Registered(x) /\ There(x, r)
      BY <3>1 DEF Like, Analyzed, Elsewhere, There
    <3> QED BY <1>2, <3>1, <3>2 DEF FindingsOf
  <2> QED BY <1>7, <2>1, <2>2, <2>3
<1> HIDE DEF At, Lined, OpenLines
<1> QED BY <1>1, <1>2, <1>3, <1>5, <1>6, <1>7

(***************************************************************************)
(* builds.go:16-31: a directive that suppresses nothing, if the rules it   *)
(* names are decided in one build, and nothing was taken from a cache.     *)
(***************************************************************************)
SaysDirectives(x, lines, added) ==
  x.code.compiles /\ OneBuild(x.code) /\ ~Complains(added) => (Complains(lines) <=> Unused(x))

(* In a build that decides what a directive names, a rule matches it if it is *)
(* found there; and in the other, some rule always matches it.               *)
LEMMA DecidedOnce ==
  ASSUME NEW x \in Linting, OneBuild(x.code), x.code.codes \cap Registered(x) # {}
  PROVE  (\E u \in Builds(x.code) : x.code.codes \cap Analyzed(x, u).line = {}) <=> Unused(x)
<1> DEFINE s == x.code
           known == s.codes \cap Registered(x)
<1>1. s \in Sources
  BY DEF Linting
<1>2. Builds(s) \subseteq BuildKinds /\ "plain" \in Builds(s)
      /\ ("tested" \in Builds(s) <=> s.tests)
  BY DEF Builds, BuildKinds
<1>3. \A u \in BuildKinds :
        s.codes \cap Analyzed(x, u).line = {r \in known : UnderDirective(s, x.linter, r, u)}
  BY DEF Analyzed
<1> DEFINE None(u) == \A r \in known : ~UnderDirective(s, x.linter, r, u)
           Free(u) == \A r \in known : u \in Deciding(x, r) /\ r \notin s[u]
<1>4. PICK q \in known : TRUE
  OBVIOUS
<1>5. Unused(x) <=> \E u \in Builds(s) : Free(u)
  BY <1>4 DEF Unused
<1> SUFFICES (\E u \in Builds(s) : None(u)) <=> \E u \in Builds(s) : Free(u)
  BY <1>2, <1>3, <1>5
<1>6. ASSUME \A r \in known : Deciding(x, r) = Builds(s),
             \A r \in known, u \in BuildKinds : UnderDirective(s, x.linter, r, u) <=> r \in s[u]
      PROVE  (\E u \in Builds(s) : None(u)) <=> \E u \in Builds(s) : Free(u)
  <2>1. \A u \in Builds(s) : None(u) <=> Free(u)
    BY <1>2, <1>6
  <2> QED BY <2>1
<1>7. CASE x.linter = "core"
  <2>1. \A r \in known : r \in CoreRules /\ JudgedIn[r] = JudgedIn[q]
    BY <1>7, <1>4, RegisteredRules DEF OneBuild
  <2>2. JudgedIn[q] \in {"plain", "tested", "both"}
    BY <2>1, <1>4 DEF GoLintAssumption
  <2>3. CASE JudgedIn[q] = "plain"
    <3>1. \A r \in known : Deciding(x, r) = {"plain"}
      BY <1>7, <2>1, <2>3 DEF Deciding
    <3>2. \A r \in known : UnderDirective(s, x.linter, r, "plain") <=> r \in s.plain
      BY <1>7, <2>1, <2>3 DEF UnderDirective, JudgedBy
    <3>3. UnderDirective(s, x.linter, q, "tested")
      BY <1>4, <1>7, <2>1, <2>3 DEF UnderDirective, JudgedBy
    <3>4. ~None("tested") /\ ~Free("tested")
      BY <1>4, <3>1, <3>3
    <3>5. None("plain") <=> Free("plain")
      BY <3>1, <3>2
    <3> HIDE DEF None, Free
    <3> QED BY <1>2, <3>4, <3>5 DEF BuildKinds
  <2>4. CASE JudgedIn[q] = "tested"
    <3>1. \A r \in known : Deciding(x, r) = {IF s.tests THEN "tested" ELSE "plain"}
      BY <1>7, <2>1, <2>4 DEF Deciding
    <3>2. \A r \in known : UnderDirective(s, x.linter, r, "plain") <=> r \in s.plain \/ s.tests
      BY <1>7, <2>1, <2>4 DEF UnderDirective, JudgedBy, InternalTests
    <3>3. \A r \in known : UnderDirective(s, x.linter, r, "tested") <=> r \in s.tested
      BY <1>7, <2>1, <2>4 DEF UnderDirective, JudgedBy
    <3>4. CASE s.tests
      <4>1. None("tested") <=> Free("tested")
        BY <3>1, <3>3, <3>4
      <4>2. ~None("plain") /\ ~Free("plain")
        BY <1>4, <3>1, <3>2, <3>4
      <4> HIDE DEF None, Free
      <4> QED BY <1>2, <4>1, <4>2 DEF BuildKinds
    <3>5. CASE ~s.tests
      <4>1. None("plain") <=> Free("plain")
        BY <3>1, <3>2, <3>5
      <4> HIDE DEF None, Free
      <4> QED BY <1>2, <3>5, <4>1 DEF BuildKinds
    <3> QED BY <3>4, <3>5
  <2>5. CASE JudgedIn[q] = "both"
    <3>1. \A r \in known : Deciding(x, r) = Builds(s)
      BY <1>7, <2>1, <2>5 DEF Deciding
    <3>2. \A r \in known, u \in BuildKinds : UnderDirective(s, x.linter, r, u) <=> r \in s[u]
      BY <1>7, <2>1, <2>5 DEF UnderDirective, JudgedBy
    <3> HIDE DEF known, None, Free
    <3> QED BY <1>6, <3>1, <3>2
  <2> QED BY <2>2, <2>3, <2>4, <2>5
<1>8. CASE x.linter # "core"
  <2>1. \A r \in known : Deciding(x, r) = Builds(s)
    BY <1>8 DEF Deciding
  <2>2. \A r \in known, u \in BuildKinds : UnderDirective(s, x.linter, r, u) <=> r \in s[u]
    BY <1>8 DEF UnderDirective, JudgedBy
  <2> HIDE DEF known, None, Free
  <2> QED BY <1>6, <2>1, <2>2
<1> QED BY <1>7, <1>8

(* What is printed has a complaint exactly if the directive is unused. *)
LEMMA DiagnosticsComplain ==
  ASSUME NEW x \in Linting, NEW results, OneBuild(x.code),
         \A u \in Builds(x.code) : results[u] = Analyzed(x, u)
  PROVE  Complains(Diagnostics(x, results)) <=> Unused(x)
<1> DEFINE s == x.code
<1>1. Builds(s) \subseteq BuildKinds
  BY DEF Builds, BuildKinds
<1>2. ASSUME NEW rules, NEW where, rules \subseteq Registered(x),
             NEW f \in FindingsOf(x, rules, where)
      PROVE  f.rule # "staticcheck"
  BY <1>2, RegisteredRules DEF FindingsOf, Finding
<1>3. \A f \in OwnRules(x) : f.rule # "staticcheck"
  BY DEF OwnRules, Finding
<1>4. \A u \in Builds(s) :
        results[u].line \subseteq Registered(x) /\ results[u].open \subseteq Registered(x)
  <2>1. \A u :
          Analyzed(x, u).line \subseteq Registered(x) /\ Analyzed(x, u).open \subseteq Registered(x)
    BY DEF Analyzed
  <2> QED BY <2>1
<1>5. \A u \in Builds(s) : Complains(Directive(x, results[u].line)) <=>
        s.codes \cap Registered(x) # {} /\ s.codes \cap Analyzed(x, u).line = {}
  BY DEF Complains, Directive, Finding
<1>6. \A u \in Builds(s) :
        /\ \A f \in FindingsOf(x, results[u].line \ s.codes, "line") : f.rule # "staticcheck"
        /\ \A f \in FindingsOf(x, results[u].open, "elsewhere") : f.rule # "staticcheck"
  <2> SUFFICES
        ASSUME NEW u \in Builds(s)
        PROVE  /\ \A f \in FindingsOf(x, results[u].line \ s.codes, "line") : f.rule # "staticcheck"
               /\ \A f \in FindingsOf(x, results[u].open, "elsewhere") : f.rule # "staticcheck"
    OBVIOUS
  <2>1. results[u].line \ s.codes \subseteq Registered(x) /\ results[u].open \subseteq Registered(x)
    BY <1>4
  <2> QED BY <1>2, <2>1
<1>7. Complains(Diagnostics(x, results)) <=>
        \E u \in Builds(s) : Complains(Directive(x, results[u].line))
  <2> DEFINE Lined(u) == FindingsOf(x, results[u].line \ s.codes, "line")
             OpenLines(u) == FindingsOf(x, results[u].open, "elsewhere")
             Of(u) == Directive(x, results[u].line)
  <2>1. Diagnostics(x, results) =
          OwnRules(x) \cup UNION {Of(u) \cup Lined(u) \cup OpenLines(u) : u \in Builds(s)}
    BY DEF Diagnostics
  <2>2. \A u \in Builds(s) : \A f \in Lined(u) \cup OpenLines(u) : f.rule # "staticcheck"
    BY <1>6
  <2> HIDE DEF Of, Lined, OpenLines
  <2>3. Complains(Diagnostics(x, results)) <=> \E u \in Builds(s) : Complains(Of(u))
    BY <1>3, <2>1, <2>2 DEF Complains
  <2> QED BY <2>3 DEF Of
<1>8. CASE s.codes \cap Registered(x) = {}
  BY <1>5, <1>7, <1>8 DEF Unused
<1>9. CASE s.codes \cap Registered(x) # {}
  BY <1>5, <1>7, <1>9, DecidedOnce
<1> QED BY <1>8, <1>9

(***************************************************************************)
(* How a linter's process ended.  If it did its work, its lines are true.  *)
(***************************************************************************)
IsProcess(p) ==
  /\ p.exit \in {0, 1, 2, 4} /\ p.report \in {"none", "failed", "complete"}
  /\ p.stderr \in BOOLEAN

Fit(x, p) == p.exit \in {0, 1} /\ ~p.stderr /\ (x.linter # "core" => p.report = "complete")

Sound(x, p) == Fit(x, p) => SaysTrue(x, p.lines, p.added)
Direct(x, p) == Fit(x, p) => SaysDirectives(x, p.lines, p.added)

(* A linter that finishes says what is true, compiled or not. *)
LEMMA ToldSaysTrue ==
  ASSUME NEW x \in Linting, NEW results,
         x.code.compiles => \A u \in Builds(x.code) : Like(x, u, results[u]),
         x.linter # "core" => Registered(x) # {}
  PROVE  SaysTrue(x, Told(x, results) \cup Excluded(x), {})
<1>1. CASE x.code.compiles
  <2>1. /\ TrueFindingsOf(x) \subseteq Diagnostics(x, results)
        /\ \A f \in Diagnostics(x, results) \ TrueFindingsOf(x) :
             f.rule = "staticcheck" /\ f.at = "line"
    BY <1>1, DiagnosticsSayTrue
  <2>2. /\ Told(x, results) = Diagnostics(x, results)
        /\ TrueLines(x) = TrueFindingsOf(x) \cup Excluded(x)
    BY <1>1 DEF Told, TrueLines
  <2> QED BY <1>1, <2>1, <2>2, TrueAreNotStale DEF SaysTrue
<1>2. CASE ~x.code.compiles
  <2>1. Told(x, results) = {CompileError(x)} /\ TrueLines(x) = Excluded(x)
    BY <1>2 DEF Told, TrueLines
  <2>2. CompileError(x).rule = "compile"
    BY DEF CompileError, Finding
  <2> QED BY <1>2, <2>1, <2>2, TrueAreNotStale DEF SaysTrue
<1> QED BY <1>1, <1>2

(* And complains of a directive as builds.go says, if it analysed it all. *)
LEMMA ToldSaysDirectives ==
  ASSUME NEW x \in Linting, NEW results,
         x.code.compiles => \A u \in Builds(x.code) : results[u] = Analyzed(x, u)
  PROVE  SaysDirectives(x, Told(x, results) \cup Excluded(x), {})
<1> SUFFICES ASSUME x.code.compiles, OneBuild(x.code)
             PROVE  Complains(Told(x, results) \cup Excluded(x)) <=> Unused(x)
  BY DEF SaysDirectives
<1>1. Complains(Diagnostics(x, results)) <=> Unused(x)
  BY DiagnosticsComplain
<1>2. \A f \in Excluded(x) : f.rule # "staticcheck"
  BY DEF Excluded, Finding
<1> QED BY <1>1, <1>2 DEF Complains, Told

(* A finding that a module's code prints adds nothing but itself. *)
LEMMA OneMoreLine ==
  ASSUME NEW x \in Linting, x.linter # "core", NEW lines, NEW f
  PROVE  /\ SaysTrue(x, lines, {}) => SaysTrue(x, lines \cup {f}, {f})
         /\ SaysDirectives(x, lines, {}) => SaysDirectives(x, lines \cup {f}, {f})
<1>1. SaysTrue(x, lines, {}) => SaysTrue(x, lines \cup {f}, {f})
  BY DEF SaysTrue
<1>2. ~Complains({f}) => (Complains(lines \cup {f}) <=> Complains(lines))
  BY DEF Complains
<1>3. ~Complains({})
  BY DEF Complains
<1> QED BY <1>1, <1>2, <1>3 DEF SaysDirectives

(* Nothing selected, nothing said. *)
LEMMA NothingSaysTrue ==
  ASSUME NEW x \in Linting, x.linter # "core", Registered(x) = {}
  PROVE  SaysTrue(x, {}, {}) /\ SaysDirectives(x, {}, {})
<1>1. TrueFindingsOf(x) = {} /\ Excluded(x) = {}
  BY DEF TrueFindingsOf, FindingsOf, Excluded
<1>2. ~Unused(x)
  BY DEF Unused
<1> QED BY <1>1, <1>2 DEF SaysTrue, TrueLines, SaysDirectives, Complains

(***************************************************************************)
(* What Dagger keeps.                                                      *)
(***************************************************************************)
LayersTrue ==
  /\ \A x \in Linting : LayerKey(x) \in DOMAIN layers => Sound(x, layers[LayerKey(x)])
  /\ \A k \in DOMAIN layers : IsProcess(layers[k])
BuiltHolds ==
  \A v \in DOMAIN Modules : [built |-> v] \in DOMAIN layers => PinsHold(v)

(* What is sound for one question is sound for all that share its layer. *)
LEMMA SameLayerSound ==
  ASSUME NEW x \in Linting, NEW y \in Linting, LayerKey(x) = LayerKey(y), NEW p, Sound(x, p)
  PROVE  Sound(y, p)
<1>1. x.linter = y.linter /\ x.code = y.code
  BY DEF LayerKey
<1>2. x.linter = "core" => CoreChecks(x.config) = CoreChecks(y.config)
  BY <1>1 DEF LayerKey
<1>3. x.linter # "core" =>
        /\ Community(x.config.checks) = Community(y.config.checks)
        /\ x.config.select = y.config.select
        /\ x.config.advisory = y.config.advisory
        /\ x.config.setting = y.config.setting
  BY <1>1 DEF LayerKey
<1>4. Registered(x) = Registered(y)
  <2>1. CASE x.linter = "core"
    BY <1>1, <1>2, <2>1 DEF Registered
  <2>2. CASE x.linter # "core"
    <3>1. Patterns(x.config, x.linter) = Patterns(y.config, y.linter)
      BY <1>1, <1>3, <2>2 DEF Patterns
    <3>2. Selected(x.config, x.linter) = Selected(y.config, y.linter)
      BY <1>1, <3>1 DEF Selected
    <3> QED BY <1>1, <2>2, <3>2 DEF Registered
  <2> QED BY <2>1, <2>2
<1>5. \A r : IsAdvisory(x, r) <=> IsAdvisory(y, r)
  BY <1>1, <1>3 DEF IsAdvisory, Advisory
<1>6. SettingOf(x) = SettingOf(y) /\ OwnRules(x) = OwnRules(y)
  BY <1>1, <1>3 DEF SettingOf, OwnRules
<1>7. Excluded(x) = Excluded(y) /\ CompileError(x) = CompileError(y)
  BY <1>1, <1>2 DEF Excluded, CompileError
<1>8. \A rules, where : FindingsOf(x, rules, where) = FindingsOf(y, rules, where)
  <2>1. \A r : IsAdvisory(x, r) = IsAdvisory(y, r)
    <3>1. \A r : IsAdvisory(x, r) \in BOOLEAN /\ IsAdvisory(y, r) \in BOOLEAN
      BY DEF IsAdvisory
    <3> QED BY <1>5, <3>1
  <2> QED BY <2>1 DEF FindingsOf
<1>9. \A r : (Here(x, r) <=> Here(y, r)) /\ (There(x, r) <=> There(y, r))
  BY <1>1, <1>6 DEF Here, There, Deciding
<1> DEFINE HereIn(z) == {r \in Registered(z) \ z.code.codes : Here(z, r)}
           ThereIn(z) == {r \in Registered(z) : There(z, r)}
<1>10. HereIn(x) = HereIn(y) /\ ThereIn(x) = ThereIn(y)
  BY <1>1, <1>4, <1>9
<1>11. TrueFindingsOf(x) = TrueFindingsOf(y)
  <2>1. \A z : TrueFindingsOf(z) = FindingsOf(z, HereIn(z), "line")
                 \cup FindingsOf(z, ThereIn(z), "elsewhere")
                 \cup IF Registered(z) = {} THEN {} ELSE OwnRules(z)
    BY DEF TrueFindingsOf
  <2> HIDE DEF HereIn, ThereIn
  <2>2. FindingsOf(x, HereIn(x), "line") = FindingsOf(y, HereIn(y), "line")
        /\ FindingsOf(x, ThereIn(x), "elsewhere") = FindingsOf(y, ThereIn(y), "elsewhere")
    BY <1>8, <1>10
  <2> QED BY <1>4, <1>6, <2>1, <2>2
<1>12. TrueLines(x) = TrueLines(y)
  BY <1>1, <1>7, <1>11 DEF TrueLines
<1> HIDE DEF HereIn, ThereIn
<1> QED BY <1>1, <1>7, <1>12 DEF Sound, Fit, SaysTrue

(* A step that is kept is true of whatever it will be replayed for. *)
LEMMA KeepLayers ==
  ASSUME LayersTrue, BuiltHolds, Lint(linter) \in Linting, NEW p, IsProcess(p),
         Sound(Lint(linter), p), Keep(p)
  PROVE  LayersTrue' /\ BuiltHolds'
<1> DEFINE x == Lint(linter)
<1>1. CASE fresh
  BY <1>1 DEF Keep, LayersTrue, BuiltHolds
<1>2. CASE ~fresh
  <2>1. layers' = With(layers, LayerKey(x), p)
    BY <1>2 DEF Keep
  <2>2. DOMAIN layers' = {LayerKey(x)} \cup DOMAIN layers
    BY <2>1 DEF With
  <2>3. \A k \in DOMAIN layers' : layers'[k] = IF k = LayerKey(x) THEN p ELSE layers[k]
    BY <2>1 DEF With
  <2>4. ASSUME NEW y \in Linting, LayerKey(y) \in DOMAIN layers'
        PROVE  Sound(y, layers'[LayerKey(y)])
    <3>1. CASE LayerKey(y) = LayerKey(x)
      BY <2>3, <2>4, <3>1, SameLayerSound
    <3>2. CASE LayerKey(y) # LayerKey(x)
      BY <2>2, <2>3, <2>4, <3>2 DEF LayersTrue
    <3> QED BY <3>1, <3>2
  <2>5. \A v : [built |-> v] # LayerKey(x)
    <3>1. "linter" \in DOMAIN LayerKey(x)
      BY DEF LayerKey
    <3>2. \A v : "linter" \notin DOMAIN [built |-> v]
      OBVIOUS
    <3> QED BY <3>1, <3>2
  <2>6. BuiltHolds'
    BY <2>2, <2>5 DEF BuiltHolds, PinsHold
  <2> QED BY <2>2, <2>3, <2>4, <2>6 DEF LayersTrue
<1> QED BY <1>1, <1>2

(***************************************************************************)
(* The inductive invariant.                                                *)
(***************************************************************************)
LintShape ==
  /\ LintTypeOK
  /\ IsProcess(process)
  /\ found \in [BuildKinds -> Results \cup {Unlinted}]

(* Which linter is at work, and that nothing is concluded before the end. *)
LintPlace ==
  /\ lintStep \in {"idle", "parse", "build"} => linter = "core"
  /\ linter # "core" => linter = config.pin /\ linter \in DOMAIN Modules
  /\ lintStep \in {"build", "download"} => config.pin \in DOMAIN Modules
  /\ lintStep = "download" => linter # "core"
  /\ lintStep # "done" => conclusion = Undecided
  /\ lintStep = "lint" /\ linter # "core" => Registered(Lint(linter)) # {}

FoundTrue ==
  lintStep = "lint" =>
    \A u \in BuildKinds :
      found[u] # Unlinted =>
        /\ Like(Lint(linter), u, found[u])
        /\ fresh => found[u] = Analyzed(Lint(linter), u)

SaidSound ==
  lintStep = "judge" =>
    /\ Sound(Lint(linter), process)
    /\ fresh => Direct(Lint(linter), process)

(* What the core linter said, while the community linter is at work. *)
CompileAllowed == ~code.compiles => code.placed /\ Allowed(CoreChecks(config), "compile")

CoreHeld ==
  /\ linter = "core" /\ lintStep \in {"parse", "start", "lint", "judge"} => coreFindings = {}
  /\ lintStep = "build" \/ (linter # "core" /\ lintStep # "done") =>
       /\ SaysTrue(Lint("core"), coreFindings, {})
       /\ CompileAllowed
       /\ fresh => SaysDirectives(Lint("core"), coreFindings, {})

KeptTrue == PackagesTrue /\ LayersTrue /\ BuiltHolds

LintInv ==
  /\ LintShape /\ LintPlace /\ KeptTrue /\ FoundTrue /\ SaidSound /\ CoreHeld
  /\ FindingsAreCurrent /\ CoreFindingsStand

(* A check that is not idle lints one of the sources. *)
LEMMA LintingNow ==
  ASSUME LintTypeOK, LintPlace, lintStep # "idle"
  PROVE  Lint(linter) \in Linting /\ Lint("core") \in Linting
BY DEF LintTypeOK, LintPlace, Lint, Linting

(* What nothing touches stays true. *)
LEMMA KeptStays ==
  ASSUME KeptTrue, UNCHANGED keptVars PROVE KeptTrue'
BY DEF KeptTrue, keptVars, PackagesTrue, LayersTrue, BuiltHolds, PinsHold

(* A check that decides nothing keeps its promises if it drops no finding. *)
LEMMA UndecidedStands ==
  ASSUME conclusion'.status \notin {"passed", "failed"},
         lintStep' = "done" => coreFindings' \subseteq conclusion'.findings
  PROVE  FindingsAreCurrent' /\ CoreFindingsStand'
<1>1. ~Decided'
  BY DEF Decided
<1> QED BY <1>1 DEF FindingsAreCurrent, CoreFindingsStand

(***************************************************************************)
(* Steps that move on, or give up on what they cannot read or reach.       *)
(***************************************************************************)
MovesOn == ParseCheck \/ NoPackages \/ DownloadDependencies \/ ProxyDown \/ LoseStep

(* The next step starts with what the last one left, or the check errs. *)
LEMMA MovingOn == LintInv /\ MovesOn => LintInv'
<1> SUFFICES ASSUME LintInv, MovesOn PROVE LintInv'
  OBVIOUS
<1> USE DEF LintInv
<1>1. /\ UNCHANGED <<code, config, fresh, turns, linter, found, stuck, guarded, process,
                     coreFindings, packageCache, layers>>
      /\ troubles' \in 0..MaxTroubles
  BY DEF MovesOn, ParseCheck, NoPackages, DownloadDependencies, ProxyDown, LoseStep, askedVars,
         processVars, keptVars, Trouble, LintShape, LintTypeOK
<1>2. \/ /\ lintStep' = "done" /\ conclusion' = [status |-> "error", findings |-> {}]
         /\ lintStep \in {"parse", "start"} /\ linter = "core"
      \/ /\ lintStep' = "done" /\ conclusion' = [status |-> "error", findings |-> coreFindings]
         /\ lintStep \in {"build", "download", "lint"}
      \/ lintStep = "parse" /\ lintStep' = "start" /\ UNCHANGED conclusion
      \/ lintStep = "download" /\ lintStep' = "start" /\ UNCHANGED conclusion
  BY DEF MovesOn, ParseCheck, NoPackages, DownloadDependencies, ProxyDown, LoseStep, NextStep,
         ConcludeLint, CommunityFails, LintPlace
<1>3. KeptTrue'
  BY <1>1, KeptStays DEF keptVars
<1>4. LintShape'
  <2>1. IsProcess(process)' /\ (found \in [BuildKinds -> Results \cup {Unlinted}])'
    BY <1>1 DEF LintShape, IsProcess
  <2>2. LintTypeOK'
    BY <1>1, <1>2 DEF LintShape, LintTypeOK
  <2> QED BY <2>1, <2>2 DEF LintShape
<1>5. LintPlace'
  BY <1>1, <1>2 DEF LintPlace
<1>6. FoundTrue' /\ SaidSound'
  BY <1>2 DEF FoundTrue, SaidSound
<1>7. CoreHeld'
  <2>1. Lint("core")' = Lint("core")
    BY <1>1 DEF Lint
  <2> QED BY <1>1, <1>2, <2>1 DEF CoreHeld, CompileAllowed, LintPlace
<1>8. conclusion'.status \notin {"passed", "failed"}
  BY <1>2 DEF LintPlace, Undecided
<1>9. lintStep' = "done" => coreFindings' \subseteq conclusion'.findings
  BY <1>1, <1>2 DEF CoreHeld
<1> QED BY <1>3, <1>4, <1>5, <1>6, <1>7, <1>8, <1>9, UndecidedStands
(***************************************************************************)
(* Steps that end a linter's process.  The invariant holds after them if   *)
(* what the process says is sound.                                         *)
(***************************************************************************)
LEMMA EndKeeps ==
  ASSUME LintInv, lintStep \in {"start", "lint"}, NEW p, IsProcess(p),
         Sound(Lint(linter), p), fresh => Direct(Lint(linter), p),
         process' = p, lintStep' = "judge",
         UNCHANGED <<code, config, fresh, turns, linter, found, stuck, guarded, coreFindings,
                     conclusion>>,
         troubles' \in 0..MaxTroubles, KeptTrue'
  PROVE  LintInv'
<1> USE DEF LintInv
<1>1. \A l : Lint(l)' = Lint(l)
  BY DEF Lint
<1>2. LintShape'
  <2>1. IsProcess(process)' /\ (found \in [BuildKinds -> Results \cup {Unlinted}])'
    BY DEF LintShape, IsProcess
  <2>2. LintTypeOK'
    BY DEF LintShape, LintTypeOK, IsProcess
  <2> QED BY <2>1, <2>2 DEF LintShape
<1>3. LintPlace'
  BY DEF LintPlace
<1>4. Lint(linter)' = Lint(linter) /\ Lint("core")' = Lint("core")
  BY DEF Lint
<1>5. FoundTrue' /\ SaidSound'
  BY <1>4 DEF FoundTrue, SaidSound
<1>6. CoreHeld'
  BY <1>4 DEF CoreHeld, CompileAllowed
<1>7. FindingsAreCurrent' /\ CoreFindingsStand'
  BY UndecidedStands DEF LintPlace, Undecided
<1> QED BY <1>2, <1>3, <1>5, <1>6, <1>7

(* The same for a process whose step Dagger keeps. *)
LEMMA EndAndKeep ==
  ASSUME LintInv, lintStep \in {"start", "lint"}, NEW p, IsProcess(p),
         Sound(Lint(linter), p), fresh => Direct(Lint(linter), p),
         EndProcess(p), troubles' \in 0..MaxTroubles
  PROVE  LintInv'
<1>1. Lint(linter) \in Linting
  BY LintingNow DEF LintInv, LintShape
<1>2. Keep(p) /\ UNCHANGED packageCache
  BY DEF EndProcess
<1>3. LayersTrue' /\ BuiltHolds'
  BY <1>1, <1>2, KeepLayers DEF LintInv, KeptTrue
<1>4. KeptTrue'
  BY <1>2, <1>3 DEF LintInv, KeptTrue, PackagesTrue
<1>5. /\ process' = p /\ lintStep' = "judge"
      /\ UNCHANGED <<code, config, fresh, turns, linter, found, stuck, guarded, coreFindings,
                     conclusion>>
  BY DEF EndProcess, NextStep, askedVars, processVars
<1> QED BY <1>4, <1>5, EndKeeps

(* A process that did not do its work says nothing that counts. *)
LEMMA UnfitIsSound ==
  ASSUME NEW x, NEW p, ~Fit(x, p) PROVE Sound(x, p) /\ Direct(x, p)
BY DEF Sound, Direct

(* A replayed step is sound for the source at hand, as it has its key. *)
LEMMA Replaying == LintInv /\ ReplayLint => LintInv'
<1> SUFFICES ASSUME LintInv, ReplayLint PROVE LintInv'
  OBVIOUS
<1> DEFINE x == Lint(linter)
<1>1. /\ lintStep = "start" /\ ~fresh /\ LayerKey(x) \in DOMAIN layers
      /\ process' = layers[LayerKey(x)] /\ lintStep' = "judge"
      /\ UNCHANGED <<code, config, fresh, turns, linter, found, stuck, guarded, coreFindings,
                     conclusion, packageCache, layers, troubles>>
  BY DEF ReplayLint, Replayed, NextStep, askedVars, processVars, keptVars
<1>2. x \in Linting
  BY <1>1, LintingNow DEF LintInv, LintShape
<1>3. IsProcess(layers[LayerKey(x)]) /\ Sound(x, layers[LayerKey(x)])
  BY <1>1, <1>2 DEF LintInv, KeptTrue, LayersTrue
<1>4. KeptTrue'
  BY <1>1, KeptStays DEF LintInv, keptVars
<1>5. troubles' \in 0..MaxTroubles
  BY <1>1 DEF LintInv, LintShape, LintTypeOK
<1> HIDE DEF x
<1> QED BY <1>1, <1>3, <1>4, <1>5, EndKeeps DEF x

(* A linter that refuses its rules says nothing; none selected, no finding. *)
LEMMA Refusing == LintInv /\ RefuseRun => LintInv'
<1> SUFFICES ASSUME LintInv, RefuseRun PROVE LintInv'
  OBVIOUS
<1> DEFINE x == Lint(linter)
           p == IF Resolves(config, linter) THEN [NoProcess EXCEPT !.report = "complete"]
                ELSE [NoProcess EXCEPT !.exit = 2, !.stderr = TRUE]
<1>1. /\ lintStep = "start" /\ linter # "core"
      /\ ~Resolves(config, linter) \/ Selected(config, linter) = {}
      /\ process' = p /\ lintStep' = "judge" /\ Keep(process')
      /\ UNCHANGED <<code, config, fresh, turns, linter, found, stuck, guarded, coreFindings,
                     conclusion, packageCache, troubles>>
  BY DEF RefuseRun, NextStep, askedVars, processVars
<1>2. x \in Linting /\ x.linter # "core"
  BY <1>1, LintingNow DEF LintInv, LintShape, Lint
<1>3. IsProcess(p)
  BY DEF IsProcess, NoProcess
<1>4. Sound(x, p) /\ Direct(x, p)
  <2>1. CASE Resolves(config, linter)
    <3>1. Registered(x) = {}
      BY <1>1, <2>1 DEF Registered, Lint
    <3>2. p.lines = {} /\ p.added = {}
      BY DEF NoProcess
    <3> QED BY <1>2, <3>1, <3>2, NothingSaysTrue DEF Sound, Direct
  <2>2. CASE ~Resolves(config, linter)
    <3>1. ~Fit(x, p)
      BY <2>2 DEF Fit, NoProcess
    <3> QED BY <3>1, UnfitIsSound
  <2> QED BY <2>1, <2>2
<1> HIDE DEF p
<1>5. Keep(p)
  BY <1>1 DEF Keep
<1>6. KeptTrue'
  <2>1. LayersTrue' /\ BuiltHolds'
    BY <1>2, <1>3, <1>4, <1>5, KeepLayers DEF LintInv, KeptTrue
  <2> QED BY <1>1, <2>1 DEF LintInv, KeptTrue, PackagesTrue
<1>7. troubles' \in 0..MaxTroubles
  BY <1>1 DEF LintInv, LintShape, LintTypeOK
<1> QED BY <1>1, <1>3, <1>4, <1>6, <1>7, EndKeeps
(* The packages a linter starts with were kept for the same question. *)
LEMMA Starting == LintInv /\ StartRun => LintInv'
<1> SUFFICES ASSUME LintInv, StartRun PROVE LintInv'
  OBVIOUS
<1> USE DEF LintInv
<1> DEFINE x == Lint(linter)
           Taken(u) == ~fresh /\ u \in Builds(code) /\ PackageKey(x, u) \in DOMAIN packageCache
<1>1. /\ lintStep = "start" /\ lintStep' = "lint" /\ stuck' = {} /\ guarded' = Unguarded
      /\ linter # "core" => Selected(config, linter) # {}
      /\ found' = [u \in BuildKinds |-> IF Taken(u) THEN packageCache[PackageKey(x, u)]
                                        ELSE Unlinted]
      /\ UNCHANGED <<code, config, fresh, turns, linter, process, coreFindings, conclusion,
                     packageCache, layers, troubles>>
  BY DEF StartRun, NextStep, askedVars, keptVars, BuildKinds
<1>2. x \in Linting
  BY <1>1, LintingNow DEF LintShape
<1>3. \A u \in BuildKinds : Taken(u) => Like(x, u, packageCache[PackageKey(x, u)])
  BY <1>2 DEF KeptTrue, PackagesTrue
<1>4. \A l : Lint(l)' = Lint(l)
  BY <1>1 DEF Lint
<1>5. Lint(linter)' = x /\ Lint("core")' = Lint("core")
  BY <1>1 DEF Lint
<1> HIDE DEF x
<1>6. (found \in [BuildKinds -> Results \cup {Unlinted}])'
  BY <1>1, <1>3 DEF Like
<1>7. LintShape'
  <2>1. IsProcess(process)'
    BY <1>1 DEF LintShape, IsProcess
  <2>2. LintTypeOK'
    BY <1>1 DEF LintShape, LintTypeOK
  <2> QED BY <1>6, <2>1, <2>2 DEF LintShape
<1>8. LintPlace'
  <2>1. linter # "core" => Registered(x) # {}
    BY <1>1 DEF Registered, Lint, x
  <2> QED BY <1>1, <1>5, <2>1 DEF LintPlace, x
<1>9. FoundTrue'
  <2>1. \A u \in BuildKinds :
          found'[u] # Unlinted => Taken(u) /\ found'[u] = packageCache[PackageKey(x, u)]
    BY <1>1
  <2> QED BY <1>1, <1>3, <1>5, <2>1 DEF FoundTrue
<1>10. SaidSound'
  BY <1>1 DEF SaidSound
<1>11. CoreHeld'
  BY <1>1, <1>5 DEF CoreHeld, CompileAllowed
<1>12. KeptTrue'
  BY <1>1, KeptStays DEF keptVars
<1>13. FindingsAreCurrent' /\ CoreFindingsStand'
  BY <1>1, UndecidedStands DEF LintPlace, Undecided
<1> QED BY <1>7, <1>8, <1>9, <1>10, <1>11, <1>12, <1>13

(* A build that is analysed is cached for what has the same package key. *)
LEMMA Analyzing == ASSUME NEW u \in BuildKinds PROVE LintInv /\ Analyze(u) => LintInv'
<1> SUFFICES ASSUME LintInv, Analyze(u) PROVE LintInv'
  OBVIOUS
<1> USE DEF LintInv
<1> DEFINE x == Lint(linter)
           result == Analyzed(x, u)
<1>1. /\ lintStep = "lint" /\ found' = [found EXCEPT ![u] = result]
      /\ packageCache' = IF fresh THEN packageCache
                         ELSE With(packageCache, PackageKey(x, u), result)
      /\ UNCHANGED <<code, config, fresh, turns, lintStep, linter, stuck, guarded, process,
                     coreFindings, conclusion, layers, troubles>>
  BY DEF Analyze, Running, CachePackage, askedVars
<1>2. x \in Linting
  BY <1>1, LintingNow DEF LintShape
<1>3. Lint(linter)' = x /\ Lint("core")' = Lint("core")
  BY <1>1 DEF Lint
<1>4. Like(x, u, result) /\ result \in Results
  BY <1>2, AnalyzedLike DEF Like
<1>5. ASSUME NEW y \in Linting, NEW w \in BuildKinds, PackageKey(x, u) = PackageKey(y, w)
      PROVE  Like(y, w, result)
  BY <1>2, <1>5, SameKeyLike
<1> HIDE DEF x, result
<1>6. (found \in [BuildKinds -> Results \cup {Unlinted}])'
  BY <1>1, <1>4 DEF LintShape
<1>7. LintShape'
  <2>1. IsProcess(process)'
    BY <1>1 DEF LintShape, IsProcess
  <2>2. LintTypeOK'
    BY <1>1 DEF LintShape, LintTypeOK
  <2> QED BY <1>6, <2>1, <2>2 DEF LintShape
<1>8. LintPlace'
  BY <1>1, <1>3 DEF LintPlace, x
<1>9. FoundTrue'
  <2> SUFFICES ASSUME NEW w \in BuildKinds, found'[w] # Unlinted
               PROVE  Like(x, w, found'[w]) /\ (fresh => found'[w] = Analyzed(x, w))
    BY <1>1, <1>3 DEF FoundTrue
  <2>1. CASE w = u
    BY <1>1, <1>4, <2>1 DEF LintShape, result
  <2>2. CASE w # u
    BY <1>1, <2>2 DEF LintShape, FoundTrue, x
  <2> QED BY <2>1, <2>2
<1>10. SaidSound'
  BY <1>1 DEF SaidSound
<1>11. CoreHeld'
  BY <1>1, <1>3 DEF CoreHeld, CompileAllowed
<1>12. PackagesTrue'
  <2>1. CASE fresh
    BY <1>1, <2>1 DEF KeptTrue, PackagesTrue
  <2>2. CASE ~fresh
    <3>1. DOMAIN packageCache' = {PackageKey(x, u)} \cup DOMAIN packageCache
      BY <1>1, <2>2 DEF With
    <3>2. \A k \in DOMAIN packageCache' :
            packageCache'[k] = IF k = PackageKey(x, u) THEN result ELSE packageCache[k]
      BY <1>1, <2>2 DEF With
    <3> SUFFICES ASSUME NEW y \in Linting, NEW w \in BuildKinds,
                        PackageKey(y, w) \in DOMAIN packageCache'
                 PROVE  Like(y, w, packageCache'[PackageKey(y, w)])
      BY DEF PackagesTrue
    <3>3. CASE PackageKey(y, w) = PackageKey(x, u)
      BY <1>5, <3>2, <3>3
    <3>4. CASE PackageKey(y, w) # PackageKey(x, u)
      BY <3>1, <3>2, <3>4 DEF KeptTrue, PackagesTrue
    <3> QED BY <3>3, <3>4
  <2> QED BY <2>1, <2>2
<1>13. KeptTrue'
  BY <1>1, <1>12 DEF KeptTrue, LayersTrue, BuiltHolds, PinsHold
<1>14. FindingsAreCurrent' /\ CoreFindingsStand'
  BY <1>1, UndecidedStands DEF LintPlace, Undecided
<1> QED BY <1>7, <1>8, <1>9, <1>10, <1>11, <1>13, <1>14

(* A rule that fails leaves what the builds reported as it was. *)
LEMMA RuleFailing == ASSUME NEW u \in BuildKinds PROVE LintInv /\ RuleFails(u) => LintInv'
<1> SUFFICES ASSUME LintInv, RuleFails(u) PROVE LintInv'
  OBVIOUS
<1> USE DEF LintInv
<1>1. /\ lintStep = "lint" /\ stuck' = stuck \cup {u}
      /\ guarded' = IF guarded = Unguarded THEN u ELSE guarded
      /\ UNCHANGED <<code, config, fresh, turns, lintStep, linter, found, process,
                     coreFindings, conclusion, packageCache, layers>>
      /\ troubles' \in 0..MaxTroubles
  BY DEF RuleFails, Running, Trouble, askedVars, keptVars, LintShape, LintTypeOK
<1>2. Lint(linter)' = Lint(linter) /\ Lint("core")' = Lint("core")
  BY <1>1 DEF Lint
<1>3. LintShape'
  <2>1. IsProcess(process)' /\ (found \in [BuildKinds -> Results \cup {Unlinted}])'
    BY <1>1 DEF LintShape, IsProcess
  <2>2. LintTypeOK'
    BY <1>1 DEF LintShape, LintTypeOK, BuildKinds, MarksAssumption
  <2> QED BY <2>1, <2>2 DEF LintShape
<1>4. LintPlace'
  BY <1>1, <1>2 DEF LintPlace
<1>5. FoundTrue' /\ SaidSound'
  BY <1>1, <1>2 DEF FoundTrue, SaidSound
<1>6. CoreHeld'
  BY <1>1, <1>2 DEF CoreHeld, CompileAllowed
<1>7. KeptTrue'
  BY <1>1, KeptStays DEF keptVars
<1>8. FindingsAreCurrent' /\ CoreFindingsStand'
  BY <1>1, UndecidedStands DEF LintPlace, Undecided
<1> QED BY <1>3, <1>4, <1>5, <1>6, <1>7, <1>8
(***************************************************************************)
(* The ways a process that ran its rules ends.                             *)
(***************************************************************************)
LEMMA Stopping == LintInv /\ StopLinter => LintInv'
<1> SUFFICES ASSUME LintInv, StopLinter PROVE LintInv'
  OBVIOUS
<1> DEFINE p == IF linter = "core" THEN [NoProcess EXCEPT !.exit = 2, !.stderr = TRUE]
                ELSE [NoProcess EXCEPT !.exit = 4, !.report = "failed"]
<1>1. lintStep = "lint" /\ EndProcess(p) /\ UNCHANGED troubles
  BY DEF StopLinter
<1>2. IsProcess(p) /\ ~Fit(Lint(linter), p)
  BY DEF IsProcess, NoProcess, Fit
<1>3. troubles' \in 0..MaxTroubles
  BY <1>1 DEF LintInv, LintShape, LintTypeOK
<1> HIDE DEF p
<1> QED BY <1>1, <1>2, <1>3, UnfitIsSound, EndAndKeep

(* A rule that ends the process leaves no report. *)
LEMMA Exiting == LintInv /\ RuleExits => LintInv'
<1> SUFFICES ASSUME LintInv, RuleExits PROVE LintInv'
  OBVIOUS
<1>1. PICK exit \in {0, 1} : EndProcess([NoProcess EXCEPT !.exit = exit])
  BY DEF RuleExits
<1> DEFINE p == [NoProcess EXCEPT !.exit = exit]
<1>2. lintStep = "lint" /\ linter # "core" /\ troubles' \in 0..MaxTroubles
  BY DEF RuleExits, Running, Trouble, LintInv, LintShape, LintTypeOK
<1>3. IsProcess(p) /\ ~Fit(Lint(linter), p)
  BY <1>2 DEF IsProcess, NoProcess, Fit, Lint
<1> HIDE DEF p
<1>4. EndProcess(p)
  BY <1>1 DEF p
<1> QED BY <1>2, <1>3, <1>4, UnfitIsSound, EndAndKeep

(* What a linter that finished has to say. *)
LEMMA FinishedSays ==
  ASSUME LintInv, Finished
  PROVE  LET x == Lint(linter)
         IN /\ lintStep = "lint" /\ x \in Linting
            /\ SaysTrue(x, OwnLines \cup Excluded(x), {})
            /\ fresh => SaysDirectives(x, OwnLines \cup Excluded(x), {})
<1> DEFINE x == Lint(linter)
<1>1. lintStep = "lint"
  BY DEF Finished
<1>2. x \in Linting /\ x.code = code
  BY <1>1, LintingNow DEF LintInv, LintShape, Lint
<1>3. x.linter # "core" => Registered(x) # {}
  BY <1>1 DEF LintInv, LintPlace, Lint
<1>4. code.compiles => \A u \in Builds(code) :
        Like(x, u, found[u]) /\ (fresh => found[u] = Analyzed(x, u))
  <2>1. Builds(code) \subseteq BuildKinds
    BY DEF Builds, BuildKinds
  <2> QED BY <1>1, <2>1 DEF Finished, LintInv, FoundTrue
<1> HIDE DEF x
<1>5. OwnLines = Told(x, found)
  BY DEF OwnLines, x
<1>6. SaysTrue(x, Told(x, found) \cup Excluded(x), {})
  BY <1>2, <1>3, <1>4, ToldSaysTrue
<1>7. fresh => SaysDirectives(x, Told(x, found) \cup Excluded(x), {})
  BY <1>2, <1>4, ToldSaysDirectives
<1> QED BY <1>1, <1>2, <1>5, <1>6, <1>7 DEF x

(* What is printed is what was to be printed. *)
LEMMA PrintedProcess ==
  ASSUME NEW lines, NEW stderr \in BOOLEAN
  PROVE  /\ IsProcess(Printed(lines, stderr))
         /\ Printed(lines, stderr).lines = lines /\ Printed(lines, stderr).added = {}
BY DEF Printed, IsProcess

(* Staticcheck prints its findings. *)
LEMMA Finishing == LintInv /\ FinishLint => LintInv'
<1> SUFFICES ASSUME LintInv, FinishLint PROVE LintInv'
  OBVIOUS
<1> DEFINE x == Lint(linter)
           p == Printed(OwnLines \cup Excluded(x), FALSE)
<1>1. Finished /\ EndProcess(p) /\ troubles' \in 0..MaxTroubles
  BY DEF FinishLint, LintInv, LintShape, LintTypeOK
<1>2. IsProcess(p) /\ p.lines = OwnLines \cup Excluded(x) /\ p.added = {}
  BY PrintedProcess
<1> HIDE DEF p
<1>3. Sound(x, p) /\ (fresh => Direct(x, p))
  BY <1>1, <1>2, FinishedSays DEF Sound, Direct
<1>4. lintStep = "lint"
  BY <1>1, FinishedSays
<1> QED BY <1>1, <1>2, <1>3, <1>4, EndAndKeep

(* If go list fails, the core linter does not pass for fit. *)
LEMMA FailingToList == LintInv /\ ListExcludedFails => LintInv'
<1> SUFFICES ASSUME LintInv, ListExcludedFails PROVE LintInv'
  OBVIOUS
<1> DEFINE q == Printed(OwnLines, TRUE)
           p == [q EXCEPT !.exit = IF @ = 0 THEN 2 ELSE @]
<1>1. Finished /\ EndProcess(p) /\ troubles' \in 0..MaxTroubles
  BY DEF ListExcludedFails, Trouble, LintInv, LintShape, LintTypeOK
<1>2. IsProcess(p) /\ ~Fit(Lint(linter), p)
  BY DEF Printed, IsProcess, Fit
<1> HIDE DEF p
<1>3. lintStep = "lint"
  BY <1>1, FinishedSays
<1> QED BY <1>1, <1>2, <1>3, UnfitIsSound, EndAndKeep

(* The code of a module prints a finding by itself. *)
LEMMA PrintingMore == LintInv /\ PrintsMore => LintInv'
<1> SUFFICES ASSUME LintInv, PrintsMore PROVE LintInv'
  OBVIOUS
<1> DEFINE x == Lint(linter)
           P(f, counted) == [Printed(counted, FALSE) EXCEPT !.lines = OwnLines \cup {f},
                                                            !.added = {f}]
<1>1. PICK f \in Printable :
        \E counted \in {OwnLines, OwnLines \cup {f}} : EndProcess(P(f, counted))
  BY DEF PrintsMore
<1>2. PICK counted \in {OwnLines, OwnLines \cup {f}} : EndProcess(P(f, counted))
  BY <1>1
<1> DEFINE p == P(f, counted)
<1>3. Finished /\ linter # "core" /\ troubles' \in 0..MaxTroubles
  BY DEF PrintsMore, Trouble, LintInv, LintShape, LintTypeOK
<1>4. IsProcess(p) /\ p.lines = OwnLines \cup {f} /\ p.added = {f}
  BY DEF Printed, IsProcess
<1>5. x.linter # "core" /\ Excluded(x) = {} /\ x \in Linting
  BY <1>3, FinishedSays DEF Lint, Excluded
<1> HIDE DEF p
<1>6. Sound(x, p) /\ (fresh => Direct(x, p))
  <2>1. OwnLines \cup Excluded(x) = OwnLines
    BY <1>5
  <2>2. SaysTrue(x, OwnLines, {}) /\ (fresh => SaysDirectives(x, OwnLines, {}))
    BY <1>3, <2>1, FinishedSays
  <2> HIDE DEF x
  <2>3. /\ SaysTrue(x, OwnLines, {}) => SaysTrue(x, OwnLines \cup {f}, {f})
        /\ SaysDirectives(x, OwnLines, {}) => SaysDirectives(x, OwnLines \cup {f}, {f})
    BY <1>5, OneMoreLine
  <2> QED BY <1>4, <2>2, <2>3 DEF Sound, Direct
<1>7. lintStep = "lint" /\ EndProcess(p)
  BY <1>2, <1>3, FinishedSays DEF p
<1> QED BY <1>3, <1>4, <1>6, <1>7, EndAndKeep
(***************************************************************************)
(* Judging what was said.                                                  *)
(***************************************************************************)
LEMMA CoreNeverMixed ==
  ASSUME NEW x \in Linting, x.linter = "core", NEW f \in TrueLines(x) PROVE f.rule # "mixed"
<1>1. "mixed" \notin Registered(x) /\ OwnRules(x) = {}
  BY RegisteredRules DEF NamesAssumption, OwnRules
<1>2. \A g \in TrueFindingsOf(x) : g.rule # "mixed"
  <2>1. ASSUME NEW rules \in SUBSET Registered(x), NEW where, NEW g \in FindingsOf(x, rules, where)
        PROVE  g.rule # "mixed"
    BY <1>1, <2>1 DEF FindingsOf, Finding
  <2>2. \A g \in FindingsOf(x, {r \in Registered(x) \ x.code.codes : Here(x, r)}, "line") :
          g.rule # "mixed"
    BY <2>1
  <2>3. \A g \in FindingsOf(x, {r \in Registered(x) : There(x, r)}, "elsewhere") :
          g.rule # "mixed"
    BY <2>1
  <2> QED BY <1>1, <2>2, <2>3 DEF TrueFindingsOf
<1> QED BY <1>2 DEF TrueLines, Excluded, Finding

(* Only the source can make a community linter say that a directive mixes. *)
LEMMA TrulyMixed ==
  ASSUME NEW x \in Linting, x.linter # "core", NEW f \in TrueLines(x), f.rule = "mixed"
  PROVE  MixedDirective(x.code) /\ f.at = "line" /\ x.code.compiles
<1>1. "mixed" \notin Registered(x)
  BY RegisteredRules
<1>2. ASSUME NEW rules \in SUBSET Registered(x), NEW where, NEW g \in FindingsOf(x, rules, where)
      PROVE  g.rule # "mixed"
  BY <1>1, <1>2 DEF FindingsOf, Finding
<1>3. \A g \in FindingsOf(x, {r \in Registered(x) \ x.code.codes : Here(x, r)}, "line") :
        g.rule # "mixed"
  BY <1>2
<1>4. \A g \in FindingsOf(x, {r \in Registered(x) : There(x, r)}, "elsewhere") : g.rule # "mixed"
  BY <1>2
<1>5. Excluded(x) = {}
  BY DEF Excluded
<1>6. x.code.compiles /\ f \in OwnRules(x)
  BY <1>3, <1>4, <1>5 DEF TrueLines, TrueFindingsOf, Finding
<1> QED BY <1>6 DEF OwnRules, Finding

(* Without a pin, the core linter says all there is to say. *)
LEMMA CoreAlone ==
  ASSUME config \in Configs, config.pin = NoModule
  PROVE  /\ Linters = {"core"}
         /\ TrueFindings = TrueLines(Lint("core"))
<1>1. Linters = {"core"}
  BY DEF Linters, GoLintAssumption
<1>2. TrueFindings = TrueLines(Lint("core"))
  BY <1>1 DEF TrueFindings, TrueLines, Lint
<1> QED BY <1>1, <1>2

(* With a pin, both linters do, each its part. *)
LEMMA BothLinters ==
  ASSUME linter # "core", linter = config.pin, linter \in DOMAIN Modules
  PROVE  /\ Linters = {"core", linter}
         /\ TrueFindings = TrueLines(Lint("core")) \cup TrueLines(Lint(linter))
<1>1. Linters = {"core", linter}
  BY DEF Linters
<1>2. TrueFindings = TrueLines(Lint("core")) \cup TrueLines(Lint(linter))
  <2>1. Excluded(Lint(linter)) = {}
    BY DEF Excluded, Lint
  <2>2. Lint(linter).code = code /\ Lint("core").code = code
    BY DEF Lint
  <2> DEFINE TrueOf(l) == TrueFindingsOf(Lint(l))
  <2>3. TrueFindings = (IF code.compiles THEN UNION {TrueOf(l) : l \in Linters} ELSE {})
                          \cup Excluded(Lint("core"))
    BY DEF TrueFindings
  <2>4. \A l \in {"core", linter} :
          TrueLines(Lint(l)) = (IF code.compiles THEN TrueOf(l) ELSE {}) \cup Excluded(Lint(l))
    BY <2>2 DEF TrueLines
  <2> HIDE DEF TrueOf
  <2>5. UNION {TrueOf(l) : l \in Linters} = TrueOf("core") \cup TrueOf(linter)
    BY <1>1
  <2> QED BY <2>1, <2>3, <2>4, <2>5
<1> QED BY <1>1, <1>2

(* What is asked does not depend on how it is answered. *)
LEMMA SameQuestion ==
  ASSUME UNCHANGED <<code, config>>
  PROVE  /\ Linters' = Linters /\ TrueFindings' = TrueFindings
         /\ \A l : Lint(l)' = Lint(l)
<1>1. \A l : Lint(l)' = Lint(l)
  BY DEF Lint
<1>2. Linters' = Linters
  BY DEF Linters
<1>3. Lint("core")' = Lint("core")
  BY DEF Lint
<1>4. TrueFindings' = TrueFindings
  <2> DEFINE TrueOf(l) == TrueFindingsOf(Lint(l))
             Besides == Excluded(Lint("core"))
  <2>1. TrueFindings = (IF code.compiles THEN UNION {TrueOf(l) : l \in Linters} ELSE {})
                         \cup Besides
    BY DEF TrueFindings
  <2>2. TrueFindings' = (IF code'.compiles THEN UNION {TrueOf(l)' : l \in Linters'} ELSE {})
                          \cup Besides'
    BY DEF TrueFindings
  <2>3. (\A l : TrueOf(l)' = TrueOf(l)) /\ Besides' = Besides
    BY <1>1, <1>3
  <2> HIDE DEF TrueOf, Besides
  <2> QED BY <1>2, <2>1, <2>2, <2>3
<1> QED BY <1>1, <1>2, <1>4

(* The core linter is judged: it decides, or the community linter follows. *)
LEMMA JudgingCore == LintInv /\ JudgeCore => LintInv'
<1> SUFFICES ASSUME LintInv, JudgeCore PROVE LintInv'
  OBVIOUS
<1> USE DEF LintInv
<1> DEFINE c == Lint("core")
<1>1. /\ lintStep = "judge" /\ linter = "core"
      /\ UNCHANGED <<code, config, fresh, turns, linter, found, stuck, guarded, process,
                     packageCache, layers, troubles>>
  BY DEF JudgeCore, askedVars, processVars, keptVars
<1>2. c \in Linting /\ Lint(linter) = c /\ c.linter = "core" /\ c.code = code /\ config \in Configs
  BY <1>1, LintingNow DEF LintShape, LintTypeOK, Lint
<1>3. /\ Linters' = Linters /\ TrueFindings' = TrueFindings
      /\ c' = c
  <2>1. c' = c
    BY <1>1 DEF Lint
  <2> QED BY <1>1, <2>1, SameQuestion
<1>4. \/ /\ ~CoreAgrees(process) /\ UNCHANGED coreFindings
         /\ lintStep' = "done" /\ conclusion' = [status |-> "error", findings |-> {}]
      \/ /\ CoreAgrees(process) /\ coreFindings' = process.lines /\ config.pin = NoModule
         /\ lintStep' = "done"
         /\ conclusion' = [status |-> StatusOfLint(process.lines), findings |-> process.lines]
      \/ /\ CoreAgrees(process) /\ coreFindings' = process.lines /\ config.pin # NoModule
         /\ lintStep' = "build" /\ UNCHANGED conclusion
  BY DEF JudgeCore, ConcludeLint, NextStep
<1>5. CoreAgrees(process) =>
        /\ SaysTrue(c, process.lines, {}) /\ process.added = {}
        /\ fresh => SaysDirectives(c, process.lines, {})
        /\ CompileAllowed
  <2> SUFFICES ASSUME CoreAgrees(process)
               PROVE  /\ SaysTrue(c, process.lines, {}) /\ process.added = {}
                      /\ fresh => SaysDirectives(c, process.lines, {})
                      /\ CompileAllowed
    OBVIOUS
  <2>1. Fit(c, process)
    BY <1>2 DEF CoreAgrees, Fit
  <2>2. /\ SaysTrue(c, process.lines, process.added)
        /\ fresh => SaysDirectives(c, process.lines, process.added)
    BY <1>1, <1>2, <2>1 DEF SaidSound, Sound, Direct
  <2>3. process.added = {}
    BY <1>2, <2>2 DEF SaysTrue
  <2>4. CompileAllowed
    <3> SUFFICES ASSUME ~code.compiles
                 PROVE  code.placed /\ Allowed(CoreChecks(config), "compile")
      BY DEF CompileAllowed
    <3>1. CompileError(c) \in process.lines
      BY <1>2, <2>2 DEF SaysTrue
    <3>2. Allowed(CoreChecks(config), CompileError(c).rule) /\ CompileError(c).at # "nowhere"
      BY <3>1 DEF CoreAgrees
    <3> QED BY <1>2, <3>2 DEF CompileError, Finding
  <2> QED BY <2>2, <2>3, <2>4
<1>6. KeptTrue'
  BY <1>1, KeptStays DEF keptVars
<1>7. LintShape'
  <2>1. IsProcess(process)' /\ (found \in [BuildKinds -> Results \cup {Unlinted}])'
    BY <1>1 DEF LintShape, IsProcess
  <2>2. LintTypeOK'
    BY <1>1, <1>4 DEF LintShape, LintTypeOK, StatusOfLint
  <2> QED BY <2>1, <2>2 DEF LintShape
<1>8. LintPlace'
  BY <1>1, <1>2, <1>4 DEF LintPlace, GoLintAssumption
<1>9. FoundTrue' /\ SaidSound'
  BY <1>4 DEF FoundTrue, SaidSound
<1>10. CoreHeld'
  <2>1. Lint("core")' = Lint("core")
    BY <1>3
  <2>2. CompileAllowed => CompileAllowed'
    BY <1>1 DEF CompileAllowed
  <2> QED BY <1>1, <1>4, <1>5, <2>1, <2>2 DEF CoreHeld
<1>11. FindingsAreCurrent' /\ CoreFindingsStand'
  <2>1. CASE conclusion'.status \notin {"passed", "failed"}
             /\ (lintStep' = "done" => coreFindings' \subseteq conclusion'.findings)
    BY <2>1, UndecidedStands
  <2>2. CASE lintStep' = "done" /\ CoreAgrees(process) /\ config.pin = NoModule
    <3> HIDE DEF c
    <3>1. conclusion'.findings = process.lines /\ conclusion'.status = StatusOfLint(process.lines)
          /\ coreFindings' = process.lines
      BY <1>4, <2>2
    <3>2. Linters = {"core"} /\ TrueFindings = TrueLines(c)
      BY <1>2, <2>2, CoreAlone DEF c
    <3>3. /\ SaysTrue(c, process.lines, {}) /\ process.added = {} /\ CompileAllowed
          /\ fresh => SaysDirectives(c, process.lines, {})
      BY <1>5, <2>2
    <3>4. fresh => DirectiveJudged'
      <4> SUFFICES ASSUME fresh, code.compiles, OneBuild(code)
                   PROVE  (Complains(conclusion.findings) = \E l \in Linters : Unused(Lint(l)))'
        BY <1>1 DEF DirectiveJudged
      <4>1. Complains(process.lines) <=> Unused(c)
        BY <1>2, <3>3 DEF SaysDirectives, Complains
      <4>2. Complains(conclusion.findings)' <=> Complains(process.lines)
        BY <3>1 DEF Complains
      <4>3. (\E l \in Linters : Unused(Lint(l)))' <=> Unused(c)
        <5>1. (\E l \in Linters : Unused(Lint(l)))' <=> \E l \in Linters' : Unused(Lint(l)')
          BY DEF Unused, Deciding, Registered
        <5> QED BY <1>1, <1>3, <3>2, <5>1, SameQuestion DEF c
      <4>4. Complains(conclusion.findings)' <=> (\E l \in Linters : Unused(Lint(l)))'
        BY <4>1, <4>2, <4>3, Zenon
      <4> QED BY <4>4 DEF Complains
    <3>5. FindingsAreCurrent'
      <4>1. BrokenIsRefused'
        <5>1. ~code.compiles => CompileError(c) \in process.lines
          BY <1>2, <3>3 DEF SaysTrue
        <5>2. ~code.compiles => StatusOfLint(process.lines) = "failed"
          BY <5>1 DEF StatusOfLint, Failing, CompileError, Finding
        <5> QED BY <1>1, <3>1, <3>3, <5>2 DEF BrokenIsRefused, CompileAllowed
      <4>2. \A f \in process.lines \ TrueFindings :
              f.rule = "staticcheck" \/ (~code.compiles /\ f.rule = "compile")
        BY <1>2, <3>2, <3>3 DEF SaysTrue
      <4>3. TrueFindings \subseteq process.lines
        BY <3>2, <3>3 DEF SaysTrue
      <4> QED BY <1>1, <1>3, <3>1, <3>4, <4>1, <4>2, <4>3 DEF FindingsAreCurrent
    <3>6. CoreFindingsStand'
      <4>1. \A f \in TrueFindings : f.rule # "mixed"
        BY <1>2, <3>2, CoreNeverMixed
      <4> QED BY <1>3, <3>1, <4>1 DEF CoreFindingsStand
    <3> QED BY <3>5, <3>6
  <2>3. lintStep' = "build" => conclusion'.status \notin {"passed", "failed"}
    BY <1>1, <1>4 DEF LintPlace, Undecided
  <2>4. ~CoreAgrees(process) => coreFindings' = {} /\ conclusion'.status = "error"
    BY <1>1, <1>4 DEF CoreHeld
  <2> QED BY <1>4, <2>1, <2>2, <2>3, <2>4
<1> QED BY <1>6, <1>7, <1>8, <1>9, <1>10, <1>11
(* The linter that is built, or was built before, holds the pinned rules. *)
LEMMA Building == LintInv /\ BuildLinter => LintInv'
<1> SUFFICES ASSUME LintInv, BuildLinter PROVE LintInv'
  OBVIOUS
<1> USE DEF LintInv
<1> DEFINE v == config.pin
<1>1. /\ lintStep = "build" /\ v \in DOMAIN Modules /\ linter = "core"
      /\ UNCHANGED <<code, config, fresh, turns, found, stuck, guarded, process, coreFindings,
                     packageCache, troubles>>
  BY DEF BuildLinter, askedVars, processVars, LintPlace
<1>2. \/ /\ lintStep' = "done"
         /\ conclusion' = [status |-> "error", findings |-> coreFindings]
         /\ UNCHANGED <<linter, layers>>
      \/ /\ Built(v) \/ BuildAccepts(v)
         /\ lintStep' = "download" /\ linter' = Modules[v].resolves /\ UNCHANGED conclusion
         /\ layers' = IF fresh THEN layers ELSE With(layers, [built |-> v], NoProcess)
  BY DEF BuildLinter, CommunityFails, ConcludeLint, NextStep
<1>3. lintStep' = "download" => PinsHold(v) /\ linter' = v
  BY <1>1, <1>2 DEF Built, BuildAccepts, PinsHold, KeptTrue, BuiltHolds
<1>4. Lint("core")' = Lint("core")
  BY <1>1 DEF Lint
<1>5. LintShape'
  <2>1. IsProcess(process)' /\ (found \in [BuildKinds -> Results \cup {Unlinted}])'
    BY <1>1 DEF LintShape, IsProcess
  <2>2. LintTypeOK'
    BY <1>1, <1>2, <1>3 DEF LintShape, LintTypeOK
  <2> QED BY <2>1, <2>2 DEF LintShape
<1>6. LintPlace'
  BY <1>1, <1>2, <1>3 DEF LintPlace, GoLintAssumption
<1>7. FoundTrue' /\ SaidSound'
  BY <1>2 DEF FoundTrue, SaidSound
<1>8. CoreHeld'
  BY <1>1, <1>2, <1>4 DEF CoreHeld, CompileAllowed
<1>9. FindingsAreCurrent' /\ CoreFindingsStand'
  BY <1>1, <1>2, UndecidedStands DEF LintPlace, Undecided
<1>10. KeptTrue'
  <2>1. CASE UNCHANGED layers
    BY <1>1, <2>1, KeptStays DEF keptVars
  <2>2. CASE lintStep' = "download" /\ layers' = With(layers, [built |-> v], NoProcess)
    <3>1. DOMAIN layers' = {[built |-> v]} \cup DOMAIN layers
      BY <2>2 DEF With
    <3>2. \A k \in DOMAIN layers' :
            layers'[k] = IF k = [built |-> v] THEN NoProcess ELSE layers[k]
      BY <2>2 DEF With
    <3>3. \A x : LayerKey(x) # [built |-> v]
      <4>1. \A x : "linter" \in DOMAIN LayerKey(x)
        BY DEF LayerKey
      <4>2. "linter" \notin DOMAIN [built |-> v]
        OBVIOUS
      <4> QED BY <4>1, <4>2
    <3>4. \A x \in Linting : LayerKey(x) \in DOMAIN layers' => Sound(x, layers'[LayerKey(x)])
      BY <3>1, <3>2, <3>3 DEF KeptTrue, LayersTrue
    <3>5. IsProcess(NoProcess)
      BY DEF IsProcess, NoProcess
    <3>6. \A k \in DOMAIN layers' : IsProcess(layers'[k])
      BY <3>1, <3>2, <3>5 DEF KeptTrue, LayersTrue
    <3>7. \A w : [built |-> w] = [built |-> v] => w = v
      <4> SUFFICES ASSUME NEW w, [built |-> w] = [built |-> v] PROVE w = v
        OBVIOUS
      <4>1. [built |-> w].built = w /\ [built |-> v].built = v
        OBVIOUS
      <4> QED BY <4>1
    <3>8. BuiltHolds'
      BY <1>3, <2>2, <3>1, <3>7 DEF KeptTrue, BuiltHolds, PinsHold
    <3> QED BY <1>1, <3>4, <3>6, <3>8 DEF KeptTrue, LayersTrue, PackagesTrue
  <2> QED BY <1>2, <2>1, <2>2
<1> QED BY <1>5, <1>6, <1>7, <1>8, <1>9, <1>10

(* What both linters found, put together. *)
MergedSound(said) ==
  /\ TrueFindings \subseteq said
  /\ \A f \in said \ TrueFindings :
       f.rule = "staticcheck" \/ f \in process.added \/ (~code.compiles /\ f.rule = "compile")
  /\ ~code.compiles => Failing(said) /\ CompileAllowed
  /\ \A f \in coreFindings \ said : MixedDirective(code) /\ f.rule = "staticcheck"
  /\ (\E f \in TrueFindings : f.rule = "mixed") =>
       \A f \in said : f.rule = "staticcheck" => f \in process.added
  /\ (fresh /\ code.compiles /\ OneBuild(code) /\ ~Complains(process.added)
        /\ \A f \in said : f.rule # "mixed") =>
       (Complains(said) <=> \E l \in Linters : Unused(Lint(l)))

(* Both reports say what is true, and so does what is merged from them. *)
LEMMA MergedSays ==
  ASSUME LintInv, lintStep = "judge", linter # "core", CommunityAgrees(process)
  PROVE  MergedSound(Merged(coreFindings, process.lines))
<1> USE DEF LintInv
<1> DEFINE c == Lint("core")
           x == Lint(linter)
           lines == process.lines
           added == process.added
           said == Merged(coreFindings, lines)
<1>1. /\ c \in Linting /\ c.linter = "core" /\ c.code = code
      /\ x \in Linting /\ x.linter = linter /\ x.code = code /\ x.config = config
      /\ linter = config.pin /\ linter \in DOMAIN Modules
  BY LintingNow DEF LintShape, LintPlace, Lint
<1>2. /\ SaysTrue(c, coreFindings, {}) /\ CompileAllowed
      /\ fresh => SaysDirectives(c, coreFindings, {})
  BY DEF CoreHeld
<1>3. Fit(x, process)
  BY DEF Fit, CommunityAgrees
<1>4. SaysTrue(x, lines, added) /\ (fresh => SaysDirectives(x, lines, added))
  BY <1>3 DEF SaidSound, Sound, Direct
<1>5. /\ Linters = {"core", linter}
      /\ TrueFindings = TrueLines(c) \cup TrueLines(x)
  BY <1>1, BothLinters
<1>6. \A f : f \in said <=>
        \/ f \in coreFindings /\ ~(StaleAt(f, lines) /\ MixedDirective(code))
        \/ f \in lines /\ ~StaleAt(f, lines)
  BY DEF Merged
<1>7. \A f \in TrueFindings : f.rule # "staticcheck"
  BY <1>1, <1>5, TrueAreNotStale
<1> HIDE DEF c, x, lines, added, said
<1>8. TrueFindings \subseteq said
  <2>1. TrueFindings \subseteq coreFindings \cup lines
    BY <1>2, <1>4, <1>5 DEF SaysTrue
  <2> QED BY <1>6, <1>7, <2>1 DEF StaleAt
<1>9. ASSUME NEW f \in said, f \notin TrueFindings
      PROVE  f.rule = "staticcheck" \/ f \in added \/ (~code.compiles /\ f.rule = "compile")
  <2>1. f \in coreFindings \/ f \in lines
    BY <1>6, <1>9
  <2> QED BY <1>1, <1>2, <1>4, <1>5, <1>9, <2>1 DEF SaysTrue
<1>10. ~code.compiles => Failing(said)
  <2>1. ~code.compiles => CompileError(c) \in coreFindings
    BY <1>1, <1>2 DEF SaysTrue
  <2>2. CompileError(c).rule # "staticcheck" /\ ~CompileError(c).advisory
    BY DEF CompileError, Finding
  <2> QED BY <1>6, <2>1, <2>2 DEF Failing, StaleAt
<1>11. \A f \in coreFindings \ said : MixedDirective(code) /\ f.rule = "staticcheck"
  BY <1>6 DEF StaleAt
<1>12. ASSUME NEW f \in TrueFindings, f.rule = "mixed", NEW g \in said, g \notin added
       PROVE  g.rule # "staticcheck"
  <2>1. f \in TrueLines(x)
    BY <1>1, <1>5, <1>12, CoreNeverMixed
  <2>2. MixedDirective(code) /\ f.at = "line" /\ f \in lines
    BY <1>1, <1>4, <1>12, <2>1, TrulyMixed DEF SaysTrue
  <2>3. g \in coreFindings \cup lines
    BY <1>6
  <2>4. g.rule = "staticcheck" => g.at = "line"
    BY <1>2, <1>4, <1>12, <2>3 DEF SaysTrue
  <2> QED BY <1>6, <1>12, <2>2, <2>4 DEF StaleAt
<1>13. ASSUME fresh, code.compiles, OneBuild(code), ~Complains(added),
              \A f \in said : f.rule # "mixed"
       PROVE  Complains(said) <=> \E l \in Linters : Unused(Lint(l))
  <2>1. \A f \in lines : f.rule # "mixed"
    BY <1>6, <1>13 DEF StaleAt
  <2>2. said = coreFindings \cup lines
    BY <1>6, <2>1 DEF StaleAt
  <2>3. Complains(said) <=> Complains(coreFindings) \/ Complains(lines)
    BY <2>2 DEF Complains
  <2>4. ~Complains({})
    BY DEF Complains
  <2>5. (Complains(coreFindings) <=> Unused(c)) /\ (Complains(lines) <=> Unused(x))
    BY <1>1, <1>2, <1>4, <1>13, <2>4 DEF SaysDirectives
  <2>6. (\E l \in Linters : Unused(Lint(l))) <=> Unused(c) \/ Unused(x)
    BY <1>5 DEF c, x
  <2> QED BY <2>3, <2>5, <2>6
<1> QED BY <1>2, <1>8, <1>9, <1>10, <1>11, <1>12, <1>13 DEF MergedSound, lines, added, said

(* The community linter is judged, and both are put together. *)
LEMMA JudgingCommunity == LintInv /\ JudgeCommunity => LintInv'
<1> SUFFICES ASSUME LintInv, JudgeCommunity PROVE LintInv'
  OBVIOUS
<1> USE DEF LintInv
<1> DEFINE said == Merged(coreFindings, process.lines)
<1>1. /\ lintStep = "judge" /\ linter # "core"
      /\ UNCHANGED <<code, config, fresh, turns, linter, found, stuck, guarded, process,
                     coreFindings, packageCache, layers, troubles>>
      /\ lintStep' = "done"
  BY DEF JudgeCommunity, askedVars, processVars, keptVars, ConcludeLint, CommunityFails
<1>2. \/ ~CommunityAgrees(process) /\ conclusion' = [status |-> "error", findings |-> coreFindings]
      \/ /\ CommunityAgrees(process)
         /\ conclusion' = [status |-> StatusOfLint(said), findings |-> said]
  BY DEF JudgeCommunity, ConcludeLint, CommunityFails
<1>3. /\ Linters' = Linters /\ TrueFindings' = TrueFindings
      /\ MixedDirective(code)' = MixedDirective(code)
  BY <1>1, SameQuestion DEF MixedDirective
<1> HIDE DEF said
<1>4. KeptTrue'
  BY <1>1, KeptStays DEF keptVars
<1>5. LintShape'
  <2>1. IsProcess(process)' /\ (found \in [BuildKinds -> Results \cup {Unlinted}])'
    BY <1>1 DEF LintShape, IsProcess
  <2>2. LintTypeOK'
    BY <1>1, <1>2 DEF LintShape, LintTypeOK, StatusOfLint
  <2> QED BY <2>1, <2>2 DEF LintShape
<1>6. LintPlace' /\ FoundTrue' /\ SaidSound' /\ CoreHeld'
  BY <1>1 DEF LintPlace, FoundTrue, SaidSound, CoreHeld
<1>7. FindingsAreCurrent' /\ CoreFindingsStand'
  <2>1. CASE ~CommunityAgrees(process)
    BY <1>1, <1>2, <2>1, UndecidedStands
  <2>2. CASE CommunityAgrees(process)
    <3>1. conclusion'.findings = said /\ conclusion'.status = StatusOfLint(said)
      BY <1>2, <2>2
    <3>2. MergedSound(said)
      BY <1>1, <2>2, MergedSays DEF said
    <3>3. fresh => DirectiveJudged'
      <4> SUFFICES ASSUME fresh, code.compiles, OneBuild(code), ~SaysOf("mixed")',
                          ~Complains(process.added)
                   PROVE  (Complains(conclusion.findings) = \E l \in Linters : Unused(Lint(l)))'
        BY <1>1 DEF DirectiveJudged
      <4>1. \A f \in said : f.rule # "mixed"
        BY <3>1 DEF SaysOf
      <4>2. Complains(said) <=> \E l \in Linters : Unused(Lint(l))
        BY <3>2, <4>1 DEF MergedSound
      <4>3. Complains(conclusion.findings)' <=> Complains(said)
        BY <3>1 DEF Complains
      <4>4. (\E l \in Linters : Unused(Lint(l)))' <=> \E l \in Linters : Unused(Lint(l))
        <5>1. \A l : Lint(l)' = Lint(l)
          BY <1>1, SameQuestion
        <5>2. (\E l \in Linters : Unused(Lint(l)))' <=> \E l \in Linters' : Unused(Lint(l)')
          BY DEF Unused, Deciding, Registered
        <5> QED BY <1>3, <5>1, <5>2
      <4>5. Complains(conclusion.findings)' <=> (\E l \in Linters : Unused(Lint(l)))'
        BY <4>2, <4>3, <4>4, Zenon
      <4> QED BY <4>5 DEF Complains
    <3>4. FindingsAreCurrent'
      <4>1. BrokenIsRefused'
        BY <1>1, <3>1, <3>2 DEF MergedSound, BrokenIsRefused, CompileAllowed, StatusOfLint
      <4> QED BY <1>1, <1>3, <3>1, <3>2, <3>3, <4>1 DEF FindingsAreCurrent, MergedSound
    <3>5. Decided'
      BY <3>1 DEF Decided, StatusOfLint
    <3>6. CoreFindingsStand'
      BY <1>1, <1>3, <3>1, <3>2, <3>5 DEF CoreFindingsStand, MergedSound
    <3> QED BY <3>4, <3>6
  <2> QED BY <2>1, <2>2
<1> QED BY <1>4, <1>5, <1>6, <1>7
(* Another turn starts with what was kept, and nothing else. *)
LEMMA RunningAgain == LintInv /\ RunAgain => LintInv'
<1> SUFFICES ASSUME LintInv, RunAgain PROVE LintInv'
  OBVIOUS
<1> USE DEF LintInv
<1>1. /\ lintStep = "done" /\ turns < MaxTurns /\ turns' = turns + 1 /\ fresh' \in BOOLEAN
      /\ lintStep' = "parse" /\ linter' = "core" /\ found' = NothingFound /\ stuck' = {}
      /\ guarded' = Unguarded /\ process' = NoProcess /\ coreFindings' = {}
      /\ conclusion' = Undecided
      /\ UNCHANGED <<packageCache, layers, troubles>>
  BY DEF RunAgain, keptVars
<1>2. code' \in Sources /\ config' \in Configs
  BY <1>1 DEF RunAgain, LintShape, LintTypeOK
<1>3. KeptTrue'
  BY <1>1, KeptStays DEF keptVars
<1>4. LintShape'
  <2>1. IsProcess(process)' /\ (found \in [BuildKinds -> Results \cup {Unlinted}])'
    BY <1>1 DEF IsProcess, NoProcess, NothingFound, BuildKinds
  <2>2. LintTypeOK'
    BY <1>1, <1>2 DEF LintShape, LintTypeOK, NoProcess, Undecided, GoLintAssumption,
                      MarksAssumption
  <2> QED BY <2>1, <2>2 DEF LintShape
<1>5. LintPlace' /\ FoundTrue' /\ SaidSound' /\ CoreHeld'
  BY <1>1 DEF LintPlace, FoundTrue, SaidSound, CoreHeld
<1>6. FindingsAreCurrent' /\ CoreFindingsStand'
  BY <1>1, UndecidedStands DEF Undecided
<1> QED BY <1>3, <1>4, <1>5, <1>6

(* The invariant holds of a check that starts, and of one that never does. *)
LEMMA LintInitially == LintInit \/ LintRest => LintInv
<1> SUFFICES ASSUME LintInit \/ LintRest PROVE LintInv
  OBVIOUS
<1>1. /\ lintStep \in {"idle", "parse"} /\ linter = "core" /\ found = NothingFound /\ stuck = {}
      /\ guarded = Unguarded /\ process = NoProcess /\ coreFindings = {} /\ conclusion = Undecided
      /\ packageCache = Empty /\ layers = Empty /\ turns \in {0, 1} /\ troubles = 0
      /\ fresh \in BOOLEAN
  BY DEF LintInit, LintRest
<1>2. IF lintStep = "idle" THEN code = Unlinted ELSE code \in Sources /\ config \in Configs
  BY DEF LintInit, LintRest
<1>3. LintShape
  <2>1. IsProcess(process) /\ found \in [BuildKinds -> Results \cup {Unlinted}]
    BY <1>1 DEF IsProcess, NoProcess, NothingFound, BuildKinds
  <2>2. LintTypeOK
    BY <1>1, <1>2 DEF LintTypeOK, NoProcess, Undecided, GoLintAssumption, MarksAssumption
  <2> QED BY <2>1, <2>2 DEF LintShape
<1>4. LintPlace /\ FoundTrue /\ SaidSound /\ CoreHeld
  BY <1>1 DEF LintPlace, FoundTrue, SaidSound, CoreHeld
<1>5. KeptTrue
  BY <1>1 DEF KeptTrue, PackagesTrue, LayersTrue, BuiltHolds, Empty
<1>6. ~Decided /\ lintStep # "done"
  BY <1>1 DEF Decided, Undecided
<1> QED BY <1>3, <1>4, <1>5, <1>6 DEF LintInv, FindingsAreCurrent, CoreFindingsStand

(* A step of something else disturbs nothing. *)
LEMMA LintStuttering == LintInv /\ UNCHANGED lintVars => LintInv'
<1> SUFFICES ASSUME LintInv, UNCHANGED lintVars PROVE LintInv'
  OBVIOUS
<1>1. UNCHANGED <<code, config, fresh, lintStep, linter, found, stuck, guarded, process,
                  coreFindings, conclusion, packageCache, layers, turns, troubles>>
  BY DEF lintVars
<1>2. Lint(linter)' = Lint(linter) /\ Lint("core")' = Lint("core")
  BY <1>1 DEF Lint
<1>3. LintShape' /\ LintPlace' /\ FoundTrue' /\ SaidSound' /\ CoreHeld'
  BY <1>1, <1>2 DEF LintInv, LintShape, LintTypeOK, LintPlace, FoundTrue, SaidSound, CoreHeld,
                    CompileAllowed
<1>4. KeptTrue'
  BY <1>1, KeptStays DEF LintInv, keptVars
<1>5. Linters' = Linters /\ TrueFindings' = TrueFindings /\ \A l : Lint(l)' = Lint(l)
  BY <1>1, SameQuestion
<1>6. CoreFindingsStand'
  BY <1>1, <1>5 DEF LintInv, CoreFindingsStand, Decided, MixedDirective
<1>7. DirectiveJudged <=> DirectiveJudged'
  BY <1>1, <1>5 DEF DirectiveJudged, Decided, SaysOf, Complains, Unused, Deciding, Registered
<1>8. FindingsAreCurrent'
  <2>1. BrokenIsRefused => BrokenIsRefused'
    BY <1>1 DEF BrokenIsRefused
  <2> QED BY <1>1, <1>5, <1>7, <2>1 DEF LintInv, FindingsAreCurrent, Decided
<1> QED BY <1>3, <1>4, <1>6, <1>8 DEF LintInv

(* Every step of the check keeps the invariant. *)
LEMMA LintStep == LintInv /\ [LintNext]_lintVars => LintInv'
<1> SUFFICES ASSUME LintInv, [LintNext]_lintVars PROVE LintInv'
  OBVIOUS
<1>1. CASE MovesOn
  BY <1>1, MovingOn
<1>2. CASE ReplayLint
  BY <1>2, Replaying
<1>3. CASE RefuseRun
  BY <1>3, Refusing
<1>4. CASE StartRun
  BY <1>4, Starting
<1>5. ASSUME NEW u \in BuildKinds, Analyze(u) \/ RuleFails(u) PROVE LintInv'
  BY <1>5, Analyzing, RuleFailing
<1>6. CASE StopLinter
  BY <1>6, Stopping
<1>7. CASE RuleExits
  BY <1>7, Exiting
<1>8. CASE FinishLint
  BY <1>8, Finishing
<1>9. CASE ListExcludedFails
  BY <1>9, FailingToList
<1>10. CASE PrintsMore
  BY <1>10, PrintingMore
<1>11. CASE JudgeCore
  BY <1>11, JudgingCore
<1>12. CASE BuildLinter
  BY <1>12, Building
<1>13. CASE JudgeCommunity
  BY <1>13, JudgingCommunity
<1>14. CASE RunAgain
  BY <1>14, RunningAgain
<1>15. CASE UNCHANGED lintVars
  BY <1>15, LintStuttering
<1> QED BY <1>1, <1>2, <1>3, <1>4, <1>5, <1>6, <1>7, <1>8, <1>9, <1>10, <1>11, <1>12, <1>13,
           <1>14, <1>15 DEF LintNext, LintSteps, MovesOn, BuildKinds

(* For any sources, configurations and modules, it holds at every step. *)
THEOREM LintInvariant == LintSpec => []LintInv
<1>1. LintInit => LintInv
  BY LintInitially
<1>2. LintInv /\ [LintNext]_lintVars => LintInv'
  BY LintStep
<1> QED BY <1>1, <1>2, PTL DEF LintSpec

(* GoLint is well typed. *)
THEOREM LintKeepsTypes == LintSpec => []LintTypeOK
<1>1. LintInv => LintTypeOK
  BY DEF LintInv, LintShape
<1> QED BY <1>1, LintInvariant, PTL

(***************************************************************************)
(* community.go:490-522, main.go:467-469: whatever the rules of the pinned *)
(* modules print, and whatever becomes of their linter, what the core      *)
(* linter found is in the verdict, and a mixed directive is reported once. *)
(***************************************************************************)
THEOREM LintKeepsCoreFindings == LintSpec => []CoreFindingsStand
<1>1. LintInv => CoreFindingsStand
  BY DEF LintInv
<1> QED BY <1>1, LintInvariant, PTL

(***************************************************************************)
(* main.go:470-498, community.go:405-586, builds.go:16-31: for any         *)
(* sources, configurations and modules, whatever earlier runs left in      *)
(* Staticcheck's caches and in Dagger's, and whatever findings the code of *)
(* modules prints, a verdict of go-lint holds every finding that is true   *)
(* of the source as it is, and besides only what that code printed and     *)
(* complaints about directives; a run with a nonce judges those in the     *)
(* build that decides; and a source that does not compile never passes.    *)
(***************************************************************************)
THEOREM LintIsCurrent == LintSpec => []FindingsAreCurrent
<1>1. LintInv => FindingsAreCurrent
  BY DEF LintInv
<1> QED BY <1>1, LintInvariant, PTL

-------------------------------------------------------------------------------
(***************************************************************************)
(* The composition: whatever kind of check is dispatched, every machine    *)
(* keeps its own invariant, the one that runs by its steps and the others  *)
(* because nothing touches their state.                                    *)
(***************************************************************************)
CheckInv == SemanticInv /\ MutationInv /\ DaggerInv /\ LintInv /\ ToolInv /\ EngineInv

(* Each machine begins at rest, with its own work or with none. *)
LEMMA Dispatched == CheckInit => CheckInv
<1> SUFFICES ASSUME CheckInit PROVE CheckInv
  OBVIOUS
<1>1. SemanticInv /\ MutationInv
  BY SemanticInvInit, MutationInvInit DEF CheckInit, NoSource, MutationRest
<1>2. LintInv
  <2>1. LintInit \/ LintRest
    BY DEF CheckInit, NoTool
  <2> QED BY <2>1, LintInitially
<1>3. DaggerInv
  <2>1. \E run \in SUBSET DaggerChecks : Execute(run)
    <3>1. Together \subseteq SUBSET DaggerChecks /\ {} \in SUBSET DaggerChecks
      BY DaggerAssumption DEF DaggerAssumption
    <3> QED BY <3>1 DEF CheckInit
  <2> QED BY <2>1, DaggerInvInit DEF CheckInit
<1>4. ToolInv
  <2>1. \E run \in SUBSET ToolChecks : BeginTools(run)
    <3>1. Beside \subseteq SUBSET ToolChecks /\ {} \in SUBSET ToolChecks
      BY NativeToolsAssumption DEF NativeToolsAssumption
    <3> QED BY <3>1 DEF CheckInit, NoTool
  <2> QED BY <2>1, ToolInvInit DEF CheckInit
<1>5. EngineInv
  <2>1. \E run \in SUBSET Jobs : Summon(run)
    <3>1. Jointly \subseteq SUBSET Jobs /\ {} \in SUBSET Jobs
      BY EngineCachesAssumption DEF EngineCachesAssumption
    <3> QED BY <3>1 DEF CheckInit, NoTool
  <2> QED BY <2>1, EngineInit DEF CheckInit
<1> QED BY <1>1, <1>2, <1>3, <1>4, <1>5 DEF CheckInv

(* A step of a run is, for each machine, a step of it or none. *)
LEMMA OneMachineSteps ==
  [CheckNext]_CheckVars =>
    /\ [SemanticNext]_semanticVars /\ [MutationNext]_mutationVars
    /\ [DaggerNext]_daggerVars /\ [LintNext]_lintVars
    /\ [ToolNext]_toolVars /\ [EngineNext]_engineVars
BY DEF CheckNext, CheckVars

(* So every machine's invariant survives every step. *)
LEMMA CheckInvStep == CheckInv /\ [CheckNext]_CheckVars => CheckInv'
BY OneMachineSteps, SemanticInvStep, MutationInvStep, DaggerInvStep, LintStep, ToolInvStep,
   EngineStep DEF CheckInv

(* And holds throughout every check of every kind. *)
LEMMA CheckAlways == CheckSpec => []CheckInv
BY Dispatched, CheckInvStep, PTL DEF CheckSpec

(***************************************************************************)
(* dagger.go:44, native.go:19: the state of a check of any kind keeps its  *)
(* types, for all constants, whichever machine executes it.                *)
(***************************************************************************)
THEOREM ChecksKeepTypes == CheckSpec => []CheckTypeOK
<1>1. CheckInv => CheckTypeOK
  BY SemanticInvImplies
     DEF CheckInv, CheckTypeOK, MutationInv, DaggerInv, LintInv, LintShape, ToolInv, EngineInv
<1> QED BY <1>1, CheckAlways, PTL

(***************************************************************************)
(* dagger.go:44, native.go:19: whatever kind of check a run dispatches,    *)
(* the verdict is what its machine promises. A semantic check spends its   *)
(* budget on the requests that come first and says what became of them; a  *)
(* mutation pass hides no survivor and a finding is true; no check ends    *)
(* the session of another; go-lint's verdict is of the source as it is; a  *)
(* tool's is of its own checkout's bytes; and a step of the module         *)
(* compiles its own source.                                                *)
(***************************************************************************)
THEOREM ChecksAreSafe ==
  CheckSpec => [](/\ BudgetWellSpent /\ OutcomeIsHonest
                  /\ PassMeansCaught /\ FindingsAreTrue
                  /\ SharedOutlivesChecks
                  /\ FindingsAreCurrent /\ CoreFindingsStand
                  /\ ToolVerdictIsTrue
                  /\ StepsCompileTheirOwn)
<1>1. SemanticInv => BudgetWellSpent /\ OutcomeIsHonest
  BY SemanticInvImplies
<1>2. MutationInv => PassMeansCaught /\ FindingsAreTrue
  BY DEF MutationInv, VerdictInv
<1>3. DaggerInv => SharedOutlivesChecks
  BY DaggerInvShares
<1>4. LintInv => FindingsAreCurrent /\ CoreFindingsStand
  BY DEF LintInv
<1>5. ToolInv => ToolVerdictIsTrue
  BY DEF ToolInv
<1>6. EngineInv => StepsCompileTheirOwn
  BY DEF EngineInv
<1>7. CheckInv => /\ BudgetWellSpent /\ OutcomeIsHonest
                  /\ PassMeansCaught /\ FindingsAreTrue
                  /\ SharedOutlivesChecks
                  /\ FindingsAreCurrent /\ CoreFindingsStand
                  /\ ToolVerdictIsTrue
                  /\ StepsCompileTheirOwn
  BY <1>1, <1>2, <1>3, <1>4, <1>5, <1>6 DEF CheckInv
<1> QED BY <1>7, CheckAlways, PTL

(***************************************************************************)
(* mutation.go:510-513, dagger.go:250-283: among all kinds of checks, a    *)
(* rerun of gremlins has a limit to trust unless its coverage was over     *)
(* twice as fast, and a check's verdict is its answer's unless its context *)
(* ended.                                                                  *)
(***************************************************************************)
THEOREM ChecksStepHonestly == CheckSpec => RerunClearsFloor /\ VerdictsAreAnswers
<1>1. CheckInv /\ [CheckNext]_CheckVars => [RerunClears]_mutationVars
  BY OneMachineSteps, RerunStep DEF CheckInv, MutationInv
<1>2. CheckInv /\ [CheckNext]_CheckVars => [\A c \in DaggerChecks : Honest(c)]_daggerVars
  BY OneMachineSteps, HonestStep DEF CheckInv
<1>3. CheckSpec => [][RerunClears]_mutationVars
  BY <1>1, CheckAlways, PTL DEF CheckSpec
<1>4. CheckSpec => [][\A c \in DaggerChecks : Honest(c)]_daggerVars
  BY <1>2, CheckAlways, PTL DEF CheckSpec
<1> QED BY <1>3, <1>4, PTL DEF RerunClearsFloor, RerunClears, VerdictsAreAnswers, Honest
===============================================================================
