---------------------------- MODULE DaggerExecutor ----------------------------
(***************************************************************************)
(* Concurrent Dagger checks of one run and the session they share          *)
(* (internal/verify/dagger.go, goapidiff.go, cachekey.go).  The session    *)
(* lives as long as the context that opened it; go-test, go-apidiff and    *)
(* go-mutation bound their own query by a deadline as well.  Dagger        *)
(* answers whenever it likes, and need not answer at all.                  *)
(***************************************************************************)
EXTENDS FiniteSets

CONSTANTS
  DaggerChecks,
  KindOf,       \* [DaggerChecks -> {"lint", "test", "apidiff", "mutation"}]
  Together,     \* the sets of checks that a run executes
  Closed        \* no session, no key

ASSUME DaggerAssumption ==
  /\ KindOf \in [DaggerChecks -> {"lint", "test", "apidiff", "mutation"}]
  /\ Together \subseteq SUBSET DaggerChecks
  /\ Closed \notin DaggerChecks \cup {"run", "clone", "root"}
  /\ "run" \notin DaggerChecks

VARIABLES
  session,     \* Dagger.client: Closed, or whose context it was opened with
  opener,      \* Dagger.mu: the check that is connecting, or Closed
  cacheKey,    \* Dagger.cacheKeys of the source: Closed, "clone" or "root"
  at,          \* where each check is
  answer,      \* what it heard
  named,       \* the cache key of its call
  verdict,     \* its result
  cancelled,   \* whether the run's context ended
  late         \* the checks whose own deadline passed

daggerVars == <<session, opener, cacheKey, at, answer, named, verdict, cancelled, late>>

Bounded(c) == KindOf[c] # "lint"
RunsCode(c) == KindOf[c] \in {"test", "mutation"}  \* runsRepositoryCode

(* The context of a check's query, and the one that it connects with. *)
Over(c) == cancelled \/ c \in late
OwnContext(c) == IF Bounded(c) THEN c ELSE "run"
ConnectContext(c) == "run"

(* A session is gone with its context. *)
Dead == session # Closed /\ (cancelled \/ session \in late)

DaggerRest ==
  /\ session = Closed /\ opener = Closed /\ cacheKey = Closed
  /\ answer = [c \in DaggerChecks |-> "none"]
  /\ named = [c \in DaggerChecks |-> Closed]
  /\ verdict = [c \in DaggerChecks |-> "none"]
  /\ cancelled = FALSE /\ late = {}

Execute(run) == at = [c \in DaggerChecks |-> IF c \in run THEN "start" ELSE "idle"]

Reach(c, status) ==
  /\ at' = [at EXCEPT ![c] = "done"]
  /\ verdict' = [verdict EXCEPT ![c] = status]

Goto(c, step) == at' = [at EXCEPT ![c] = step] /\ UNCHANGED verdict

(***************************************************************************)
(* Selecting the work on the host: the merge base for go-apidiff, the      *)
(* files to mutate for go-mutation.  There may be nothing to do, or git    *)
(* may fail, as it does under a context that ended.                        *)
(***************************************************************************)
AfterFailure(c) == IF KindOf[c] # "mutation" /\ cancelled THEN "cancelled" ELSE "error"

SelectWork(c) ==
  /\ at[c] = "start"
  /\ IF KindOf[c] \in {"apidiff", "mutation"}
     THEN \/ Goto(c, "connect") \/ Reach(c, "passed") \/ Reach(c, AfterFailure(c))
     ELSE Goto(c, "connect")
  /\ UNCHANGED <<session, opener, cacheKey, answer, named, cancelled, late>>

(* connect: one check at a time, and only the first opens a session. *)
Lock(c) ==
  /\ at[c] = "connect" /\ opener = Closed
  /\ IF session = Closed
     THEN opener' = c /\ Goto(c, "opening")
     ELSE opener' = opener /\ Goto(c, "source")
  /\ UNCHANGED <<session, cacheKey, answer, named, cancelled, late>>

Opened(c) ==
  /\ at[c] = "opening" /\ ~cancelled
  /\ session' = ConnectContext(c) /\ opener' = Closed
  /\ Goto(c, "source")
  /\ UNCHANGED <<cacheKey, answer, named, cancelled, late>>

(* MUTANT of NotOpened: it connects again, whatever the reason. *)
NotOpenedRetrying(c) ==
  /\ at[c] = "opening"
  /\ opener' = Closed
  /\ Goto(c, "connect")
  /\ UNCHANGED <<session, cacheKey, answer, named, cancelled, late>>

NotOpened(c) ==
  /\ at[c] = "opening"
  /\ opener' = Closed
  /\ Reach(c, AfterFailure(c))
  /\ UNCHANGED <<session, cacheKey, answer, named, cancelled, late>>

(***************************************************************************)
(* execute: the source is enumerated, then the clone's key looked up.  A   *)
(* go-apidiff check that cannot enumerate it is an error at once.          *)
(***************************************************************************)
Source(c) ==
  /\ at[c] = "source"
  /\ \/ Goto(c, IF RunsCode(c) THEN "key" ELSE "query") /\ UNCHANGED answer
     \/ IF KindOf[c] = "apidiff" THEN Reach(c, "error") /\ UNCHANGED answer
        ELSE Goto(c, "settle") /\ answer' = [answer EXCEPT ![c] = "failure"]
  /\ UNCHANGED <<session, opener, cacheKey, named, cancelled, late>>

(* Git that the context cut short, or that failed by itself, names the root. *)
FindKey(c) ==
  /\ at[c] = "key" /\ named[c] = Closed
  /\ \/ cacheKey # Closed /\ named' = [named EXCEPT ![c] = cacheKey]
     \/ /\ cacheKey = Closed
        /\ \E key \in {"clone", "root"} : named' = [named EXCEPT ![c] = key]
  /\ UNCHANGED <<session, opener, cacheKey, at, answer, verdict, cancelled, late>>

KeepKey(c) ==
  /\ at[c] = "key" /\ named[c] # Closed
  /\ IF Over(c) THEN UNCHANGED <<cacheKey, named>>
     ELSE /\ cacheKey' = IF cacheKey = Closed THEN named[c] ELSE cacheKey
          /\ named' = [named EXCEPT ![c] = cacheKey']
  /\ Goto(c, "query")
  /\ UNCHANGED <<session, opener, answer, cancelled, late>>

(***************************************************************************)
(* The answer: success, possibly with a report that does not decode;       *)
(* findings, possibly of a run that did not finish, or beside what kept    *)
(* the check from a verdict; or no answer of the module at all.            *)
(***************************************************************************)
Answers == {"success", "garbled", "findings", "unfinished", "broken", "failure"}

Respond(c, a) ==
  /\ at[c] = "query"
  /\ Dead \/ Over(c) => a = "failure"
  /\ a = "garbled" => KindOf[c] = "lint"
  /\ answer' = [answer EXCEPT ![c] = a]
  /\ Goto(c, "settle")
  /\ UNCHANGED <<session, opener, cacheKey, named, cancelled, late>>

DaggerResult(a) ==
  CASE a = "success" -> "passed"
    [] a = "findings" -> "failed"
    [] a = "unfinished" -> "incomplete"
    [] OTHER -> "error"

SettleAnswer(c) ==
  /\ at[c] = "settle"
  /\ Reach(c, IF cancelled THEN "cancelled" ELSE DaggerResult(answer[c]))
  /\ UNCHANGED <<session, opener, cacheKey, answer, named, cancelled, late>>

Settle(c) ==
  /\ at[c] = "settle"
  /\ Reach(c, IF cancelled THEN "cancelled"
               ELSE IF c \in late THEN "error" ELSE DaggerResult(answer[c]))
  /\ UNCHANGED <<session, opener, cacheKey, answer, named, cancelled, late>>

(* An interrupt, and a deadline, which starts before or after connecting. *)
Interrupt ==
  /\ ~cancelled /\ \E c \in DaggerChecks : at[c] \notin {"idle", "done"}
  /\ cancelled' = TRUE
  /\ UNCHANGED <<session, opener, cacheKey, at, answer, named, verdict, late>>

Started(c) ==
  at[c] \in {"source", "key", "query", "settle"}
    \cup IF KindOf[c] = "mutation" THEN {"start", "connect", "opening"} ELSE {}

Deadline(c) ==
  /\ Bounded(c) /\ c \notin late /\ Started(c)
  /\ late' = late \cup {c}
  /\ UNCHANGED <<session, opener, cacheKey, at, answer, named, verdict, cancelled>>

DaggerStep(c) ==
  \/ SelectWork(c) \/ Lock(c) \/ Opened(c) \/ NotOpened(c) \/ Source(c)
  \/ FindKey(c) \/ KeepKey(c) \/ Settle(c)
  \/ \E a \in Answers : Respond(c, a)

(* Dagger.Close, when the run is over. *)
RunOver == \A c \in DaggerChecks : at[c] \in {"idle", "done"}

Close ==
  /\ RunOver /\ session # Closed
  /\ session' = Closed
  /\ UNCHANGED <<opener, cacheKey, at, answer, named, verdict, cancelled, late>>

DaggerNext ==
  \/ \E c \in DaggerChecks : DaggerStep(c) \/ Deadline(c)
  \/ Interrupt \/ Close
  \/ RunOver /\ session = Closed /\ UNCHANGED daggerVars

(***************************************************************************)
(* Goroutines are scheduled, deadlines pass, connecting succeeds or fails, *)
(* and git ends.  A query need not be answered before its context is over. *)
(***************************************************************************)
DaggerFairness ==
  WF_daggerVars(\E c \in DaggerChecks :
    \/ SelectWork(c) \/ Lock(c) \/ Opened(c) \/ NotOpened(c) \/ Source(c)
    \/ FindKey(c) \/ KeepKey(c) \/ Settle(c) \/ Deadline(c)
    \/ Over(c) /\ Respond(c, "failure"))

DaggerSpec ==
  /\ DaggerRest /\ \E run \in Together : Execute(run)
  /\ [][DaggerNext]_daggerVars /\ DaggerFairness

-------------------------------------------------------------------------------
DaggerTypeOK ==
  /\ session \in {Closed, "run"} \cup DaggerChecks
  /\ opener \in {Closed} \cup DaggerChecks
  /\ cacheKey \in {Closed, "clone", "root"}
  /\ at \in [DaggerChecks -> {"idle", "start", "connect", "opening", "source", "key",
                              "query", "settle", "done"}]
  /\ answer \in [DaggerChecks -> {"none"} \cup Answers]
  /\ named \in [DaggerChecks -> {Closed, "clone", "root"}]
  /\ verdict \in [DaggerChecks -> {"none", "passed", "failed", "incomplete", "error",
                                   "cancelled"}]
  /\ cancelled \in BOOLEAN /\ late \subseteq DaggerChecks

(***************************************************************************)
(* A verdict is an answer that came in time: it is neither the leftover of *)
(* a deadline or an interrupt, nor a pass beside findings, and only an     *)
(* interrupt of the run cancels.                                           *)
(***************************************************************************)
VerdictsAreAnswers ==
  [][\A c \in DaggerChecks : verdict'[c] # verdict[c] =>
      LET asked == answer[c] # "none"
      IN /\ verdict'[c] = "cancelled" => cancelled
         /\ asked /\ verdict'[c] \in {"passed", "failed", "incomplete"} =>
              ~Over(c) /\ verdict'[c] = DaggerResult(answer[c])
         /\ ~asked => verdict'[c] \notin {"failed", "incomplete"}]_daggerVars

(***************************************************************************)
(* dagger.go:123-127: what the checks of a run share outlives each of      *)
(* them.  No check that is out of time closes the session for the others,  *)
(* whoever opened it; and all compile in the caches of one key, whose      *)
(* fallback, for a git run that an ending context cut short, is not left   *)
(* to the others (cachekey.go, dagger.go:261-274).                         *)
(***************************************************************************)
SharedOutlivesChecks ==
  /\ Dead => cancelled
  /\ \A c, d \in DaggerChecks :
       /\ {at[c], at[d]} \subseteq {"query", "settle", "done"}
       /\ Closed \notin {named[c], named[d]} /\ ~Over(c) /\ ~Over(d)
       => named[c] = named[d]

(***************************************************************************)
(* A check with a deadline ends though Dagger never answers, and once the  *)
(* run is interrupted every check does.                                    *)
(***************************************************************************)
DaggerOver ==
  \A c \in DaggerChecks : at[c] \in {"idle", "done"} \/ (~Bounded(c) /\ ~cancelled)
===============================================================================
