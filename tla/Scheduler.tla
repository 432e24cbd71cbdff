------------------------------ MODULE Scheduler -------------------------------
(***************************************************************************)
(* Session.Execute (internal/verify/run.go): one goroutine per planned     *)
(* check, a channel of worker slots, and one done channel per check that   *)
(* later checks with the same preparation wait on.  Checks are numbered in *)
(* plan order.  A plan's preparations and its jobs option are chosen by    *)
(* Init and never change.                                                  *)
(***************************************************************************)
EXTENDS Naturals, FiniteSets, FiniteSetsExt

CONSTANTS
  N,               \* the number of planned checks
  Preparations,    \* distinct preparation stages (their digests)
  NoPreparation,   \* what a check without one has
  MaxJobs,         \* bound: the largest --jobs value tried
  Procs,           \* runtime.GOMAXPROCS(0)
  Unavailable      \* checks whose environment names no executor of the run

ASSUME SchedulerAssumption ==
  /\ N \in Nat
  /\ NoPreparation \notin Preparations
  /\ MaxJobs \in Nat
  /\ Procs \in Nat \ {0}
  /\ Unavailable \subseteq 1..N

VARIABLES
  preparation,     \* the preparation of each check
  jobs,            \* the caller's jobs option, 0 for the default
  pc,              \* where each check's goroutine is
  slots,           \* the checks in the slots channel
  done,            \* the checks whose done channel is closed
  result,          \* results[i].Status, "" until it is stored
  cancelled,       \* whether the run's context has ended
  report           \* the report's status, "" until Execute returns

vars == <<preparation, jobs, pc, slots, done, result, cancelled, report>>

Plan == 1..N
Statuses == {"passed", "failed", "error", "cancelled", "incomplete"}

(* At most four checks at once by default, any number the caller asks for. *)
MaxCheckParallelism == 4

CheckParallelism(n, j) ==
  LET limit == IF j > 0 THEN j ELSE Min({Procs, MaxCheckParallelism})
  IN  IF n <= 1 THEN 1 ELSE Min({n, Max({limit, 1})})

Workers == CheckParallelism(N, jobs)

(* MUTANT: a check waits only for the check right before it in the plan. *)
SharedWithPrevious(i, j) ==
  j = i - 1 /\ preparation[i] # NoPreparation /\ preparation[i] = preparation[j]

SharedPreparation(i, j) ==
  preparation[i] # NoPreparation /\ preparation[i] = preparation[j]

EarlierSharers(i) == {j \in 1..(i - 1) : SharedPreparation(i, j)}

(* MUTANT of ReportStatus: a cancelled check is not held against the run. *)
ReportStatusLenient(results) ==
  IF DOMAIN results = {} THEN "incomplete"
  ELSE IF \E i \in DOMAIN results : results[i] \notin {"passed", "cancelled"} THEN "failed"
  ELSE "passed"

ReportStatus(results) ==
  IF DOMAIN results = {} THEN "incomplete"
  ELSE IF \E i \in DOMAIN results : results[i] # "passed" THEN "failed"
  ELSE "passed"

Init ==
  /\ preparation \in [Plan -> Preparations \cup {NoPreparation}]
  /\ jobs \in 0..MaxJobs
  /\ pc = [i \in Plan |-> "waiting"]
  /\ slots = {}
  /\ done = {}
  /\ result = [i \in Plan |-> ""]
  /\ cancelled = FALSE
  /\ report = ""

Goto(i, p) == pc' = [pc EXCEPT ![i] = p]
Store(i, s) == result' = [result EXCEPT ![i] = s]

-----------------------------------------------------------------------------
(***************************************************************************)
(* MUTANT of Start: the worker slot is taken before the wait for earlier   *)
(* checks with the same preparation.                                       *)
(***************************************************************************)
StartInsideSlot(i) ==
  /\ pc[i] = "waiting"
  /\ \/ /\ i \notin slots
        /\ Cardinality(slots) < Workers
        /\ slots' = slots \cup {i}
        /\ UNCHANGED pc
     \/ /\ i \in slots
        /\ EarlierSharers(i) \subseteq done
        /\ Goto(i, "running")
        /\ UNCHANGED slots
  /\ UNCHANGED <<preparation, jobs, done, result, cancelled, report>>

(* MUTANT of Start: one check too many, as an unbuffered hand-off allows. *)
StartOneMore(i) ==
  /\ pc[i] = "waiting"
  /\ EarlierSharers(i) \subseteq done
  /\ Cardinality(slots) <= Workers
  /\ slots' = slots \cup {i}
  /\ Goto(i, "running")
  /\ UNCHANGED <<preparation, jobs, done, result, cancelled, report>>

(***************************************************************************)
(* Every earlier check with the same preparation is done, and then a slot  *)
(* is free.  Done channels stay closed, so the waits of run.go:116-120,    *)
(* one after the other, are one condition.  The context cuts neither wait. *)
(***************************************************************************)
Start(i) ==
  /\ pc[i] = "waiting"
  /\ EarlierSharers(i) \subseteq done
  /\ Cardinality(slots) < Workers
  /\ slots' = slots \cup {i}
  /\ Goto(i, "running")
  /\ UNCHANGED <<preparation, jobs, done, result, cancelled, report>>

(* executeCheck refuses: the context has ended, or no executor is there. *)
Refuse(i) ==
  /\ pc[i] = "running"
  /\ \/ cancelled /\ Store(i, "cancelled")
     \/ ~cancelled /\ i \in Unavailable /\ Store(i, "incomplete")
  /\ Goto(i, "stored")
  /\ UNCHANGED <<preparation, jobs, slots, done, cancelled, report>>

Begin(i) ==
  /\ pc[i] = "running"
  /\ ~cancelled
  /\ i \notin Unavailable
  /\ Goto(i, "executing")
  /\ UNCHANGED <<preparation, jobs, slots, done, result, cancelled, report>>

(* The executor returns; a status that is none of the five is an error. *)
Return(i) ==
  /\ pc[i] = "executing"
  /\ \E s \in Statuses \cup {"invalid"} :
       Store(i, IF s \in Statuses THEN s ELSE "error")
  /\ Goto(i, "stored")
  /\ UNCHANGED <<preparation, jobs, slots, done, cancelled, report>>

(* The deferred calls, last first: the slot, the done channel, the group. *)
FreeSlot(i) ==
  /\ pc[i] = "stored"
  /\ slots' = slots \ {i}
  /\ Goto(i, "freed")
  /\ UNCHANGED <<preparation, jobs, done, result, cancelled, report>>

CloseDone(i) ==
  /\ pc[i] = "freed"
  /\ done' = done \cup {i}
  /\ Goto(i, "ended")
  /\ UNCHANGED <<preparation, jobs, slots, result, cancelled, report>>

AllEnded == \A i \in Plan : pc[i] = "ended"

(* wg.Wait returns, and Execute with it. *)
Report ==
  /\ report = ""
  /\ AllEnded
  /\ report' = ReportStatus(result)
  /\ UNCHANGED <<preparation, jobs, pc, slots, done, result, cancelled>>

(* The first interrupt ends the run's context. *)
Cancel ==
  /\ ~cancelled
  /\ report = ""
  /\ cancelled' = TRUE
  /\ UNCHANGED <<preparation, jobs, pc, slots, done, result, report>>

Returned == report # "" /\ UNCHANGED vars

Next ==
  \/ \E i \in Plan :
       \/ Start(i) \/ Refuse(i) \/ Begin(i) \/ Return(i)
       \/ FreeSlot(i) \/ CloseDone(i)
  \/ Report
  \/ Cancel
  \/ Returned

Spec == Init /\ [][Next]_vars

(***************************************************************************)
(* Goroutines are scheduled and executors return: each runs under its own  *)
(* timeout or ends with the context.                                       *)
(***************************************************************************)
Fairness ==
  /\ \A i \in Plan :
       /\ WF_vars(Start(i)) /\ WF_vars(Refuse(i)) /\ WF_vars(Begin(i))
       /\ WF_vars(Return(i)) /\ WF_vars(FreeSlot(i)) /\ WF_vars(CloseDone(i))
  /\ WF_vars(Report)

FairSpec == Spec /\ Fairness

-----------------------------------------------------------------------------
TypeOK ==
  /\ preparation \in [Plan -> Preparations \cup {NoPreparation}]
  /\ jobs \in 0..MaxJobs
  /\ pc \in [Plan -> {"waiting", "running", "executing", "stored", "freed", "ended"}]
  /\ slots \in SUBSET Plan
  /\ done \in SUBSET Plan
  /\ result \in [Plan -> Statuses \cup {""}]
  /\ cancelled \in BOOLEAN
  /\ report \in {"", "passed", "failed", "incomplete"}

Working == {i \in Plan : pc[i] \in {"running", "executing", "stored"}}

(***************************************************************************)
(* run.go:62-68: never more checks at work than the cap, which jobs can    *)
(* raise and the size of the plan lowers.                                  *)
(***************************************************************************)
WithinCap ==
  /\ Cardinality(Working) <= IF jobs > 0 THEN jobs ELSE MaxCheckParallelism
  /\ Cardinality(Working) <= Max({N, 1})

(***************************************************************************)
(* run.go:85-88: checks with the same preparation run in plan order and    *)
(* their stages never interleave, whatever else overlaps.                  *)
(***************************************************************************)
SharersInPlanOrder ==
  \A i, j \in Plan :
    /\ j < i
    /\ preparation[i] = preparation[j] /\ preparation[i] # NoPreparation
    /\ pc[i] # "waiting"
    => pc[j] = "ended"

(***************************************************************************)
(* The report is made of every check's final result: it says passed        *)
(* exactly when there was a check and every check ended with passed.       *)
(***************************************************************************)
ReportFinal ==
  report # "" =>
    /\ \A i \in Plan : pc[i] = "ended" /\ result[i] \in Statuses
    /\ report = "passed" <=> N > 0 /\ \A i \in Plan : result[i] = "passed"

(***************************************************************************)
(* run.go:114-115: chains of shared preparations cannot deadlock the       *)
(* bounded pool; every run returns a report, cancelled or not.  What is    *)
(* not executing when the context ends never does, and its result says     *)
(* cancelled unless it was stored before.                                  *)
(***************************************************************************)
StaysCancelled(i) == result'[i] \in {"", "cancelled"} /\ pc'[i] # "executing"

EveryRunReports ==
  /\ <>(report # "")
  /\ [][\A i \in Plan :
          cancelled /\ result[i] = "" /\ pc[i] # "executing" => StaysCancelled(i)]_vars
===============================================================================
