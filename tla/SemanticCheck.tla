---------------------------- MODULE SemanticCheck -----------------------------
(***************************************************************************)
(* The semantic-lint check (verify/semantic.go, semantic/check.go,         *)
(* semantic/client.go): a change becomes requests, as many as the budgets  *)
(* allow are asked concurrently, each with retries, and what was answered  *)
(* decides the outcome.  Two contexts can end it: its own timeout, and the *)
(* run's.  What a request says is left out: a request has a size and a     *)
(* number of questions, an answer a number of questions validly answered.  *)
(***************************************************************************)
EXTENDS Naturals, Sequences, FiniteSets

CONSTANTS
  Shapes,       \* what a request can be: [full, least, asks]
  NoChange,     \* there is no change-level request
  MaxState,     \* maxStateChars
  MaxRequests,  \* the two budgets
  MaxChars,
  AskWorkers,   \* how many requests are asked at once
  MaxAttempts,  \* how often Ask posts one request
  MaxHunks      \* bound: requests besides the change-level one

ASSUME SemanticAssumption ==
  /\ \A s \in Shapes : /\ s.full \in Nat /\ s.least \in 0..s.full
                       /\ s.asks \in Nat \ {0}
  /\ NoChange \notin Shapes
  /\ {MaxState, MaxChars, MaxHunks} \subseteq Nat
  /\ {MaxRequests, AskWorkers, MaxAttempts} \subseteq Nat \ {0}

VARIABLES
  change,       \* the change-level request, or NoChange
  hunks,        \* the requests of the Go and Markdown hunks, in file order
  phase,        \* where semanticLint is; idle: another kind of check runs
  queue,        \* the requests within the budgets, in the order asked
  next,         \* askAll's loop: index in queue of the request it is at
  selecting,    \* the loop has seen a live context and waits in its select
  work,         \* each request: unsent, attempt, backoff or returned
  tries,        \* how often each request was posted
  got,          \* how many of its questions were answered
  errs,         \* why a request failed, or none
  ownEnded,     \* the check's timeout has elapsed
  parentEnded,  \* the run's context has ended
  runErr,       \* semantic.Run returned an error
  outcome       \* the check's status, once it has one

semanticVars ==
  <<change, hunks, phase, queue, next, selecting, work, tries, got, errs,
    ownEnded, parentEnded, runErr, outcome>>

inputVars == <<change, hunks>>
askVars == <<next, selecting, work, tries, got, errs>>
contextVars == <<ownEnded, parentEnded>>

(* Request 0 judges the change as a whole, request i the i-th hunk. *)
Ids == 0..MaxHunks
Lists(S, last) == UNION {[1..n -> S] : n \in 0..last}
Shape(r) == IF r = 0 THEN change ELSE hunks[r]
Candidates == (IF change = NoChange THEN {} ELSE {0}) \cup 1..Len(hunks)

SemanticRest ==
  /\ change = NoChange
  /\ hunks = <<>>
  /\ queue = <<>>
  /\ next = 1
  /\ selecting = FALSE
  /\ work = [r \in Ids |-> "unsent"]
  /\ tries = [r \in Ids |-> 0]
  /\ got = [r \in Ids |-> 0]
  /\ errs = [r \in Ids |-> "none"]
  /\ ownEnded = FALSE
  /\ parentEnded = FALSE
  /\ runErr = FALSE
  /\ outcome = "none"

SemanticInit == phase = "start" /\ SemanticRest

-----------------------------------------------------------------------------
(***************************************************************************)
(* Building the requests.                                                  *)
(***************************************************************************)

(* fit shortens a state that is too large, as far as that goes. *)
Fitted(r) == IF Shape(r).full <= MaxState THEN Shape(r).full ELSE Shape(r).least

Oversize(r) == Fitted(r) > MaxState

RequestChars(r) == Fitted(r) + Shape(r).asks

Sizes == [r \in Candidates |-> RequestChars(r)]

TotalOf(size, requests) ==
  LET chars[n \in 0..Len(requests)] ==
        IF n = 0 THEN 0 ELSE chars[n - 1] + size[requests[n]]
  IN  chars[Len(requests)]

TotalChars(requests) == TotalOf(Sizes, requests)

InOrder(ids) ==
  LET upto[n \in Ids] ==
        LET before == IF n = 0 THEN <<>> ELSE upto[n - 1]
        IN  IF n \in ids THEN Append(before, n) ELSE before
  IN  upto[MaxHunks]

(* The change-level request goes first; an oversize one becomes a note. *)
BuildRequests == InOrder({r \in Candidates : ~Oversize(r)})

(* MUTANT of WithinBudget: the first request that does not fit ends it. *)
WithinBudgetPrefix(requests) ==
  LET Prefix(n) == SubSeq(requests, 1, n)
      Fits(n) == n <= MaxRequests /\ TotalChars(Prefix(n)) <= MaxChars
  IN  Prefix(CHOOSE n \in 0..Len(requests) :
               Fits(n) /\ \A m \in 0..Len(requests) : Fits(m) => m <= n)

(* Keep each request, in order, that still fits both budgets. *)
KeepWithin(size, requests) ==
  LET kept[n \in 0..Len(requests)] ==
        LET before == IF n = 0 THEN <<>> ELSE kept[n - 1]
        IN  IF /\ n # 0 /\ Len(before) < MaxRequests
               /\ TotalOf(size, before) + size[requests[n]] <= MaxChars
            THEN Append(before, requests[n])
            ELSE before
  IN  kept[Len(requests)]

WithinBudget(requests) == KeepWithin(Sizes, requests)

-----------------------------------------------------------------------------
Ended == ownEnded \/ parentEnded
InFlight == {r \in Ids : work[r] \in {"attempt", "backoff"}}

(* A bad timeout, base or origin, no key, no git: nothing is asked. *)
Refuse ==
  /\ phase = "start"
  /\ phase' = "done"
  /\ outcome' = "error"
  /\ UNCHANGED <<inputVars, queue, askVars, contextVars, runErr>>

(* git cannot tell what changed, or was cut short. *)
LoadFails ==
  /\ phase = "start"
  /\ runErr' = TRUE
  /\ phase' = "decide"
  /\ UNCHANGED <<inputVars, queue, askVars, contextVars, outcome>>

(***************************************************************************)
(* git tells what changed; only Go and Markdown changes become requests.   *)
(* Without any request the report is a note; the code returns at once, and *)
(* the loop and the wait below have nothing to do.                         *)
(***************************************************************************)
Load ==
  /\ phase = "start"
  /\ ~Ended
  /\ \/ UNCHANGED inputVars
     \/ change' \in Shapes /\ hunks' \in Lists(Shapes, MaxHunks)
  /\ queue' = WithinBudget(BuildRequests)'
  /\ phase' = "ask"
  /\ UNCHANGED <<askVars, contextVars, runErr, outcome>>

(* Neither the loop of askAll nor Run gives up on the requests after this. *)
PassOver(r, err) ==
  /\ errs' = [errs EXCEPT ![r] = err]
  /\ next' = next + 1
  /\ selecting' = FALSE
  /\ UNCHANGED <<work, tries, got>>

(* The loop looks at the context before each request. *)
LoopCheck ==
  /\ phase = "ask" /\ ~selecting /\ next <= Len(queue)
  /\ IF Ended
     THEN PassOver(queue[next], "ended")
     ELSE selecting' = TRUE /\ UNCHANGED <<next, work, tries, got, errs>>
  /\ UNCHANGED <<inputVars, phase, queue, contextVars, runErr, outcome>>

(* MUTANT of LoopSend: the goroutine takes its slot itself, later. *)
LoopSendUnbounded ==
  /\ phase = "ask" /\ selecting
  /\ LET r == queue[next]
     IN  /\ work' = [work EXCEPT ![r] = "attempt"]
         /\ tries' = [tries EXCEPT ![r] = 1]
  /\ next' = next + 1
  /\ selecting' = FALSE
  /\ UNCHANGED <<inputVars, phase, queue, got, errs, contextVars, runErr, outcome>>

(***************************************************************************)
(* A slot is free.  The select may take it even when the context has ended *)
(* since the loop looked.                                                  *)
(***************************************************************************)
LoopSend ==
  /\ phase = "ask" /\ selecting
  /\ Cardinality(InFlight) < AskWorkers
  /\ LET r == queue[next]
     IN  /\ work' = [work EXCEPT ![r] = "attempt"]
         /\ tries' = [tries EXCEPT ![r] = 1]
  /\ next' = next + 1
  /\ selecting' = FALSE
  /\ UNCHANGED <<inputVars, phase, queue, got, errs, contextVars, runErr, outcome>>

LoopEnded ==
  /\ phase = "ask" /\ selecting /\ Ended
  /\ PassOver(queue[next], "ended")
  /\ UNCHANGED <<inputVars, phase, queue, contextVars, runErr, outcome>>

-----------------------------------------------------------------------------
(***************************************************************************)
(* One goroutine in Client.Ask.  A post gets an answer only from a live    *)
(* context; a stalled one runs out of its own time and is retried.         *)
(***************************************************************************)
Return(r, err, n) ==
  /\ work' = [work EXCEPT ![r] = "returned"]
  /\ errs' = [errs EXCEPT ![r] = err]
  /\ got' = [got EXCEPT ![r] = n]
  /\ UNCHANGED <<inputVars, phase, queue, next, selecting, tries, contextVars, runErr, outcome>>

Answered(r) ==
  /\ work[r] = "attempt" /\ ~Ended
  /\ \E n \in 0..Shape(r).asks : Return(r, "none", n)

Rejected(r) ==
  /\ work[r] = "attempt" /\ ~Ended
  /\ Return(r, "rejected", 0)

(* Rate limits, server errors, a broken connection, a stalled attempt. *)
Retryable(r) ==
  /\ work[r] = "attempt" /\ ~Ended
  /\ IF tries[r] = MaxAttempts
     THEN Return(r, "gaveUp", 0)
     ELSE /\ work' = [work EXCEPT ![r] = "backoff"]
          /\ UNCHANGED <<inputVars, phase, queue, next, selecting, tries, got, errs,
                         contextVars, runErr, outcome>>

(* The delay is over; the select may see it before an ended context. *)
WakeUp(r) ==
  /\ work[r] = "backoff"
  /\ work' = [work EXCEPT ![r] = "attempt"]
  /\ tries' = [tries EXCEPT ![r] = @ + 1]
  /\ UNCHANGED <<inputVars, phase, queue, next, selecting, got, errs, contextVars, runErr, outcome>>

(* The context ends the post or the delay. *)
AskEnded(r) ==
  /\ r \in InFlight /\ Ended
  /\ Return(r, "ended", 0)

(* wg.Wait; what follows composes the report, a function of the state. *)
Join ==
  /\ phase = "ask" /\ next > Len(queue) /\ InFlight = {}
  /\ phase' = "decide"
  /\ UNCHANGED <<inputVars, queue, askVars, contextVars, runErr, outcome>>

-----------------------------------------------------------------------------
(***************************************************************************)
(* The report: a failed request leaves its questions missing, an answered  *)
(* one those that were not validly answered.                               *)
(***************************************************************************)
Judged(r) == IF errs[r] = "none" THEN got[r] ELSE 0
Missing(r) == Shape(r).asks - Judged(r)

Queued == {queue[i] : i \in DOMAIN queue}
Asked == IF runErr THEN {} ELSE Queued
Judgments == \E r \in Asked : Judged(r) > 0
Unanswered == \E r \in Asked : Missing(r) > 0

(* MUTANT of Verdict: the check's own context is looked at first. *)
VerdictOwnFirst ==
  IF Ended /\ (runErr \/ (Unanswered /\ ~Judgments)) THEN "error"
  ELSE IF parentEnded /\ (runErr \/ Unanswered) THEN "cancelled"
  ELSE IF runErr \/ (Unanswered /\ ~Judgments) THEN "error"
  ELSE "passed"

(* The switch at the end of semanticLint, in its order. *)
Verdict ==
  IF parentEnded /\ (runErr \/ Unanswered) THEN "cancelled"
  ELSE IF runErr \/ (Unanswered /\ ~Judgments) THEN "error"
  ELSE "passed"

Decide ==
  /\ phase = "decide"
  /\ outcome' = Verdict
  /\ phase' = "done"
  /\ UNCHANGED <<inputVars, queue, askVars, contextVars, runErr>>

EndOwn ==
  /\ phase \in {"start", "ask", "decide"} /\ ~ownEnded
  /\ ownEnded' = TRUE
  /\ UNCHANGED <<inputVars, phase, queue, askVars, parentEnded, runErr, outcome>>

EndParent ==
  /\ phase \in {"start", "ask", "decide"} /\ ~parentEnded
  /\ parentEnded' = TRUE
  /\ UNCHANGED <<inputVars, phase, queue, askVars, ownEnded, runErr, outcome>>

SemanticDone == phase = "done" /\ UNCHANGED semanticVars

Loop == LoopCheck \/ LoopSend \/ LoopEnded
Goroutine(r) == Answered(r) \/ Rejected(r) \/ Retryable(r) \/ WakeUp(r) \/ AskEnded(r)

SemanticNext ==
  \/ Refuse \/ LoadFails \/ Load
  \/ LoopCheck \/ LoopSend \/ LoopEnded
  \/ \E r \in Ids : \/ Answered(r) \/ Rejected(r) \/ Retryable(r)
                    \/ WakeUp(r) \/ AskEnded(r)
  \/ Join \/ Decide
  \/ EndOwn \/ EndParent
  \/ SemanticDone

(***************************************************************************)
(* git ends; the loop and each goroutine go on; a post ends, at the latest *)
(* with its attempt timeout, and so does a delay.  No context has to end.  *)
(***************************************************************************)
SemanticFairness ==
  WF_semanticVars(Refuse \/ LoadFails \/ Load \/ Loop \/ Join \/ Decide
                  \/ \E r \in Ids : Goroutine(r))

SemanticSpec == SemanticInit /\ [][SemanticNext]_semanticVars /\ SemanticFairness

-----------------------------------------------------------------------------
SemanticTypeOK ==
  /\ change \in Shapes \cup {NoChange}
  /\ hunks \in Lists(Shapes, MaxHunks)
  /\ phase \in {"idle", "start", "ask", "decide", "done"}
  /\ queue \in Lists(Ids, MaxHunks + 1)
  /\ next \in 1..MaxHunks + 2
  /\ selecting \in BOOLEAN
  /\ work \in [Ids -> {"unsent", "attempt", "backoff", "returned"}]
  /\ tries \in [Ids -> 0..MaxAttempts]
  /\ got \in [Ids -> Nat]
  /\ errs \in [Ids -> {"none", "ended", "rejected", "gaveUp"}]
  /\ {ownEnded, parentEnded, runErr} \subseteq BOOLEAN
  /\ outcome \in {"none", "passed", "error", "cancelled"}
  /\ Cardinality(InFlight) <= AskWorkers  \* those that wait before a retry included

(***************************************************************************)
(* check.go:186-214 and 349-354: what is sent stays within both budgets,   *)
(* nothing that would still fit is left out, and a tight budget goes to    *)
(* the change as a whole before any hunk.                                  *)
(***************************************************************************)
BudgetWellSpent ==
  phase = "ask" =>
    /\ Len(queue) <= MaxRequests
    /\ TotalChars(queue) <= MaxChars
    /\ \A r \in Candidates \ Queued :
         \/ Oversize(r)
         \/ Len(queue) = MaxRequests
         \/ TotalChars(queue) + RequestChars(r) > MaxChars
    /\ 0 \in Candidates /\ ~Oversize(0) /\ RequestChars(0) <= MaxChars
         => 0 \in Queued

(***************************************************************************)
(* check.go:146-149: the report is about requests that are over.  One      *)
(* without an error was really answered, so every question it counts as    *)
(* missing has a reason or was left out of an answer.                      *)
(***************************************************************************)
ReportIsFinal ==
  phase \in {"decide", "done"} =>
    /\ InFlight = {}
    /\ \A r \in Asked : errs[r] = "none" => work[r] = "returned"

(***************************************************************************)
(* semantic.go:93-113: the outcome is of that report.  Answers are never   *)
(* thrown away for what happened to other requests; a pass answered        *)
(* something, or everything it asked; and a request cut short by the run   *)
(* alone makes the check cancelled, which nothing else does.               *)
(***************************************************************************)
OutcomeIsHonest ==
  /\ ReportIsFinal
  /\ outcome = "error" => ~Judgments
  /\ outcome = "passed" => Judgments \/ ~Unanswered
  /\ outcome = "cancelled" => parentEnded
  /\ phase = "done" /\ ~ownEnded /\ (\E r \in Asked : errs[r] = "ended") => outcome = "cancelled"

SemanticOver == phase \in {"idle", "done"}
===============================================================================
