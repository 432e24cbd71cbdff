--------------------------- MODULE SchedulerProofs ----------------------------
(***************************************************************************)
(* Session.Execute for every plan, every jobs option and every number of   *)
(* processors: the cap on concurrent checks, the order of checks that      *)
(* share a preparation, and the report.                                    *)
(***************************************************************************)
EXTENDS Scheduler, FiniteSetTheorems, TLAPS

USE SchedulerAssumption

(***************************************************************************)
(* The cap: the smaller of the plan's size and what the caller asks for,   *)
(* or the default, and never less than one.                                *)
(***************************************************************************)
LEMMA MinOfTwo ==
  ASSUME NEW a \in Nat, NEW b \in Nat
  PROVE  Min({a, b}) \in {a, b} /\ Min({a, b}) <= a /\ Min({a, b}) <= b
<1> DEFINE IsMin(x) == x \in {a, b} /\ \A y \in {a, b} : x <= y
<1>1. \E x \in {a, b} : \A y \in {a, b} : x <= y
  <2>1. CASE a <= b
    BY <2>1
  <2>2. CASE b <= a
    BY <2>2
  <2> QED BY <2>1, <2>2
<1>2. Min({a, b}) \in {a, b} /\ \A y \in {a, b} : Min({a, b}) <= y
  BY <1>1 DEF Min
<1> QED BY <1>2

(* The larger of two numbers. *)
LEMMA MaxOfTwo ==
  ASSUME NEW a \in Nat, NEW b \in Nat
  PROVE  Max({a, b}) \in {a, b} /\ Max({a, b}) >= a /\ Max({a, b}) >= b
<1>1. \E x \in {a, b} : \A y \in {a, b} : x >= y
  <2>1. CASE a >= b
    BY <2>1
  <2>2. CASE b >= a
    BY <2>2
  <2> QED BY <2>1, <2>2
<1>2. Max({a, b}) \in {a, b} /\ \A y \in {a, b} : Max({a, b}) >= y
  BY <1>1 DEF Max
<1> QED BY <1>2

(* The cap is bounded by the option, or the default, and by the plan. *)
LEMMA CapOfWorkers ==
  ASSUME jobs \in Nat
  PROVE  /\ Workers \in Nat
         /\ Workers <= IF jobs > 0 THEN jobs ELSE MaxCheckParallelism
         /\ Workers <= Max({N, 1})
<1> DEFINE limit == IF jobs > 0 THEN jobs ELSE Min({Procs, MaxCheckParallelism})
<1>1. limit \in Nat \ {0} /\ limit <= IF jobs > 0 THEN jobs ELSE MaxCheckParallelism
  <2>1. Min({Procs, MaxCheckParallelism}) \in {Procs, MaxCheckParallelism}
        /\ Min({Procs, MaxCheckParallelism}) <= MaxCheckParallelism
    BY MinOfTwo DEF MaxCheckParallelism
  <2> QED BY <2>1 DEF MaxCheckParallelism
<1>2. Max({limit, 1}) = limit
  BY <1>1, MaxOfTwo
<1>3. Max({N, 1}) >= N /\ Max({N, 1}) >= 1 /\ Max({N, 1}) \in Nat
  BY MaxOfTwo
<1>4. Workers = IF N <= 1 THEN 1 ELSE Min({N, limit})
  BY <1>2 DEF Workers, CheckParallelism
<1>5. CASE N <= 1
  <2> HIDE DEF limit
  <2>1. Workers = 1 /\ limit \in Nat \ {0}
    BY <1>1, <1>4, <1>5
  <2>2. Workers <= IF jobs > 0 THEN jobs ELSE MaxCheckParallelism
    BY <2>1 DEF MaxCheckParallelism
  <2> QED BY <2>1, <2>2, <1>3
<1>6. CASE N > 1
  <2> HIDE DEF limit
  <2>1. Min({N, limit}) \in {N, limit} /\ Min({N, limit}) <= N /\ Min({N, limit}) <= limit
    BY <1>1, MinOfTwo
  <2>2. Workers = Min({N, limit}) /\ limit \in Nat
    BY <1>1, <1>4, <1>6
  <2>3. Workers \in Nat /\ Workers <= limit /\ Workers <= N
    BY <2>1, <2>2
  <2>4. Workers <= Max({N, 1})
    BY <2>3, <1>3
  <2>5. CASE jobs > 0
    BY <1>1, <2>2, <2>3, <2>4, <2>5
  <2>6. CASE ~(jobs > 0)
    BY <1>1, <2>2, <2>3, <2>4, <2>6 DEF MaxCheckParallelism
  <2> QED BY <2>5, <2>6
<1> QED BY <1>5, <1>6

(* The bounds of the variables, for the arithmetic of the steps. *)
LEMMA PlanIsFinite == IsFiniteSet(Plan) /\ \A S \in SUBSET Plan : IsFiniteSet(S)
<1>1. IsFiniteSet(1..N)
  BY FS_Interval, 1 \in Int, N \in Int
<1> QED BY <1>1, FS_Subset DEF Plan

(* A plan is empty exactly when it has no check. *)
LEMMA EmptyPlan == Plan = {} <=> ~(N > 0)
<1>1. N \in Nat
  OBVIOUS
<1>2. \A n \in Nat : 1..n = {} <=> ~(n > 0)
  <2> SUFFICES ASSUME NEW n \in Nat PROVE 1..n = {} <=> ~(n > 0)
    OBVIOUS
  <2>1. CASE n > 0
    <3>1. 1 \in 1..n
      BY <2>1
    <3> QED BY <2>1, <3>1
  <2>2. CASE ~(n > 0)
    <3>1. \A x \in 1..n : FALSE
      BY <2>2
    <3> QED BY <2>2, <3>1
  <2> QED BY <2>1, <2>2
<1> QED BY <1>1, <1>2 DEF Plan

(* A jobs option is a natural number. *)
LEMMA JobsIsNat == \A j \in 0..MaxJobs : j \in Nat
  OBVIOUS

(* The cap is fixed for the whole run. *)
LEMMA WorkersKept ==
  ASSUME TypeOK, jobs' = jobs
  PROVE  Workers' = Workers /\ Workers \in Nat
<1>1. jobs \in Nat
  BY JobsIsNat DEF TypeOK
<1>2. Workers' = Workers
  BY DEF Workers, CheckParallelism
<1> QED BY <1>1, <1>2, CapOfWorkers

(***************************************************************************)
(* The inductive invariant.  The slots channel holds exactly the checks at *)
(* work, so its capacity is the cap; a closed done channel is that of a    *)
(* check that ended; and nothing starts before what it has to wait for.    *)
(***************************************************************************)
SlotsExact == slots = Working
DoneEnded == \A i \in done : pc[i] = "ended"
WaitedFor == \A i \in Plan : pc[i] # "waiting" => EarlierSharers(i) \subseteq done
StoredOnce == \A i \in Plan : pc[i] \in {"stored", "freed", "ended"} => result[i] \in Statuses
ReportMade == report # "" => AllEnded /\ report = ReportStatus(result)

SchedulerInv ==
  /\ TypeOK /\ SlotsExact /\ DoneEnded /\ WaitedFor /\ StoredOnce /\ ReportMade
  /\ Cardinality(slots) <= Workers

(* Nothing has started at first. *)
LEMMA SchedulerInit == Init => SchedulerInv
<1> SUFFICES ASSUME Init PROVE SchedulerInv
  OBVIOUS
<1> USE DEF Init
<1>1. TypeOK
  BY DEF TypeOK
<1>2. SlotsExact /\ DoneEnded /\ WaitedFor /\ StoredOnce /\ ReportMade
  BY DEF SlotsExact, Working, DoneEnded, WaitedFor, StoredOnce, ReportMade
<1>3. Cardinality(slots) <= Workers
  <2>1. jobs \in Nat
    BY JobsIsNat
  <2>2. Cardinality(slots) = 0
    BY FS_EmptySet
  <2>3. Workers \in Nat
    BY <2>1, CapOfWorkers
  <2> HIDE DEF Init
  <2> QED BY <2>2, <2>3
<1> QED BY <1>1, <1>2, <1>3 DEF SchedulerInv

(* A goroutine takes a slot only if one is free. *)
LEMMA StartKeeps ==
  ASSUME SchedulerInv, NEW i \in Plan, Start(i) PROVE SchedulerInv'
<1> USE DEF SchedulerInv, Start, Goto
<1>1. TypeOK'
  BY DEF TypeOK
<1>2. SlotsExact'
  BY DEF TypeOK, SlotsExact, Working
<1>3. DoneEnded' /\ WaitedFor' /\ StoredOnce' /\ ReportMade'
  BY DEF TypeOK, DoneEnded, WaitedFor, StoredOnce, ReportMade, EarlierSharers,
         SharedPreparation, AllEnded
<1>4. Cardinality(slots') <= Workers'
  <2>1. IsFiniteSet(slots)
    BY PlanIsFinite DEF TypeOK
  <2>2. IsFiniteSet(slots) /\ i \notin slots
    BY <2>1 DEF SlotsExact, Working
  <2>3. Cardinality(slots') = Cardinality(slots) + 1 /\ Cardinality(slots) \in Nat
    BY <2>2, FS_AddElement, FS_CardinalityType
  <2>4. Workers \in Nat /\ Workers' = Workers
    BY WorkersKept
  <2> QED BY <2>3, <2>4
<1> QED BY <1>1, <1>2, <1>3, <1>4

(* executeCheck and the result it stores leave the slots as they are. *)
LEMMA ExecuteKeeps ==
  ASSUME SchedulerInv, NEW i \in Plan, Refuse(i) \/ Begin(i) \/ Return(i)
  PROVE  SchedulerInv'
<1> USE DEF SchedulerInv
<1>1. /\ pc[i] \in {"running", "executing"}
      /\ \E p \in {"executing", "stored"} : Goto(i, p) /\ (p = "executing" => UNCHANGED result)
      /\ (UNCHANGED result \/ \E s \in Statuses : Store(i, s))
      /\ UNCHANGED <<preparation, jobs, slots, done, cancelled, report>>
  BY DEF Refuse, Begin, Return, Statuses, Goto
<1>2. TypeOK'
  BY <1>1 DEF TypeOK, Goto, Store
<1>3. SlotsExact' /\ DoneEnded' /\ WaitedFor'
  BY <1>1 DEF TypeOK, SlotsExact, Working, DoneEnded, WaitedFor, EarlierSharers,
              SharedPreparation, Goto
<1>4. StoredOnce'
  BY DEF TypeOK, StoredOnce, Refuse, Begin, Return, Goto, Store, Statuses
<1>5. ReportMade'
  BY <1>1 DEF TypeOK, ReportMade, AllEnded
<1>6. Cardinality(slots') <= Workers'
  BY <1>1 DEF Workers
<1> QED BY <1>2, <1>3, <1>4, <1>5, <1>6

(* The deferred calls: the slot is freed before the done channel closes. *)
LEMMA EndKeeps ==
  ASSUME SchedulerInv, NEW i \in Plan, FreeSlot(i) \/ CloseDone(i) PROVE SchedulerInv'
<1> USE DEF SchedulerInv, FreeSlot, CloseDone, Goto
<1>1. TypeOK'
  BY DEF TypeOK
<1>2. SlotsExact' /\ DoneEnded' /\ StoredOnce'
  BY DEF TypeOK, SlotsExact, Working, DoneEnded, StoredOnce
<1>3. WaitedFor' /\ ReportMade'
  BY DEF TypeOK, WaitedFor, ReportMade, EarlierSharers, SharedPreparation, AllEnded
<1>4. Cardinality(slots') <= Workers'
  <2>1. IsFiniteSet(slots) /\ slots' \subseteq slots
    BY PlanIsFinite DEF TypeOK
  <2>2. Cardinality(slots') <= Cardinality(slots) /\ Cardinality(slots) \in Nat
        /\ Cardinality(slots') \in Nat
    BY <2>1, FS_Subset, FS_CardinalityType
  <2>3. Workers \in Nat /\ Workers' = Workers
    BY WorkersKept
  <2> QED BY <2>2, <2>3
<1> QED BY <1>1, <1>2, <1>3, <1>4

(* The report is made when nothing can change any more. *)
LEMMA SchedulerStep == SchedulerInv /\ [Next]_vars => SchedulerInv'
<1> SUFFICES ASSUME SchedulerInv, [Next]_vars PROVE SchedulerInv'
  OBVIOUS
<1>1. ASSUME NEW i \in Plan,
             Start(i) \/ Refuse(i) \/ Begin(i) \/ Return(i) \/ FreeSlot(i) \/ CloseDone(i)
      PROVE  SchedulerInv'
  BY <1>1, StartKeeps, ExecuteKeeps, EndKeeps
<1> USE DEF SchedulerInv, SlotsExact, Working, DoneEnded, WaitedFor, StoredOnce, ReportMade,
            EarlierSharers, SharedPreparation, AllEnded, Workers
<1>2. CASE Report
  <2>1. ReportStatus(result) \in {"passed", "failed", "incomplete"}
    BY DEF ReportStatus
  <2> QED BY <1>2, <2>1 DEF Report, TypeOK, ReportStatus
<1>3. CASE Cancel
  BY <1>3 DEF Cancel, TypeOK
<1>4. CASE Returned \/ UNCHANGED vars
  BY <1>4 DEF Returned, vars, TypeOK
<1> QED BY <1>1, <1>2, <1>3, <1>4 DEF Next

(* So the invariant holds throughout every run. *)
LEMMA SchedulerAlways == Spec => []SchedulerInv
  BY SchedulerInit, SchedulerStep, PTL DEF Spec

(***************************************************************************)
(* Type correctness: every variable of the session keeps its shape.        *)
(***************************************************************************)
THEOREM SchedulerTypeCorrect == Spec => []TypeOK
<1>1. SchedulerInv => TypeOK
  BY DEF SchedulerInv
<1> QED BY <1>1, SchedulerAlways, PTL

(***************************************************************************)
(* run.go:62-82: no run has more checks at work than its cap.              *)
(***************************************************************************)
THEOREM CapIsKept == Spec => []WithinCap
<1>1. SchedulerInv => WithinCap
  <2> SUFFICES ASSUME SchedulerInv PROVE WithinCap
    OBVIOUS
  <2>1. IsFiniteSet(slots)
    BY PlanIsFinite DEF SchedulerInv, TypeOK
  <2>2. Cardinality(Working) \in Nat /\ Cardinality(Working) <= Workers /\ jobs \in Nat
    BY <2>1, FS_CardinalityType, JobsIsNat DEF SchedulerInv, SlotsExact, TypeOK
  <2>3. Max({N, 1}) \in Nat
    BY MaxOfTwo
  <2> QED BY <2>2, <2>3, CapOfWorkers DEF WithinCap, MaxCheckParallelism
<1> QED BY <1>1, SchedulerAlways, PTL

(***************************************************************************)
(* run.go:85-88, 116-120: a check starts after every earlier check with    *)
(* its preparation has ended, however the goroutines are scheduled.        *)
(***************************************************************************)
THEOREM SharersAreOrdered == Spec => []SharersInPlanOrder
<1>1. SchedulerInv => SharersInPlanOrder
  <2> SUFFICES ASSUME SchedulerInv, NEW i \in Plan, NEW j \in Plan, j < i,
                      preparation[i] = preparation[j], preparation[i] # NoPreparation,
                      pc[i] # "waiting"
               PROVE  pc[j] = "ended"
    BY DEF SharersInPlanOrder
  <2>1. j \in EarlierSharers(i)
    BY DEF EarlierSharers, SharedPreparation, Plan
  <2> QED BY <2>1 DEF SchedulerInv, WaitedFor, DoneEnded
<1> QED BY <1>1, SchedulerAlways, PTL

(***************************************************************************)
(* report.go:80-92: the report is passed exactly when there were checks    *)
(* and all of them had passed when it was made.                            *)
(***************************************************************************)
THEOREM ReportIsFinal == Spec => []ReportFinal
<1>1. SchedulerInv => ReportFinal
  <2> SUFFICES ASSUME SchedulerInv, report # ""
               PROVE  /\ \A i \in Plan : pc[i] = "ended" /\ result[i] \in Statuses
                      /\ report = "passed" <=> N > 0 /\ \A i \in Plan : result[i] = "passed"
    BY DEF ReportFinal
  <2>1. \A i \in Plan : pc[i] = "ended" /\ result[i] \in Statuses
    BY DEF SchedulerInv, ReportMade, AllEnded, StoredOnce
  <2>2. DOMAIN result = Plan
    BY DEF SchedulerInv, TypeOK
  <2>3. Plan = {} <=> ~(N > 0)
    BY EmptyPlan
  <2> QED BY <2>1, <2>2, <2>3 DEF SchedulerInv, ReportMade, ReportStatus
<1> QED BY <1>1, SchedulerAlways, PTL
===============================================================================
