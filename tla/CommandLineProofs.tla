--------------------------- MODULE CommandLineProofs ---------------------------
(***************************************************************************)
(* The verify command, for any configurations, baseline files and debts,   *)
(* any number of terminals and of invocations.                             *)
(***************************************************************************)
EXTENDS CommandLine, FiniteSetTheorems, WellFoundedInduction, TLAPS

-------------------------------------------------------------------------------
(* Sequences and functions that are defined step by step. *)

(* Of natural numbers there is a least one. *)
LEMMA LeastNat ==
  ASSUME NEW T, T \subseteq Nat, T # {}
  PROVE  \E n \in T : \A m \in T : n <= m
<1>1. PICK n \in T : \A m \in T : <<m, n>> \notin OpToRel(<, Nat)
  BY WFMin, NatLessThanWellFounded, Zenon
<1>2. ASSUME NEW m \in T PROVE n <= m
  <2>1. m \in Nat /\ n \in Nat
    OBVIOUS
  <2>2. ~(m < n)
    BY <1>1, <2>1 DEF OpToRel
  <2> QED BY <2>1, <2>2
<1> QED BY <1>2

(* Induction, for a set in place of a predicate. *)
LEMMA NatAll ==
  ASSUME NEW T, 0 \in T, \A n \in Nat : n \in T => n + 1 \in T
  PROVE  Nat \subseteq T
<1> SUFFICES ASSUME Nat \ T # {} PROVE FALSE
  OBVIOUS
<1>1. PICK n \in Nat \ T : \A m \in Nat \ T : n <= m
  BY LeastNat
<1>2. n # 0 /\ n - 1 \in Nat
  BY <1>1
<1>3. n - 1 \in T
  BY <1>1, <1>2
<1> QED BY <1>1, <1>2, <1>3

(* A function on 0..N with values in D, given by its first value and steps. *)
Steps(D, N) == [1..N -> [D -> D]]
Stepwise(g, D, N, base, step) ==
  g \in [0..N -> D] /\ g[0] = base /\ \A i \in 1..N : g[i] = step[i][g[i - 1]]

(***************************************************************************)
(* A function that is defined on 0..N by its first value and, for each of  *)
(* the others, by the one before exists.                                   *)
(***************************************************************************)
LEMMA StepwiseExists ==
  ASSUME NEW D, NEW N \in Nat, NEW base \in D, NEW step \in Steps(D, N)
  PROVE  \E g : Stepwise(g, D, N, base, step)
<1> USE DEF Steps
<1> DEFINE Upto(n) ==
      {g \in [0..n -> D] : g[0] = base /\ \A i \in 1..n : g[i] = step[i][g[i - 1]]}
           Reached == {n \in Nat : n <= N => Upto(n) # {}}
<1>1. 0 \in Reached
  <2>1. [i \in 0..0 |-> base] \in Upto(0)
    OBVIOUS
  <2> QED BY <2>1
<1>2. ASSUME NEW n \in Nat, n \in Reached PROVE n + 1 \in Reached
  <2> SUFFICES ASSUME n + 1 <= N PROVE Upto(n + 1) # {}
    OBVIOUS
  <2>1. PICK g \in Upto(n) : TRUE
    BY <1>2
  <2>2. /\ g \in [0..n -> D] /\ g[0] = base
        /\ \A i \in 1..n : g[i] = step[i][g[i - 1]]
    BY <2>1
  <2> HIDE DEF Upto
  <2> DEFINE h == [i \in 0..n + 1 |-> IF i = n + 1 THEN step[n + 1][g[n]] ELSE g[i]]
  <2>3. step[n + 1][g[n]] \in D
    BY <2>2
  <2>4. /\ h \in [0..n + 1 -> D]
        /\ h[n + 1] = step[n + 1][g[n]]
        /\ \A i \in 0..n : h[i] = g[i]
    BY <2>2, <2>3
  <2> HIDE DEF h
  <2>5. \A i \in 1..n + 1 : h[i] = step[i][h[i - 1]]
    <3> TAKE i \in 1..n + 1
    <3>1. CASE i = n + 1
      BY <2>4, <3>1
    <3>2. CASE i # n + 1
      BY <2>2, <2>4, <3>2
    <3> QED BY <3>1, <3>2
  <2>6. h[0] = base
    BY <2>2, <2>4
  <2>7. h \in Upto(n + 1)
    BY <2>4, <2>5, <2>6 DEF Upto
  <2> QED BY <2>7
<1> HIDE DEF Reached
<1>3. Nat \subseteq Reached
  BY <1>1, <1>2, NatAll
<1>4. Upto(N) # {}
  BY <1>3 DEF Reached
<1> QED BY <1>4 DEF Stepwise

(* Appending to a sequence makes a sequence. *)
LEMMA FlattenIsSeq ==
  ASSUME NEW D, NEW S, D = Seq(S), NEW last \in Nat, NEW seqs,
         seqs = [i \in 1..last |-> seqs[i]], \A i \in 1..last : seqs[i] \in D
  PROVE  FlattenSeq(seqs) \in D
<1>1. last \in Nat /\ \A i \in 1..last : seqs[i] \in D
  OBVIOUS
<1>2. CASE last = 0
  <2>1. seqs = <<>>
    BY <1>2
  <2> QED BY <1>2, <2>1 DEF FlattenSeq
<1>3. CASE last # 0
  <2> DEFINE Row(g) == [i \in 1..last |-> IF i = 1 THEN seqs[i] ELSE g[i-1] \o seqs[i]]
             flat == CHOOSE g : g = Row(g)
  <2>1. FlattenSeq(seqs) = flat[last]
    <3>1. Len(seqs) = last
      OBVIOUS
    <3> QED BY <1>3, <3>1 DEF FlattenSeq
  <2> DEFINE step == [i \in 1..last - 1 |-> [s \in D |-> s \o seqs[i + 1]]]
  <2>2. last - 1 \in Nat
    BY <1>1, <1>3
  <2>3. step \in [1..last - 1 -> [D -> D]]
    <3>1. ASSUME NEW i \in 1..last - 1, NEW s \in D PROVE s \o seqs[i + 1] \in D
      <4>1. i + 1 \in 1..last
        BY <1>1
      <4>2. seqs[i + 1] \in D
        BY <1>1, <4>1
      <4> QED BY <4>2
    <3> QED BY <3>1
  <2>4. PICK g \in [0..last - 1 -> D] :
          g[0] = seqs[1] /\ \A i \in 1..last - 1 : g[i] = step[i][g[i - 1]]
    <3>1. seqs[1] \in D
      BY <1>1, <1>3
    <3> DEFINE N == last - 1
    <3>2. N \in Nat /\ step \in Steps(D, N)
      BY <2>2, <2>3 DEF Steps
    <3> HIDE DEF step, N
    <3>3. \E g : Stepwise(g, D, N, seqs[1], step)
      BY <3>1, <3>2, StepwiseExists
    <3> QED BY <3>3 DEF Stepwise, N
  <2>5. \A i \in 1..last - 1 : g[i] = g[i - 1] \o seqs[i + 1]
    <3> TAKE i \in 1..last - 1
    <3>1. g[i - 1] \in D
      BY <2>2, <2>4
    <3> QED BY <2>4, <3>1
  <2> HIDE DEF step
  <2> DEFINE h == [i \in 1..last |-> g[i - 1]]
  <2>6. h = Row(h)
    <3>1. ASSUME NEW i \in 1..last PROVE h[i] = IF i = 1 THEN seqs[i] ELSE h[i-1] \o seqs[i]
      <4>1. CASE i = 1
        BY <2>4, <4>1
      <4>2. CASE i # 1
        <5>1. i - 1 \in 1..last - 1 /\ i - 1 \in 1..last /\ i - 1 + 1 = i
          BY <1>1, <4>2
        <5>2. h[i] = g[i - 1] /\ h[i - 1] = g[i - 1 - 1]
          BY <5>1
        <5>3. g[i - 1] = g[i - 1 - 1] \o seqs[i - 1 + 1]
          BY <2>5, <5>1
        <5> QED BY <4>2, <5>1, <5>2, <5>3
      <4> QED BY <4>1, <4>2
    <3> QED BY <3>1
  <2>7. flat = Row(flat)
    <3> HIDE DEF Row, h
    <3> QED BY <2>6
  <2> HIDE DEF flat
  <2>8. \A i \in 1..last : flat[i] = IF i = 1 THEN seqs[i] ELSE flat[i-1] \o seqs[i]
    <3> DEFINE row == Row(flat)
    <3>1. \A i \in 1..last : row[i] = IF i = 1 THEN seqs[i] ELSE flat[i-1] \o seqs[i]
      OBVIOUS
    <3> HIDE DEF row
    <3> QED BY <2>7, <3>1 DEF row
  <2> DEFINE T == {n \in Nat : n + 1 <= last => flat[n + 1] \in D}
  <2>9. 0 \in T
    BY <1>1, <1>3, <2>8
  <2>10. ASSUME NEW n \in Nat, n \in T PROVE n + 1 \in T
    <3> SUFFICES ASSUME n + 1 + 1 <= last PROVE flat[n + 1 + 1] \in D
      OBVIOUS
    <3>1. /\ n + 1 + 1 \in 1..last /\ n + 1 + 1 # 1 /\ n + 1 + 1 - 1 = n + 1
          /\ n + 1 <= last
      BY <1>1
    <3>2. flat[n + 1] \in D /\ seqs[n + 1 + 1] \in D
      BY <1>1, <2>10, <3>1
    <3>3. \A i \in 1..last : i # 1 => flat[i] = flat[i-1] \o seqs[i]
      BY <2>8
    <3>4. PICK m \in 1..last : m = n + 1 + 1
      BY <3>1
    <3>5. m # 1 /\ m - 1 = n + 1
      BY <3>4
    <3>6. flat[m] = flat[m - 1] \o seqs[m]
      BY <3>3, <3>5, Zenon
    <3> QED BY <3>2, <3>4, <3>5, <3>6
  <2> HIDE DEF T
  <2>11. last - 1 \in T
    BY <2>2, <2>9, <2>10, NatAll
  <2>12. flat[last] \in D
    <3>1. last - 1 + 1 = last
      BY <1>1
    <3> QED BY <1>1, <2>11, <3>1 DEF T
  <2> QED BY <2>1, <2>12
<1> QED BY <1>2, <1>3

-------------------------------------------------------------------------------
(***************************************************************************)
(* Every job has the fields of a job.  A command that runs has the plan    *)
(* that its configuration and its references make, and what it found is of *)
(* that plan and of one state of the source.                               *)
(***************************************************************************)
IsJob(j) ==
  DOMAIN j = {"phase", "flags", "request", "cfg", "plan", "loaded", "results", "seen", "code"}

Started(j) == j.phase \in {"running", "finished"}

JobsHold == job = [u \in Users |-> job[u]] /\ \A u \in Users : IsJob(job[u])
CfgHeld == cfg \in Configs \cup Drafts
PlanHeld ==
  \A u \in Users : LET j == job[u] IN
    /\ j.phase # "idle" => j.request \in Requests
    /\ Started(j) =>
         /\ j.cfg \in Configs \cup Drafts
         /\ j.plan = Plan(j.cfg, j.request.refs, j.request.rerun) /\ j.plan # <<>>

JobInv == JobsHold /\ CfgHeld /\ PlanHeld

(* At the start no command runs. *)
LEMMA JobInvInit ==
  ASSUME Init PROVE JobInv
<1>1. \A u \in Users : job[u] = Idle
  BY DEF Init
<1>2. IsJob(Idle) /\ ~Started(Idle) /\ Idle.phase = "idle"
  BY DEF IsJob, Idle, Started
<1>3. JobsHold
  BY <1>1, <1>2 DEF Init, JobsHold
<1> QED BY <1>1, <1>2, <1>3 DEF Init, JobInv, CfgHeld, PlanHeld

(* A command that ends leaves its terminal idle. *)
LEMMA ExitIdles ==
  ASSUME JobsHold, NEW u \in Users, NEW n, Exit(u, n)
  PROVE  /\ job'[u] = [Idle EXCEPT !.code = n] /\ IsJob(job'[u]) /\ ~Started(job'[u])
         /\ job'[u].phase = "idle" /\ job'[u].code = n
         /\ \A v \in Users \ {u} : job'[v] = job[v]
         /\ job' = [v \in Users |-> job'[v]]
<1>1. /\ job'[u] = [Idle EXCEPT !.code = n]
      /\ \A v \in Users \ {u} : job'[v] = job[v]
      /\ job' = [v \in Users |-> job'[v]]
  BY DEF JobsHold, Exit
<1>2. IsJob([Idle EXCEPT !.code = n]) /\ ~Started([Idle EXCEPT !.code = n])
  BY DEF IsJob, Idle, Started
<1> QED BY <1>1, <1>2 DEF Idle

(* What each step makes of the job of the terminal that takes it. *)
LEMMA InvokeJob ==
  ASSUME JobsHold, NEW u \in Users, Invoke(u)
  PROVE  /\ job[u].phase = "idle" /\ IsJob(job'[u]) /\ ~Started(job'[u])
         /\ job'[u].phase # "idle" => job'[u].request \in Requests
         /\ \A v \in Users \ {u} : job'[v] = job[v]
         /\ job' = [v \in Users |-> job'[v]]
         /\ UNCHANGED <<cfg, debt, file>>
<1>1. job[u].phase = "idle" /\ UNCHANGED <<cfg, debt, file>>
  BY DEF Invoke
<1>2. PICK flags \in FlagSets, request \in Requests :
        \/ \E n : Exit(u, n)
        \/ job' = [job EXCEPT ![u] = [Idle EXCEPT !.phase = "parsed", !.flags = flags,
                                                  !.request = request]]
  BY Zenon DEF Invoke
<1>3. CASE \E n : Exit(u, n)
  BY <1>1, <1>3, ExitIdles
<1>4. CASE job' = [job EXCEPT ![u] = [Idle EXCEPT !.phase = "parsed", !.flags = flags,
                                                 !.request = request]]
  <2> DEFINE j == [Idle EXCEPT !.phase = "parsed", !.flags = flags, !.request = request]
  <2>1. IsJob(j) /\ ~Started(j) /\ j.request = request
    BY DEF IsJob, Idle, Started
  <2>2. /\ job'[u] = j
        /\ \A v \in Users \ {u} : job'[v] = job[v]
        /\ job' = [v \in Users |-> job'[v]]
    BY <1>4 DEF JobsHold
  <2> HIDE DEF j
  <2> QED BY <1>1, <2>1, <2>2
<1> QED BY <1>2, <1>3, <1>4

(* A command whose planning refuses nothing starts with its plan. *)
LEMMA PrepareJob ==
  ASSUME JobsHold, NEW u \in Users, Prepare(u)
  PROVE  LET j == job[u]
             plan == Plan(cfg, j.request.refs, j.request.rerun)
             reads == Applies([j EXCEPT !.cfg = cfg]) \/ "write" \in j.flags
         IN /\ j.phase = "parsed" /\ UNCHANGED <<cfg, debt, file>>
            /\ \A v \in Users \ {u} : job'[v] = job[v]
            /\ job' = [v \in Users |-> job'[v]]
            /\ IsJob(job'[u])
            /\ \/ job'[u].phase = "idle"
               \/ /\ job'[u] = [j EXCEPT !.phase = "running", !.cfg = cfg, !.plan = plan,
                                          !.loaded = IF reads THEN file ELSE <<>>]
                  /\ job'[u].phase = "running" /\ job'[u].cfg = cfg /\ job'[u].plan = plan
                  /\ job'[u].loaded = (IF reads THEN file ELSE <<>>)
                  /\ job'[u].flags = j.flags /\ job'[u].request = j.request
                  /\ plan # <<>>
                  /\ reads => file # Malformed
<1> DEFINE j == job[u]
           plan == Plan(cfg, j.request.refs, j.request.rerun)
           reads == Applies([j EXCEPT !.cfg = cfg]) \/ "write" \in j.flags
           lent == IF reads THEN file ELSE <<>>
           started == [j EXCEPT !.phase = "running", !.cfg = cfg, !.plan = plan,
                                !.loaded = lent]
<1>1. j.phase = "parsed" /\ UNCHANGED <<cfg, debt, file>>
  BY DEF Prepare
<1>2. \/ \E n : Exit(u, n)
      \/ /\ job' = [job EXCEPT ![u] = started] /\ plan # <<>>
         /\ reads => file # Malformed
  BY Zenon DEF Prepare
<1>3. CASE \E n : Exit(u, n)
  <2>1. PICK n : Exit(u, n)
    BY <1>3
  <2> QED BY <1>1, <2>1, ExitIdles
<1>4. CASE job' = [job EXCEPT ![u] = started] /\ plan # <<>> /\ (reads => file # Malformed)
  <2> HIDE DEF plan, reads, lent
  <2>1. /\ job'[u] = started
        /\ \A v \in Users \ {u} : job'[v] = job[v]
        /\ job' = [v \in Users |-> job'[v]]
    BY <1>4 DEF JobsHold
  <2>2. IsJob(j)
    BY DEF JobsHold
  <2>3. /\ IsJob(started) /\ started.phase = "running" /\ started.cfg = cfg
        /\ started.plan = plan /\ started.loaded = lent /\ started.flags = j.flags
        /\ started.request = j.request
    BY <2>2 DEF IsJob
  <2> HIDE DEF started, j
  <2>4. /\ j.phase = "parsed" /\ UNCHANGED <<cfg, debt, file>>
        /\ \A v \in Users \ {u} : job'[v] = job[v]
        /\ job' = [v \in Users |-> job'[v]]
        /\ IsJob(job'[u])
        /\ job'[u] = started
        /\ job'[u].phase = "running" /\ job'[u].cfg = cfg /\ job'[u].plan = plan
        /\ job'[u].loaded = lent
        /\ job'[u].flags = j.flags /\ job'[u].request = j.request
        /\ plan # <<>> /\ (reads => file # Malformed)
    BY <1>1, <1>4, <2>1, <2>3
  <2> QED BY <2>4 DEF started, lent, j, plan, reads
<1> QED BY <1>2, <1>3, <1>4

(* A run leaves its results, and its plan as it was. *)
LEMMA ExecuteJob ==
  ASSUME JobsHold, NEW u \in Users, Execute(u)
  PROVE  LET j == job[u]
         IN /\ j.phase = "running" /\ UNCHANGED <<cfg, debt, file>>
            /\ \A v \in Users \ {u} : job'[v] = job[v]
            /\ job' = [v \in Users |-> job'[v]]
            /\ IsJob(job'[u]) /\ job'[u].phase = "finished" /\ job'[u].seen = debt
            /\ job'[u].flags = j.flags /\ job'[u].request = j.request /\ job'[u].cfg = j.cfg
            /\ job'[u].plan = j.plan /\ job'[u].loaded = j.loaded
            /\ \E ended \in {"error", "cancelled"}, stuck \in SUBSET DOMAIN j.plan :
                 job'[u].results =
                   [i \in DOMAIN j.plan |->
                      ResultOf(j.plan[i], IF Refused(j.plan[i]) THEN "error"
                                          ELSE IF i \in stuck THEN ended ELSE "completed")]
<1> DEFINE j == job[u]
           ResultsOf(ended, stuck) ==
             [i \in DOMAIN j.plan |->
                ResultOf(j.plan[i], IF Refused(j.plan[i]) THEN "error"
                                    ELSE IF i \in stuck THEN ended ELSE "completed")]
<1>1. j.phase = "running" /\ UNCHANGED <<cfg, debt, file>>
  BY DEF Execute
<1>2. PICK ended \in {"error", "cancelled"}, stuck \in SUBSET DOMAIN j.plan :
        job' = [job EXCEPT ![u].phase = "finished", ![u].seen = debt,
                           ![u].results = ResultsOf(ended, stuck)]
  BY DEF Execute
<1> HIDE DEF ResultsOf
<1>3. IsJob(j)
  BY DEF JobsHold
<1>4. job'[u] = [j EXCEPT !.phase = "finished", !.seen = debt, !.results = ResultsOf(ended, stuck)]
  BY <1>2 DEF JobsHold
<1>5. /\ \A v \in Users \ {u} : job'[v] = job[v]
      /\ job' = [v \in Users |-> job'[v]]
  BY <1>2 DEF JobsHold
<1> HIDE DEF j
<1>6. /\ IsJob(job'[u]) /\ job'[u].phase = "finished" /\ job'[u].seen = debt
      /\ job'[u].flags = j.flags /\ job'[u].request = j.request /\ job'[u].cfg = j.cfg
      /\ job'[u].plan = j.plan /\ job'[u].loaded = j.loaded
      /\ job'[u].results = ResultsOf(ended, stuck)
  BY <1>3, <1>4 DEF IsJob
<1> QED BY <1>1, <1>5, <1>6 DEF ResultsOf, j

(* A command that ends may have recorded what it found. *)
LEMMA FinishJob ==
  ASSUME JobsHold, NEW u \in Users, Finish(u)
  PROVE  LET j == job[u]
             records == "write" \in j.flags /\ Recordable(j.results)
         IN /\ j.phase = "finished" /\ UNCHANGED <<cfg, debt>>
            /\ \A v \in Users \ {u} : job'[v] = job[v]
            /\ job' = [v \in Users |-> job'[v]]
            /\ IsJob(job'[u]) /\ job'[u].phase = "idle"
            /\ job'[u].code = 0 =>
                 IF "write" \in j.flags THEN records ELSE ReportOf(j).status = "passed"
            /\ job'[u].code = 0 \/ file' # file =>
                 file' = IF records THEN Record(j.loaded, j.cfg, j.plan, j.results) ELSE file
<1> DEFINE j == job[u]
           records == "write" \in j.flags /\ Recordable(j.results)
           passes == IF "write" \in j.flags THEN records ELSE ReportOf(j).status = "passed"
<1>1. /\ j.phase = "finished" /\ UNCHANGED <<cfg, debt>>
      /\ \/ /\ Exit(u, IF passes THEN 0 ELSE 1)
            /\ file' = IF records THEN Record(j.loaded, j.cfg, j.plan, j.results) ELSE file
         \/ Exit(u, 2) /\ file' = file
  BY DEF Finish
<1> HIDE DEF passes, records
<1>2. /\ IsJob(job'[u]) /\ job'[u].phase = "idle"
      /\ \/ /\ job'[u].code = IF passes THEN 0 ELSE 1
            /\ file' = IF records THEN Record(j.loaded, j.cfg, j.plan, j.results) ELSE file
         \/ job'[u].code = 2 /\ file' = file
      /\ \A v \in Users \ {u} : job'[v] = job[v]
      /\ job' = [v \in Users |-> job'[v]]
  BY <1>1, ExitIdles
<1>3. job'[u].code = 0 => passes
  BY <1>2
<1> QED BY <1>1, <1>2, <1>3 DEF passes, records

(* Every step is one of a terminal, or an edit that no job notices. *)
LEMMA StepsOfJobs ==
  ASSUME [Next]_vars
  PROVE  \/ \E u \in Users : Invoke(u) \/ Prepare(u) \/ Execute(u) \/ Finish(u)
         \/ EditSource /\ UNCHANGED <<cfg, file, job>>
         \/ EditFiles /\ UNCHANGED <<debt, job>>
         \/ UNCHANGED <<cfg, debt, file, job>>
BY DEF Next, vars, EditSource, EditFiles

(* Jobs keep their shape, and a command that runs keeps its plan. *)
LEMMA JobInvStep ==
  ASSUME JobInv, [Next]_vars PROVE JobInv'
<1>1. ASSUME NEW u \in Users, \A v \in Users \ {u} : job'[v] = job[v],
             job' = [v \in Users |-> job'[v]], IsJob(job'[u]), cfg' = cfg,
             job'[u].phase # "idle" => job'[u].request \in Requests,
             LET j == job'[u] IN Started(j) =>
               /\ j.cfg \in Configs \cup Drafts
               /\ j.plan = Plan(j.cfg, j.request.refs, j.request.rerun) /\ j.plan # <<>>
      PROVE  JobInv'
  <2>1. JobsHold' /\ CfgHeld'
    BY <1>1 DEF JobInv, JobsHold, CfgHeld
  <2>2. PlanHeld'
    BY <1>1 DEF JobInv, PlanHeld
  <2> QED BY <2>1, <2>2 DEF JobInv
<1>2. ASSUME NEW u \in Users, Invoke(u) PROVE JobInv'
  BY <1>1, <1>2, InvokeJob DEF JobInv
<1>3. ASSUME NEW u \in Users, Prepare(u) PROVE JobInv'
  <2>1. CASE job'[u].phase = "idle"
    BY <1>1, <1>3, <2>1, PrepareJob DEF JobInv, Started
  <2>2. CASE job'[u].phase # "idle"
    <3>1. /\ job'[u].cfg = cfg /\ job'[u].request = job[u].request
          /\ job'[u].plan = Plan(cfg, job[u].request.refs, job[u].request.rerun)
          /\ job'[u].plan # <<>>
      BY <1>3, <2>2, PrepareJob DEF JobInv
    <3>2. /\ \A v \in Users \ {u} : job'[v] = job[v]
          /\ job' = [v \in Users |-> job'[v]] /\ IsJob(job'[u]) /\ cfg' = cfg
      BY <1>3, PrepareJob DEF JobInv
    <3>3. cfg \in Configs \cup Drafts
      BY DEF JobInv, CfgHeld
    <3>4. job[u].request \in Requests
      BY <1>3, PrepareJob DEF JobInv, PlanHeld
    <3> QED BY <1>1, <3>1, <3>2, <3>3, <3>4
  <2> QED BY <2>1, <2>2
<1>4. ASSUME NEW u \in Users, Execute(u) PROVE JobInv'
  <2>1. Started(job[u]) /\ Started(job'[u])
    BY <1>4, ExecuteJob DEF JobInv, Started
  <2> QED BY <1>1, <1>4, <2>1, ExecuteJob DEF JobInv, PlanHeld
<1>5. ASSUME NEW u \in Users, Finish(u) PROVE JobInv'
  <2>1. ~Started(job'[u])
    BY <1>5, FinishJob DEF JobInv, Started
  <2> QED BY <1>1, <1>5, <2>1, FinishJob DEF JobInv
<1>6. CASE job' = job /\ cfg' \in Configs \cup Drafts
  BY <1>6 DEF JobInv, JobsHold, CfgHeld, PlanHeld
<1> QED BY <1>2, <1>3, <1>4, <1>5, <1>6, StepsOfJobs DEF JobInv, CfgHeld, EditFiles

(***************************************************************************)
(* plan.go: what planning accepts, the executor of each planned check      *)
(* accepts too, a fresh run has what makes its commands fresh, and version *)
(* 2 plans no rule modules that would be left out.                         *)
(***************************************************************************)
LEMMA PlanAccepts ==
  ASSUME NEW c, NEW refs, NEW rerun, Plan(c, refs, rerun) # <<>>,
         NEW i \in DOMAIN Plan(c, refs, rerun)
  PROVE  LET p == Plan(c, refs, rerun)[i]
         IN /\ ~Refused(p)
            /\ rerun /\ p.executor = "native" => RunsFresh(p)
            /\ c.version = 2 => ~SkipsModules(p)
            /\ p.dir \in {c.targets[t].dir : t \in DOMAIN c.targets}
<1> DEFINE all == FlattenSeq([n \in DOMAIN refs |-> Selections(c, refs[n])])
           s == all[i]
           d == c.checks[s.check]
           p == Plan(c, refs, rerun)[i]
<1>1. /\ Plan(c, refs, rerun) = [n \in DOMAIN all |-> PlannedCheck(c, all[n])]
      /\ \A n \in DOMAIN all : PlanCheck(c, c.checks[all[n].check], all[n].target, rerun)
  BY DEF Plan
<1> HIDE DEF all
<1>2. p = PlannedCheck(c, s) /\ PlanCheck(c, d, s.target, rerun)
  BY <1>1
<1>3. /\ p.kind = d.kind /\ p.executor = d.executor /\ p.decl = d
      /\ p.inputs = c.targets[s.target].inputs /\ p.modules = PlannedModules(c, d)
      /\ p.dir = c.targets[s.target].dir
  BY <1>2 DEF PlannedCheck
<1> HIDE DEF d, p, s
<1>4. ValidCheck(d) /\ ValidTarget(d, c.targets[s.target]) /\ s.target \in DOMAIN c.targets
  BY <1>2 DEF PlanCheck
<1>5. ~Refused(p)
  <2>1. d.kind = "go-imports" => "imports" \in d.options
    BY <1>4 DEF ValidCheck, Needs
  <2>2. CASE d.executor = "native"
    <3>1. ValidNative(d)
      BY <1>4, <2>2 DEF ValidCheck
    <3>2. d.kind = "command" => "command" \in d.options
      BY <3>1 DEF ValidNative, ValidCommand, Needs
    <3> QED BY <1>3, <2>1, <2>2, <3>1, <3>2 DEF Refused, RefusedNatively, ValidNative
  <2>3. CASE d.executor = "dagger"
    BY <1>3, <1>4, <2>1, <2>3 DEF ValidCheck, ValidDagger, ValidTarget, Refused, RefusedByDagger
  <2> QED BY <1>4, <2>2, <2>3 DEF ValidCheck
<1>6. rerun /\ p.executor = "native" => RunsFresh(p)
  BY <1>2, <1>3 DEF PlanCheck, RerunReady, RunsFresh
<1>7. c.version = 2 => ~SkipsModules(p)
  BY <1>2, <1>3 DEF PlanCheck, SkipsModules
<1>8. p.dir \in {c.targets[t].dir : t \in DOMAIN c.targets}
  BY <1>3, <1>4
<1> QED BY <1>5, <1>6, <1>7, <1>8 DEF p

(***************************************************************************)
(* plan.go against native.go and dagger.go: a run never meets a check that *)
(* its executor rejects, a fresh run runs each command's fresh variant,    *)
(* and in version 2 no check leaves its rule modules out, whatever the     *)
(* configuration file holds and whatever is referenced.                    *)
(***************************************************************************)
THEOREM PlansAreHonest == Spec => []PlanIsHonest
<1>1. Init => JobInv
  BY JobInvInit
<1>2. JobInv /\ [Next]_vars => JobInv'
  BY JobInvStep
<1>3. JobInv => PlanIsHonest
  <2> SUFFICES ASSUME JobInv, NEW u \in Users, job[u].phase \in {"running", "finished"},
                      NEW i \in DOMAIN job[u].plan
               PROVE  LET p == job[u].plan[i]
                      IN /\ ~Refused(p)
                         /\ job[u].request.rerun /\ p.executor = "native" => RunsFresh(p)
                         /\ job[u].cfg.version = 2 => ~SkipsModules(p)
    BY DEF PlanIsHonest
  <2>1. /\ job[u].plan = Plan(job[u].cfg, job[u].request.refs, job[u].request.rerun)
        /\ job[u].plan # <<>>
    BY DEF JobInv, PlanHeld, Started
  <2> QED BY <2>1, PlanAccepts
<1> QED BY <1>1, <1>2, <1>3, PTL DEF Spec

-------------------------------------------------------------------------------
(***************************************************************************)
(* One terminal.  The file that a recording command has read is the file   *)
(* there is until it records: nobody edits it while a command runs.        *)
(***************************************************************************)
LoadedLast ==
  \A u \in Users : LET j == job[u] IN
    Started(j) /\ "write" \in j.flags => j.loaded = file

(* Of a single terminal, the file read is the file replaced. *)
LEMMA LoadedLastStep ==
  ASSUME JobInv, LoadedLast, [Next]_vars, \A t, u \in Users : t = u
  PROVE  LoadedLast'
<1> SUFFICES ASSUME NEW u \in Users, Started(job'[u]), "write" \in job'[u].flags
             PROVE  job'[u].loaded = file'
  BY DEF LoadedLast, Started
<1>1. CASE Invoke(u)
  BY <1>1, InvokeJob DEF JobInv
<1>2. CASE Prepare(u)
  <2>1. job'[u].phase # "idle"
    BY DEF Started
  <2>2. /\ file' = file /\ job'[u].flags = job[u].flags
        /\ job'[u].loaded = IF Applies([job[u] EXCEPT !.cfg = cfg]) \/ "write" \in job[u].flags
                            THEN file ELSE <<>>
    BY <1>2, <2>1, PrepareJob DEF JobInv
  <2> QED BY <2>2
<1>3. CASE Execute(u)
  BY <1>3, ExecuteJob DEF JobInv, LoadedLast, Started
<1>4. CASE Finish(u)
  BY <1>4, FinishJob DEF JobInv, Started
<1>5. CASE file' = file /\ job' = job
  BY <1>5 DEF LoadedLast
<1>6. CASE EditFiles
  BY <1>6 DEF EditFiles, Started
<1> QED BY <1>1, <1>2, <1>3, <1>4, <1>5, <1>6, StepsOfJobs

(* Record keeps what the run does not judge and the configuration produces. *)
LEMMA RecordKeeps ==
  ASSUME NEW b, NEW c, NEW plan, NEW results, NEW k \in DOMAIN b,
         \A i \in DOMAIN plan : ~Covers(plan[i], results[i], k),
         \E p \in ConfiguredChecks(c) : Produces(p, k)
  PROVE  LET made == Record(b, c, plan, results) IN k \in DOMAIN made /\ made[k] = b[k]
<1>1. k \notin Orphaned(b, c, plan, results) /\ Covering(plan, results, k) = {}
  BY DEF Orphaned, Covering
<1> QED BY <1>1 DEF Record

(***************************************************************************)
(* docs/configuration.md:228, baseline.go: recording a run replaces what   *)
(* it judged and nothing else, if one terminal runs the command: between   *)
(* two that overlap, the later one writes from the file as it was before.  *)
(***************************************************************************)
THEOREM RecordsKeepUnjudged ==
  ASSUME \A t, u \in Users : t = u PROVE Spec => RecordKeepsUnjudged
<1>1. Init => JobInv /\ LoadedLast
  BY JobInvInit DEF Init, LoadedLast, Started, Idle
<1>2. JobInv /\ LoadedLast /\ [Next]_vars => JobInv' /\ LoadedLast'
  BY JobInvStep, LoadedLastStep
<1> DEFINE Kept ==
      \A u \in Users : LET j == job[u] IN
        Ends(u) /\ file' # file =>
          \A k \in DOMAIN file :
             /\ \A i \in DOMAIN j.plan : ~Covers(j.plan[i], j.results[i], k)
             /\ \E p \in ConfiguredChecks(j.cfg) : Produces(p, k)
             => k \in DOMAIN file' /\ file'[k] = file[k]
<1>3. JobInv /\ LoadedLast /\ [Next]_vars => Kept
  <2> SUFFICES ASSUME JobInv, LoadedLast, [Next]_vars, NEW u \in Users,
                      Ends(u), file' # file, NEW k \in DOMAIN file,
                      \A i \in DOMAIN job[u].plan : ~Covers(job[u].plan[i], job[u].results[i], k),
                      \E p \in ConfiguredChecks(job[u].cfg) : Produces(p, k)
               PROVE  k \in DOMAIN file' /\ file'[k] = file[k]
    OBVIOUS
  <2>1. Finish(u)
    <3>1. job[u].phase = "finished" /\ job'[u].phase = "idle"
      BY DEF Ends
    <3>2. ~Invoke(u) /\ ~Prepare(u) /\ ~Execute(u)
      BY <3>1 DEF Invoke, Prepare, Execute
    <3>3. job' # job
      BY <3>1
    <3> QED BY <3>2, <3>3, StepsOfJobs
  <2>2. /\ file' = Record(job[u].loaded, job[u].cfg, job[u].plan, job[u].results)
        /\ "write" \in job[u].flags /\ job[u].phase = "finished"
    BY <2>1, FinishJob DEF JobInv
  <2>3. job[u].loaded = file
    BY <2>2 DEF LoadedLast, Started
  <2> QED BY <2>2, <2>3, RecordKeeps
<1> HIDE DEF Kept
<1>4. Spec => [][Kept]_vars
  BY <1>1, <1>2, <1>3, PTL DEF Spec
<1> QED BY <1>4 DEF Kept, RecordKeepsUnjudged

-------------------------------------------------------------------------------
(***************************************************************************)
(* A plan is a sequence: references, targets and bindings are finitely     *)
(* many.                                                                   *)
(***************************************************************************)
IsSequence(s) == \E n \in Nat : s = [i \in 1..n |-> s[i]]

(* The elements of a finite set make a sequence. *)
LEMMA SetIsSequence ==
  ASSUME NEW T, IsFiniteSet(T) PROVE IsSequence(SetToSeq(T))
<1>1. ExistsBijection(1..Cardinality(T), T) /\ Cardinality(T) \in Nat
  BY FS_CardinalityType
<1>2. PICK f \in Bijection(1..Cardinality(T), T) : TRUE
  BY <1>1 DEF ExistsBijection
<1>3. f \in [1..Cardinality(T) -> T] /\ IsInjective(f)
  BY <1>2 DEF Bijection, Injection, IsInjective
<1>4. SetToSeq(T) \in [1..Cardinality(T) -> T]
  BY <1>3 DEF SetToSeq
<1> QED BY <1>1, <1>4 DEF IsSequence

(* A configuration binds finitely many checks to targets. *)
LEMMA BindingsAreFinite ==
  ASSUME NEW c \in Configs \cup Drafts PROVE IsFiniteSet(Bindings(c))
<1> DEFINE ids == DOMAIN c.checks
           Bound(id) == {[id |-> id \o "/" \o name, check |-> id, target |-> name] :
                           name \in ToSet(c.checks[id].targets)}
           bounds == {Bound(id) : id \in ids}
<1>1. IsFiniteSet(ids) /\ \A id \in ids : c.checks[id].targets \in Seq(STRING)
  BY FilesAssumption
<1>2. ASSUME NEW id \in ids PROVE IsFiniteSet(Bound(id))
  <2> DEFINE targets == c.checks[id].targets
             bound == [i \in 1..Len(targets) |->
                         [id |-> id \o "/" \o targets[i], check |-> id, target |-> targets[i]]]
  <2>1. Len(targets) \in Nat /\ DOMAIN targets = 1..Len(targets)
    BY <1>1, <1>2
  <2>2. bound \in Surjection(1..Len(targets), Bound(id))
    BY <2>1 DEF Surjection, ToSet
  <2>3. \A n \in Nat : IsFiniteSet(1..n)
    BY FS_Interval
  <2> HIDE DEF bound, targets, Bound
  <2> QED BY <2>1, <2>2, <2>3, FS_Surjection DEF ExistsSurjection
<1>3. IsFiniteSet(bounds)
  <2> HIDE DEF Bound
  <2>1. [id \in ids |-> Bound(id)] \in Surjection(ids, bounds)
    BY DEF Surjection
  <2> HIDE DEF bounds, ids
  <2> QED BY <1>1, <2>1, FS_Surjection DEF ExistsSurjection
<1>4. \A b \in bounds : IsFiniteSet(b)
  BY <1>2
<1>5. Bindings(c) = UNION bounds
  BY DEF Bindings
<1> HIDE DEF bounds
<1> QED BY <1>3, <1>4, <1>5, FS_UNION

(* What a reference selects is a sequence. *)
LEMMA SelectionsAreSequences ==
  ASSUME NEW c \in Configs \cup Drafts, NEW ref PROVE IsSequence(Selections(c, ref))
<1>1. CASE ref \in DOMAIN c.checks
  <2> DEFINE targets == c.checks[ref].targets
             Selected(i) == [id |-> IF c.checks[ref].single THEN ref ELSE ref \o "/" \o targets[i],
                             check |-> ref, target |-> targets[i]]
  <2>1. targets \in Seq(STRING)
    BY <1>1, FilesAssumption
  <2>2. PICK n \in Nat : DOMAIN targets = 1..n
    BY <2>1
  <2>3. Selections(c, ref) = [i \in DOMAIN targets |-> Selected(i)]
    BY <1>1 DEF Selections
  <2> HIDE DEF Selected, targets
  <2> QED BY <2>2, <2>3 DEF IsSequence
<1>2. CASE ref \notin DOMAIN c.checks
  <2> DEFINE some == {s \in Bindings(c) :
                        /\ s.id = ref /\ s.check # "" /\ s.target \notin Slashed
                        /\ ~c.checks[s.check].single}
  <2>1. Selections(c, ref) = SetToSeq(some)
    BY <1>2 DEF Selections
  <2>2. IsFiniteSet(some)
    BY BindingsAreFinite, FS_Subset
  <2> HIDE DEF some
  <2> QED BY <2>1, <2>2, SetIsSequence
<1> QED BY <1>1, <1>2

(* The plan has as many checks as the references select in all. *)
LEMMA PlanIsSequence ==
  ASSUME NEW c \in Configs \cup Drafts, NEW r \in Requests, NEW rerun
  PROVE  \E n \in Nat : DOMAIN Plan(c, r.refs, rerun) = 1..n
<1> DEFINE parts == [i \in DOMAIN r.refs |-> Selections(c, r.refs[i])]
           all == FlattenSeq(parts)
<1>1. PICK last \in Nat : DOMAIN r.refs = 1..last
  <2>1. r.refs \in Seq(STRING)
    BY FilesAssumption
  <2> QED BY <2>1
<1>2. /\ parts = [i \in 1..last |-> parts[i]]
      /\ \A i \in 1..last : IsSequence(parts[i])
  BY <1>1, SelectionsAreSequences
<1> HIDE DEF parts
<1> DEFINE S == UNION {{parts[i][k] : k \in DOMAIN parts[i]} : i \in 1..last}
<1>3. \A i \in 1..last : parts[i] \in Seq(S)
  <2> TAKE i \in 1..last
  <2>1. PICK n \in Nat : parts[i] = [k \in 1..n |-> parts[i][k]]
    BY <1>2 DEF IsSequence
  <2>2. \A k \in 1..n : parts[i][k] \in S
    BY <2>1
  <2> HIDE DEF S
  <2>3. parts[i] \in [1..n -> S]
    BY <2>1, <2>2
  <2> QED BY <2>3
<1> HIDE DEF S
<1>4. all \in Seq(S)
  <2> DEFINE D == Seq(S)
  <2>1. \A i \in 1..last : parts[i] \in D
    BY <1>3
  <2> HIDE DEF D
  <2>2. FlattenSeq(parts) \in D
    BY <1>2, <2>1, FlattenIsSeq DEF D
  <2> QED BY <2>2 DEF D
<1>5. DOMAIN Plan(c, r.refs, rerun) \in {DOMAIN all, {}}
  <2>1. \/ Plan(c, r.refs, rerun) = [i \in DOMAIN all |-> PlannedCheck(c, all[i])]
        \/ Plan(c, r.refs, rerun) = <<>>
    BY Zenon DEF Plan, parts
  <2> QED BY <2>1
<1> HIDE DEF all
<1>6. PICK n \in Nat : DOMAIN all = 1..n
  BY <1>4
<1>7. 1..0 = {}
  OBVIOUS
<1> QED BY <1>5, <1>6, <1>7

-------------------------------------------------------------------------------
(***************************************************************************)
(* What a run leaves: of each planned check a result that says how often   *)
(* the source it ran on had each finding the check runs and that can fail  *)
(* it.  Every entry of a baseline promises some findings.                  *)
(***************************************************************************)
IsResult(p, r, source) ==
  /\ DOMAIN r = {"status", "found", "advised", "skipped", "stale"}
  /\ r.status \in {"passed", "failed", "error", "cancelled"}
  /\ r.found \in [Findings -> Nat] /\ r.stale = {}
  /\ Completed(r) => \A f \in Findings :
       Runs(p, f.code) /\ ~Advisory(p, f.code) => r.found[f] = source[p.dir][f]
  /\ (\E f \in Findings : r.found[f] > 0) => r.status = "failed"
  /\ r.status = "failed" => \E f \in Findings : r.found[f] > 0

IsBaseline(b) == \A k \in DOMAIN b : b[k] \in Nat \ {0}

DebtHeld == debt \in Debts
FileHeld == file = Malformed \/ IsBaseline(file)
LoadedHeld == \A u \in Users : Started(job[u]) => IsBaseline(job[u].loaded)
ResultsHeld ==
  \A u \in Users : LET j == job[u] IN j.phase = "finished" =>
    /\ j.results = [i \in DOMAIN j.plan |-> j.results[i]]
    /\ \A i \in DOMAIN j.plan : IsResult(j.plan[i], j.results[i], j.seen)

ResultInv == JobInv /\ DebtHeld /\ FileHeld /\ LoadedHeld /\ ResultsHeld

(* A result is of the source as the run saw it. *)
LEMMA ResultOfIsResult ==
  ASSUME NEW p, debt[p.dir] \in [Findings -> Nat],
         NEW status \in {"completed", "error", "cancelled"}
  PROVE  IsResult(p, ResultOf(p, status), debt)
<1> DEFINE occurs(f) == IF Runs(p, f.code) THEN debt[p.dir][f] ELSE 0
           found == [f \in Findings |-> IF Advisory(p, f.code) THEN 0 ELSE occurs(f)]
           none == [f \in Findings |-> 0]
           r == ResultOf(p, status)
<1>1. /\ r.status = (IF status # "completed" THEN status
                     ELSE IF found = none THEN "passed" ELSE "failed")
      /\ r.found = (IF status = "completed" THEN found ELSE none)
      /\ r.stale = {}
      /\ DOMAIN r = {"status", "found", "advised", "skipped", "stale"}
  BY DEF ResultOf
<1>2. found \in [Findings -> Nat] /\ none \in [Findings -> Nat]
  OBVIOUS
<1>3. \A f \in Findings :
        /\ Runs(p, f.code) /\ ~Advisory(p, f.code) => found[f] = debt[p.dir][f]
        /\ none[f] = 0
  OBVIOUS
<1> HIDE DEF found, none, r
<1>4. found # none => \E f \in Findings : found[f] > 0
  BY <1>2, <1>3
<1>5. CASE status = "completed"
  BY <1>1, <1>2, <1>3, <1>4, <1>5 DEF IsResult, Completed, r
<1>6. CASE status # "completed"
  BY <1>1, <1>2, <1>3, <1>6 DEF IsResult, Completed, r
<1> QED BY <1>5, <1>6

(* Of finitely many numbers one is the largest. *)
LEMMA LargestIsThere ==
  ASSUME NEW n \in Nat \ {0}, NEW f \in [1..n -> Nat]
  PROVE  \E i \in 1..n : \A j \in 1..n : f[j] <= f[i]
<1> DEFINE Top(m) == \E i \in 1..m : \A j \in 1..m : f[j] <= f[i]
           T == {m \in Nat : m + 1 <= n => Top(m + 1)}
<1>1. 0 \in T
  OBVIOUS
<1>2. ASSUME NEW m \in Nat, m \in T PROVE m + 1 \in T
  <2> SUFFICES ASSUME m + 1 + 1 <= n PROVE Top(m + 1 + 1)
    OBVIOUS
  <2>1. PICK i \in 1..m + 1 : \A j \in 1..m + 1 : f[j] <= f[i]
    BY <1>2
  <2>2. f[i] \in Nat /\ f[m + 1 + 1] \in Nat
    OBVIOUS
  <2>3. CASE f[m + 1 + 1] <= f[i]
    BY <2>1, <2>3
  <2>4. CASE f[i] <= f[m + 1 + 1]
    <3> SUFFICES \A j \in 1..m + 1 + 1 : f[j] <= f[m + 1 + 1]
      OBVIOUS
    <3> TAKE j \in 1..m + 1 + 1
    <3>1. j \in 1..n /\ f[j] \in Nat
      OBVIOUS
    <3>2. CASE j = m + 1 + 1
      BY <3>1, <3>2
    <3>3. CASE j \in 1..m + 1
      BY <2>1, <2>2, <2>4, <3>1, <3>3
    <3> QED BY <3>2, <3>3
  <2> QED BY <2>2, <2>3, <2>4
<1> HIDE DEF T
<1>3. Nat \subseteq T
  BY <1>1, <1>2, NatAll
<1>4. n - 1 \in Nat /\ n - 1 + 1 = n
  OBVIOUS
<1>5. n - 1 \in T
  BY <1>3, <1>4
<1>6. Top(n)
  BY <1>4, <1>5 DEF T
<1> QED BY <1>6

(* So Max finds it, for a number of each check that some of a plan have. *)
LEMMA MaxIsLargest ==
  ASSUME NEW n \in Nat, NEW some \in SUBSET (1..n), some # {}, NEW f \in [1..n -> Nat]
  PROVE  LET values == {f[i] : i \in some}
         IN Max(values) \in values /\ \A x \in values : x <= Max(values)
<1> DEFINE values == {f[i] : i \in some}
           g == [i \in 1..n |-> IF i \in some THEN f[i] ELSE 0]
<1>1. n # 0 /\ g \in [1..n -> Nat]
  <2>1. PICK i \in some : i \in 1..n
    OBVIOUS
  <2> QED BY <2>1
<1>2. \A i \in 1..n : g[i] = IF i \in some THEN f[i] ELSE 0
  OBVIOUS
<1> HIDE DEF g
<1>3. PICK i \in 1..n : \A j \in 1..n : g[j] <= g[i]
  BY <1>1, LargestIsThere
<1>4. \E x \in values : \A y \in values : x >= y
  <2>1. CASE i \in some
    BY <1>2, <1>3, <2>1
  <2>2. CASE i \notin some
    <3>1. \A j \in some : f[j] = 0
      BY <1>2, <1>3, <2>2
    <3>2. PICK j \in some : TRUE
      OBVIOUS
    <3>3. f[j] \in values /\ \A y \in values : f[j] >= y
      BY <3>1, <3>2
    <3> QED BY <3>3
  <2> QED BY <2>1, <2>2
<1>5. Max(values) \in values /\ \A y \in values : Max(values) >= y
  BY <1>4 DEF Max
<1>6. \A x \in values : x \in Nat
  OBVIOUS
<1> QED BY <1>5, <1>6

(***************************************************************************)
(* A run: a plan of n checks, with a result of each.                       *)
(***************************************************************************)
IsRun(plan, results, source, n) ==
  /\ DOMAIN plan = 1..n /\ DOMAIN results = 1..n
  /\ \A i \in 1..n : IsResult(plan[i], results[i], source)

(* What a check found of an entry, it reports, and so judges the entry. *)
LEMMA FoundIsCovered ==
  ASSUME NEW p, NEW r, NEW source, IsResult(p, r, source), NEW k
  PROVE  /\ FoundOf(p, r, k) \in Nat
         /\ FoundOf(p, r, k) > 0 => Covers(p, r, k) /\ p.kind = k.kind
<1>1. r.found \in [Findings -> Nat]
  BY DEF IsResult
<1>2. FoundOf(p, r, k) \in Nat
  BY <1>1 DEF FoundOf
<1>3. ASSUME FoundOf(p, r, k) > 0 PROVE Covers(p, r, k) /\ p.kind = k.kind
  <2> DEFINE f == [code |-> k.code, site |-> k.site]
  <2>1. SameTarget(p, k) /\ f \in Findings /\ r.found[f] > 0 /\ f.code = k.code
    BY <1>3 DEF FoundOf
  <2> HIDE DEF f
  <2>2. Reported(r, k.code)
    BY <2>1 DEF Reported
  <2> QED BY <2>1, <2>2 DEF Covers, SameTarget
<1> QED BY <1>2, <1>3

(* A finding's key stands for it. *)
LEMMA KeyOfFinding ==
  ASSUME NEW p, NEW r, NEW f \in Findings
  PROVE  /\ FoundOf(p, r, Key(p, f)) = r.found[f] /\ SameTarget(p, Key(p, f))
         /\ Key(p, f).code = f.code /\ Key(p, f).kind = p.kind
<1>1. f = [code |-> f.code, site |-> f.site]
  BY FilesAssumption
<1>2. /\ Key(p, f).code = f.code /\ Key(p, f).site = f.site
      /\ Key(p, f).kind = p.kind /\ Key(p, f).dir = p.dir
  BY DEF Key
<1> QED BY <1>1, <1>2 DEF FoundOf, SameTarget

(***************************************************************************)
(* What Record writes: an entry that was kept, which no check of the run   *)
(* judges and something still configured or run could report, or an entry  *)
(* of as much as some check that judges it found.  And what a check found  *)
(* has an entry that accepts it.                                           *)
(***************************************************************************)
LEMMA RecordHolds ==
  ASSUME NEW b, IsBaseline(b), NEW c, NEW n \in Nat, NEW plan, NEW results, NEW source,
         IsRun(plan, results, source, n), Recordable(results)
  PROVE  LET made == Record(b, c, plan, results)
         IN /\ IsBaseline(made)
            /\ \A k \in DOMAIN made :
                 \/ /\ k \in DOMAIN b \ Orphaned(b, c, plan, results)
                    /\ Covering(plan, results, k) = {}
                 \/ \E i \in Covering(plan, results, k) :
                      FoundOf(plan[i], results[i], k) = made[k]
            /\ \A i \in 1..n : plan[i].kind \in BaselineKinds =>
                 \A f \in Findings : LET k == Key(plan[i], f) IN
                   results[i].found[f] > 0 =>
                     /\ k \in DOMAIN made /\ results[i].found[f] <= made[k]
                     /\ Covers(plan[i], results[i], k)
<1> DEFINE judges == {i \in DOMAIN plan : plan[i].kind \in BaselineKinds}
           seen == {Key(plan[i], f) : i \in judges, f \in Findings}
           Values(k) == {FoundOf(plan[i], results[i], k) : i \in judges}
           most(k) == Max(Values(k))
           kept == {k \in DOMAIN b \ Orphaned(b, c, plan, results) :
                      Covering(plan, results, k) = {}}
           found == {k \in seen : most(k) > 0}
           made == Record(b, c, plan, results)
<1>1. made = [k \in kept \cup found |-> IF k \in kept THEN b[k] ELSE most(k)]
  BY DEF Record
<1>2. ASSUME NEW k, judges # {}
      PROVE  most(k) \in Values(k) /\ \A x \in Values(k) : x <= most(k)
  <2> DEFINE g == [i \in 1..n |-> FoundOf(plan[i], results[i], k)]
  <2>1. g \in [1..n -> Nat] /\ judges \in SUBSET (1..n)
    BY FoundIsCovered DEF IsRun
  <2>2. Values(k) = {g[i] : i \in judges}
    BY <2>1
  <2> HIDE DEF g, judges, Values
  <2> QED BY <1>2, <2>1, <2>2, MaxIsLargest
<1>3. ASSUME NEW i \in judges, NEW k, FoundOf(plan[i], results[i], k) > 0
      PROVE  i \in Covering(plan, results, k)
  BY <1>3, FoundIsCovered DEF IsRun, Recordable, Covering, Judges
<1>4. ASSUME NEW k \in found
      PROVE  /\ k \notin kept /\ most(k) \in Nat \ {0}
             /\ \E i \in Covering(plan, results, k) : FoundOf(plan[i], results[i], k) = most(k)
  <2>1. judges # {} /\ most(k) > 0
    BY <1>4
  <2> HIDE DEF most, found
  <2>2. PICK i \in judges : FoundOf(plan[i], results[i], k) = most(k)
    BY <1>2, <2>1
  <2>3. FoundOf(plan[i], results[i], k) \in Nat
    BY FoundIsCovered DEF IsRun
  <2>4. i \in Covering(plan, results, k)
    BY <1>3, <2>1, <2>2
  <2> QED BY <2>1, <2>2, <2>3, <2>4
<1>5. ASSUME NEW i \in 1..n, plan[i].kind \in BaselineKinds, NEW f \in Findings,
             results[i].found[f] > 0
      PROVE  /\ Key(plan[i], f) \in found /\ results[i].found[f] <= most(Key(plan[i], f))
             /\ Covers(plan[i], results[i], Key(plan[i], f))
  <2> DEFINE k == Key(plan[i], f)
  <2>1. i \in judges /\ FoundOf(plan[i], results[i], k) = results[i].found[f]
    BY <1>5, KeyOfFinding DEF IsRun
  <2>2. FoundOf(plan[i], results[i], k) \in Values(k)
    BY <2>1
  <2>3. most(k) \in Values(k) /\ FoundOf(plan[i], results[i], k) <= most(k)
    BY <1>2, <2>1, <2>2
  <2>4. \A m \in judges : FoundOf(plan[m], results[m], k) \in Nat
    BY FoundIsCovered DEF IsRun
  <2>5. \A x \in Values(k) : x \in Nat
    BY <2>4
  <2>6. most(k) \in Nat /\ FoundOf(plan[i], results[i], k) \in Nat
    BY <2>1, <2>3, <2>4, <2>5
  <2>7. k \in seen
    BY <2>1
  <2> HIDE DEF most, seen, Values, judges
  <2>8. most(k) > 0 /\ results[i].found[f] <= most(k)
    BY <1>5, <2>1, <2>3, <2>6
  <2>9. Covers(plan[i], results[i], k)
    BY <1>5, <2>1, FoundIsCovered DEF IsRun
  <2> QED BY <2>7, <2>8, <2>9
<1> HIDE DEF made, judges, seen, Values, most, found
<1>6. IsBaseline(made)
  BY <1>1, <1>4 DEF IsBaseline
<1>7. ASSUME NEW k \in DOMAIN made
      PROVE  \/ /\ k \in DOMAIN b \ Orphaned(b, c, plan, results)
                /\ Covering(plan, results, k) = {}
             \/ \E i \in Covering(plan, results, k) :
                  FoundOf(plan[i], results[i], k) = made[k]
  BY <1>1, <1>4, <1>7
<1>8. ASSUME NEW i \in 1..n, plan[i].kind \in BaselineKinds, NEW f \in Findings,
             results[i].found[f] > 0
      PROVE  /\ Key(plan[i], f) \in DOMAIN made
             /\ results[i].found[f] <= made[Key(plan[i], f)]
             /\ Covers(plan[i], results[i], Key(plan[i], f))
  BY <1>1, <1>4, <1>5, <1>8
<1> QED BY <1>6, <1>7, <1>8 DEF made

-------------------------------------------------------------------------------
(***************************************************************************)
(* The invariant of the run: what was read, what was found, what is in the *)
(* file.                                                                   *)
(***************************************************************************)
(* At the start the file is empty and nothing was found. *)
LEMMA ResultInvInit ==
  ASSUME Init PROVE ResultInv
<1>1. JobInv
  BY JobInvInit
<1>2. \A u \in Users : job[u].phase = "idle" /\ ~Started(job[u])
  BY DEF Init, Idle, Started
<1>3. DebtHeld /\ FileHeld
  BY DEF Init, DebtHeld, FileHeld, IsBaseline
<1> QED BY <1>1, <1>2, <1>3 DEF ResultInv, LoadedHeld, ResultsHeld

(* A check of a running plan finds what its target directory has. *)
LEMMA DebtOfPlan ==
  ASSUME ResultInv, NEW u \in Users, Started(job[u]), NEW i \in DOMAIN job[u].plan
  PROVE  debt[job[u].plan[i].dir] \in [Findings -> Nat]
<1> DEFINE j == job[u]
<1>1. j.cfg \in Configs \cup Drafts /\ j.plan # <<>>
      /\ j.plan = Plan(j.cfg, j.request.refs, j.request.rerun)
  BY DEF ResultInv, JobInv, PlanHeld
<1>2. j.plan[i].dir \in {j.cfg.targets[t].dir : t \in DOMAIN j.cfg.targets}
  BY <1>1, PlanAccepts
<1>3. PICK t \in DOMAIN j.cfg.targets : j.plan[i].dir = j.cfg.targets[t].dir
  BY <1>2
<1>4. debt \in Debts
  BY DEF ResultInv, DebtHeld
<1> QED BY <1>1, <1>3, <1>4, FilesAssumption

(* A finished command is a run, of a plan that is a sequence. *)
LEMMA FinishedRun ==
  ASSUME ResultInv, NEW u \in Users, job[u].phase = "finished"
  PROVE  \E n \in Nat \ {0} : IsRun(job[u].plan, job[u].results, job[u].seen, n)
<1> DEFINE j == job[u]
<1>1. j.cfg \in Configs \cup Drafts /\ j.plan # <<>> /\ j.request \in Requests
      /\ j.plan = Plan(j.cfg, j.request.refs, j.request.rerun)
  BY DEF ResultInv, JobInv, PlanHeld, Started
<1>2. PICK n \in Nat : DOMAIN j.plan = 1..n
  BY <1>1, PlanIsSequence
<1>3. n # 0
  <2> SUFFICES ASSUME n = 0 PROVE FALSE
    OBVIOUS
  <2>1. DOMAIN j.plan = {}
    BY <1>2
  <2>2. j.plan = [i \in DOMAIN j.plan |-> j.plan[i]]
    BY <1>1, Zenon DEF Plan
  <2> QED BY <1>1, <2>1, <2>2
<1>4. IsRun(j.plan, j.results, j.seen, n)
  BY <1>2 DEF ResultInv, ResultsHeld, IsRun
<1> QED BY <1>2, <1>3, <1>4

(* What a command records is a baseline. *)
LEMMA RecordIsBaseline ==
  ASSUME ResultInv, NEW u \in Users, Finish(u) PROVE FileHeld'
<1> DEFINE j == job[u]
<1>1. /\ j.phase = "finished"
      /\ file' # file => file' = IF "write" \in j.flags /\ Recordable(j.results)
                                 THEN Record(j.loaded, j.cfg, j.plan, j.results) ELSE file
  BY FinishJob DEF ResultInv, JobInv
<1>2. IsBaseline(j.loaded)
  BY <1>1 DEF ResultInv, LoadedHeld, Started
<1>3. PICK n \in Nat \ {0} : IsRun(j.plan, j.results, j.seen, n)
  BY <1>1, FinishedRun
<1>4. CASE "write" \in j.flags /\ Recordable(j.results)
  <2> DEFINE made == Record(j.loaded, j.cfg, j.plan, j.results)
  <2>1. IsBaseline(made)
    BY <1>2, <1>3, <1>4, RecordHolds
  <2>2. file' = file \/ file' = made
    BY <1>1, <1>4
  <2> HIDE DEF made
  <2> QED BY <2>1, <2>2 DEF ResultInv, FileHeld, IsBaseline
<1>5. CASE ~("write" \in j.flags /\ Recordable(j.results))
  BY <1>1, <1>5 DEF ResultInv, FileHeld
<1> QED BY <1>4, <1>5

(* The results of a run are results of its plan. *)
LEMMA ExecuteFinds ==
  ASSUME ResultInv, NEW u \in Users, Execute(u)
  PROVE  LET j == job'[u] IN
           /\ j.results = [i \in DOMAIN j.plan |-> j.results[i]]
           /\ \A i \in DOMAIN j.plan : IsResult(j.plan[i], j.results[i], j.seen)
<1> DEFINE j == job[u]
<1>1. /\ j.phase = "running" /\ job'[u].plan = j.plan /\ job'[u].seen = debt
      /\ \E ended \in {"error", "cancelled"}, stuck \in SUBSET DOMAIN j.plan :
           job'[u].results =
             [i \in DOMAIN j.plan |->
                ResultOf(j.plan[i], IF Refused(j.plan[i]) THEN "error"
                                    ELSE IF i \in stuck THEN ended ELSE "completed")]
  BY ExecuteJob DEF ResultInv, JobInv
<1>2. PICK ended \in {"error", "cancelled"}, stuck \in SUBSET DOMAIN j.plan :
        job'[u].results =
          [i \in DOMAIN j.plan |->
             ResultOf(j.plan[i], IF Refused(j.plan[i]) THEN "error"
                                 ELSE IF i \in stuck THEN ended ELSE "completed")]
  BY <1>1
<1>3. ASSUME NEW i \in DOMAIN j.plan PROVE IsResult(j.plan[i], job'[u].results[i], debt)
  <2> DEFINE status == IF Refused(j.plan[i]) THEN "error"
                       ELSE IF i \in stuck THEN ended ELSE "completed"
  <2>1. status \in {"completed", "error", "cancelled"}
    OBVIOUS
  <2>2. job'[u].results[i] = ResultOf(j.plan[i], status)
    BY <1>2
  <2> HIDE DEF status
  <2>3. debt[j.plan[i].dir] \in [Findings -> Nat]
    BY <1>1, DebtOfPlan DEF Started
  <2> QED BY <2>1, <2>2, <2>3, ResultOfIsResult
<1>4. job'[u].results = [i \in DOMAIN j.plan |-> job'[u].results[i]]
  BY <1>2
<1> QED BY <1>1, <1>3, <1>4

(* Nothing changes the job of a terminal but a step of its own command. *)
LEMMA StepOfJob ==
  ASSUME JobsHold, [Next]_vars, NEW u \in Users
  PROVE  job'[u] = job[u] \/ Invoke(u) \/ Prepare(u) \/ Execute(u) \/ Finish(u)
<1>1. ASSUME NEW v \in Users, v # u, Invoke(v) \/ Prepare(v) \/ Execute(v) \/ Finish(v)
      PROVE  job'[u] = job[u]
  <2>1. u \in Users \ {v}
    BY <1>1
  <2>2. CASE Invoke(v)
    BY <2>1, <2>2, InvokeJob
  <2>3. CASE Prepare(v)
    BY <2>1, <2>3, PrepareJob
  <2>4. CASE Execute(v)
    BY <2>1, <2>4, ExecuteJob
  <2>5. CASE Finish(v)
    BY <2>1, <2>5, FinishJob
  <2> QED BY <1>1, <2>2, <2>3, <2>4, <2>5
<1> QED BY <1>1, StepsOfJobs

(* Every step keeps it. *)
LEMMA ResultInvStep ==
  ASSUME ResultInv, [Next]_vars PROVE ResultInv'
<1>1. JobInv'
  BY JobInvStep DEF ResultInv
<1>2. DebtHeld'
  BY StepsOfJobs, PrepareJob, InvokeJob, ExecuteJob, FinishJob
     DEF ResultInv, JobInv, DebtHeld, EditSource
<1>3. FileHeld'
  <2>1. ASSUME NEW u \in Users, Invoke(u) \/ Prepare(u) \/ Execute(u) PROVE file' = file
    BY <2>1, InvokeJob, PrepareJob, ExecuteJob DEF ResultInv, JobInv
  <2>2. CASE EditFiles
    <3>1. file' \in HandFiles \cup {Malformed, file}
      BY <2>2 DEF EditFiles
    <3> QED BY <3>1, FilesAssumption DEF ResultInv, FileHeld, IsBaseline
  <2>3. CASE file' = file
    BY <2>3 DEF ResultInv, FileHeld
  <2> QED BY <2>1, <2>2, <2>3, RecordIsBaseline, StepsOfJobs
<1>4. ASSUME NEW u \in Users, Started(job'[u]) PROVE IsBaseline(job'[u].loaded)
  <2>1. CASE Invoke(u)
    BY <1>4, <2>1, InvokeJob DEF ResultInv, JobInv
  <2>2. CASE Prepare(u)
    <3>1. job'[u].phase # "idle"
      BY <1>4 DEF Started
    <3>2. job'[u].loaded = <<>> \/ (job'[u].loaded = file /\ file # Malformed)
      BY <2>2, <3>1, PrepareJob DEF ResultInv, JobInv
    <3> QED BY <3>2 DEF ResultInv, FileHeld, IsBaseline
  <2>3. CASE Execute(u)
    BY <2>3, ExecuteJob DEF ResultInv, JobInv, LoadedHeld, Started
  <2>4. CASE Finish(u)
    BY <1>4, <2>4, FinishJob DEF ResultInv, JobInv, Started
  <2>5. CASE job'[u] = job[u]
    BY <1>4, <2>5 DEF ResultInv, LoadedHeld
  <2>6. job'[u] = job[u] \/ Invoke(u) \/ Prepare(u) \/ Execute(u) \/ Finish(u)
    BY StepOfJob DEF ResultInv, JobInv
  <2> QED BY <2>1, <2>2, <2>3, <2>4, <2>5, <2>6
<1>5. ASSUME NEW u \in Users, job'[u].phase = "finished"
      PROVE  LET j == job'[u] IN
               /\ j.results = [i \in DOMAIN j.plan |-> j.results[i]]
               /\ \A i \in DOMAIN j.plan : IsResult(j.plan[i], j.results[i], j.seen)
  <2>1. ~Invoke(u) /\ ~Finish(u)
    BY <1>5, InvokeJob, FinishJob DEF ResultInv, JobInv, Started
  <2>2. ~Prepare(u)
    <3>1. Prepare(u) => job'[u].phase \in {"idle", "running"}
      BY PrepareJob DEF ResultInv, JobInv
    <3> QED BY <1>5, <3>1
  <2>3. CASE job'[u] = job[u]
    BY <1>5, <2>3 DEF ResultInv, ResultsHeld
  <2>4. job'[u] = job[u] \/ Execute(u)
    BY <2>1, <2>2, StepOfJob DEF ResultInv, JobInv
  <2> QED BY <2>3, <2>4, ExecuteFinds
<1>6. LoadedHeld'
  BY <1>4 DEF LoadedHeld, Started
<1>7. ResultsHeld'
  BY <1>5 DEF ResultsHeld
<1> QED BY <1>1, <1>2, <1>3, <1>6, <1>7 DEF ResultInv

-------------------------------------------------------------------------------
(***************************************************************************)
(* The report of a run.                                                    *)
(***************************************************************************)
(* The larger of a number and zero. *)
LEMMA MaxWithZero ==
  ASSUME NEW x \in Int PROVE Max({0, x}) = IF x > 0 THEN x ELSE 0
<1>1. \E m \in {0, x} : \A y \in {0, x} : m >= y
  <2>1. CASE x > 0
    BY <2>1
  <2>2. CASE x <= 0
    BY <2>2
  <2> QED BY <2>1, <2>2
<1>2. Max({0, x}) \in {0, x} /\ \A y \in {0, x} : Max({0, x}) >= y
  BY <1>1 DEF Max
<1> QED BY <1>2

(* The baseline accepts a number of each finding. *)
LEMMA AcceptedIsNat ==
  ASSUME NEW b, IsBaseline(b), NEW p, NEW r, NEW f PROVE Accepted(b, p, r, f) \in Nat
BY DEF IsBaseline, Accepted

(* The entries that a check of a run reports as stale. *)
StaleAt(b, plan, results, i) ==
  {k \in Stale(b, plan, results) : Min(Covering(plan, results, k)) = i}

(***************************************************************************)
(* Of a result that the baseline judges, what is over the accepted count   *)
(* fails, and so does an entry that promises too much.                     *)
(***************************************************************************)
LEMMA AppliedResult ==
  ASSUME NEW b, IsBaseline(b), NEW plan, NEW results, NEW source, NEW n \in Nat,
         IsRun(plan, results, source, n), NEW i \in 1..n
  PROVE  LET r == results[i]
             s == ApplyTo(b, plan, results, i)
         IN /\ ~Judges(plan[i], r) => s = r
            /\ Judges(plan[i], r) =>
                 /\ s.stale = StaleAt(b, plan, results, i)
                 /\ \A f \in Findings :
                      s.found[f] > 0 <=> r.found[f] > Accepted(b, plan[i], r, f)
                 /\ s.status = IF Exceeds(b, plan[i], r) \/ s.stale # {}
                               THEN "failed" ELSE "passed"
<1> DEFINE r == results[i]
           p == plan[i]
           stale == StaleAt(b, plan, results, i)
           found == [f \in Findings |-> Max({0, r.found[f] - Accepted(b, p, r, f)})]
           status == IF Exceeds(b, p, r) \/ stale # {} THEN "failed" ELSE "passed"
<1>1. ApplyTo(b, plan, results, i) =
        IF ~Judges(p, r) THEN r
        ELSE [r EXCEPT !.stale = stale, !.found = found, !.status = status]
  BY DEF ApplyTo, StaleAt
<1>2. /\ DOMAIN r = {"status", "found", "advised", "skipped", "stale"}
      /\ r.found \in [Findings -> Nat]
  BY DEF IsRun, IsResult
<1>3. \A f \in Findings : found[f] > 0 <=> r.found[f] > Accepted(b, p, r, f)
  <2> TAKE f \in Findings
  <2>1. r.found[f] \in Nat /\ Accepted(b, p, r, f) \in Nat
    BY <1>2, AcceptedIsNat
  <2>2. found[f] = Max({0, r.found[f] - Accepted(b, p, r, f)})
    OBVIOUS
  <2> HIDE DEF found
  <2>3. r.found[f] - Accepted(b, p, r, f) \in Int
    BY <2>1
  <2> QED BY <2>1, <2>2, <2>3, MaxWithZero
<1> HIDE DEF stale, found, r
<1>4. CASE ~Judges(p, r)
  BY <1>1, <1>4 DEF r
<1>5. CASE Judges(p, r)
  <2> DEFINE s == ApplyTo(b, plan, results, i)
  <2>1. s = [r EXCEPT !.stale = stale, !.found = found, !.status = status]
    BY <1>1, <1>5
  <2> HIDE DEF s, status
  <2>2. s.stale = stale /\ s.found = found /\ s.status = status
    BY <1>2, <2>1
  <2>3. \A f \in Findings : s.found[f] > 0 <=> r.found[f] > Accepted(b, p, r, f)
    BY <1>3, <2>2
  <2> QED BY <1>5, <2>2, <2>3 DEF s, r, stale, status
<1> QED BY <1>4, <1>5

(***************************************************************************)
(* Applying what was recorded to the run that was recorded: nothing is     *)
(* orphaned, nothing stale, and no finding is over its count.              *)
(***************************************************************************)
LEMMA RecordPasses ==
  ASSUME NEW b, IsBaseline(b), NEW c, NEW n \in Nat \ {0}, NEW plan, NEW results,
         NEW source, IsRun(plan, results, source, n), Recordable(results)
  PROVE  LET again == Apply(Record(b, c, plan, results), c, plan, results)
         IN /\ again.orphans = {}
            /\ \A i \in DOMAIN again.results : again.results[i].stale = {}
            /\ (\A i \in DOMAIN plan : plan[i].kind \in BaselineKinds) => again.status = "passed"
<1> DEFINE made == Record(b, c, plan, results)
           after == [i \in DOMAIN plan |-> ApplyTo(made, plan, results, i)]
           orphans == Orphaned(made, c, plan, results)
           again == Apply(made, c, plan, results)
<1>1. /\ IsBaseline(made)
      /\ \A k \in DOMAIN made :
           \/ /\ k \in DOMAIN b \ Orphaned(b, c, plan, results)
              /\ Covering(plan, results, k) = {}
           \/ \E i \in Covering(plan, results, k) :
                FoundOf(plan[i], results[i], k) = made[k]
      /\ \A i \in 1..n : plan[i].kind \in BaselineKinds =>
           \A f \in Findings : LET k == Key(plan[i], f) IN
             results[i].found[f] > 0 =>
               /\ k \in DOMAIN made /\ results[i].found[f] <= made[k]
               /\ Covers(plan[i], results[i], k)
  BY RecordHolds
<1>2. DOMAIN plan = 1..n /\ \A i \in 1..n : IsResult(plan[i], results[i], source)
  BY DEF IsRun
<1>3. /\ again.orphans = orphans /\ again.results = after
      /\ again.status = (IF orphans # {} THEN "failed" ELSE ReportStatus(after))
  BY DEF Apply, Report
<1> HIDE DEF made, again
<1>4. orphans = {}
  <2> SUFFICES ASSUME NEW k \in DOMAIN made
               PROVE  \/ \E p \in ConfiguredChecks(c) : Produces(p, k)
                      \/ \E i \in DOMAIN plan : Covers(plan[i], results[i], k)
    BY DEF Orphaned
  <2>1. CASE k \in DOMAIN b \ Orphaned(b, c, plan, results)
    BY <2>1 DEF Orphaned
  <2>2. CASE \E i \in Covering(plan, results, k) : FoundOf(plan[i], results[i], k) = made[k]
    BY <2>2 DEF Covering
  <2> QED BY <1>1, <2>1, <2>2
<1>5. Stale(made, plan, results) = {}
  <2> SUFFICES ASSUME NEW k \in Stale(made, plan, results) PROVE FALSE
    OBVIOUS
  <2>1. /\ k \in DOMAIN made /\ Covering(plan, results, k) # {}
        /\ \A i \in Covering(plan, results, k) : Unused(made, plan[i], results[i], k) > 0
    BY DEF Stale
  <2>2. PICK i \in Covering(plan, results, k) : FoundOf(plan[i], results[i], k) = made[k]
    BY <1>1, <2>1
  <2>3. made[k] \in Nat
    BY <1>1, <2>1 DEF IsBaseline
  <2>4. Unused(made, plan[i], results[i], k) = 0
    BY <2>2, <2>3 DEF Unused
  <2> QED BY <2>1, <2>4
<1>6. \A i \in 1..n : StaleAt(made, plan, results, i) = {}
  BY <1>5 DEF StaleAt
<1>7. ASSUME NEW i \in 1..n PROVE after[i] = ApplyTo(made, plan, results, i)
  BY <1>2
<1>8. ASSUME NEW i \in 1..n PROVE after[i].stale = {}
  <2>1. CASE Judges(plan[i], results[i])
    BY <1>1, <1>6, <1>7, <2>1, AppliedResult
  <2>2. CASE ~Judges(plan[i], results[i])
    <3>1. after[i] = results[i]
      BY <1>1, <1>7, <2>2, AppliedResult
    <3> QED BY <1>2, <3>1 DEF IsResult
  <2> QED BY <2>1, <2>2
<1>9. ASSUME NEW i \in 1..n, plan[i].kind \in BaselineKinds PROVE after[i].status = "passed"
  <2>1. Judges(plan[i], results[i])
    BY <1>9 DEF Judges, Recordable, IsRun
  <2>2. ASSUME NEW f \in Findings
        PROVE  ~(results[i].found[f] > Accepted(made, plan[i], results[i], f))
    <3>1. results[i].found[f] \in Nat
      BY <1>2 DEF IsResult
    <3>2. CASE results[i].found[f] > 0
      <4> DEFINE k == Key(plan[i], f)
      <4>1. /\ k \in DOMAIN made /\ results[i].found[f] <= made[k]
            /\ Covers(plan[i], results[i], k)
        BY <1>1, <1>9, <3>2
      <4>2. Accepted(made, plan[i], results[i], f) = made[k] /\ made[k] \in Nat
        BY <1>1, <4>1 DEF Accepted, IsBaseline
      <4> QED BY <3>1, <4>1, <4>2
    <3>3. CASE results[i].found[f] = 0
      <4>1. Accepted(made, plan[i], results[i], f) \in Nat
        BY <1>1, AcceptedIsNat
      <4> QED BY <3>3, <4>1
    <3> QED BY <3>1, <3>2, <3>3
  <2>3. ~Exceeds(made, plan[i], results[i])
    BY <2>2 DEF Exceeds
  <2> QED BY <1>1, <1>7, <1>8, <2>1, <2>3, AppliedResult
<1>10. DOMAIN after = 1..n /\ after # <<>>
  BY <1>2
<1> HIDE DEF after, orphans
<1>11. (\A i \in DOMAIN plan : plan[i].kind \in BaselineKinds) => again.status = "passed"
  BY <1>2, <1>3, <1>4, <1>9, <1>10 DEF ReportStatus
<1>12. again.orphans = {} /\ \A i \in DOMAIN again.results : again.results[i].stale = {}
  BY <1>3, <1>4, <1>8, <1>10
<1> QED BY <1>11, <1>12 DEF again, made

(***************************************************************************)
(* A report that passes has no orphaned entry, no entry that promises too  *)
(* much, a verdict of every check, and no finding over its count.          *)
(***************************************************************************)
LEMMA PassedReport ==
  ASSUME NEW b, IsBaseline(b), NEW c, NEW n \in Nat, NEW plan, NEW results,
         NEW source, IsRun(plan, results, source, n),
         Apply(b, c, plan, results).status = "passed"
  PROVE  /\ \A i \in 1..n :
              /\ Completed(results[i])
              /\ \A f \in Findings :
                   results[i].found[f] <=
                     IF plan[i].kind \in BaselineKinds /\ Key(plan[i], f) \in DOMAIN b
                     THEN b[Key(plan[i], f)] ELSE 0
         /\ \A k \in DOMAIN b : Covering(plan, results, k) # {} =>
              \E i \in Covering(plan, results, k) : FoundOf(plan[i], results[i], k) >= b[k]
<1> DEFINE after == [i \in DOMAIN plan |-> ApplyTo(b, plan, results, i)]
<1>1. DOMAIN plan = 1..n /\ \A i \in 1..n : IsResult(plan[i], results[i], source)
  BY DEF IsRun
<1>2. ReportStatus(after) = "passed"
  BY DEF Apply, Report
<1>3. \A i \in 1..n : ApplyTo(b, plan, results, i).status = "passed"
  BY <1>1, <1>2 DEF ReportStatus
<1>4. ASSUME NEW i \in 1..n
      PROVE  /\ Completed(results[i])
             /\ \A f \in Findings :
                  results[i].found[f] <=
                    IF plan[i].kind \in BaselineKinds /\ Key(plan[i], f) \in DOMAIN b
                    THEN b[Key(plan[i], f)] ELSE 0
  <2>1. results[i].found \in [Findings -> Nat]
    BY <1>1 DEF IsResult
  <2>2. CASE Judges(plan[i], results[i])
    <3>1. ~Exceeds(b, plan[i], results[i])
      BY <1>3, <2>2, AppliedResult
    <3>2. ASSUME NEW f \in Findings
          PROVE  results[i].found[f] <=
                   IF Key(plan[i], f) \in DOMAIN b THEN b[Key(plan[i], f)] ELSE 0
      <4>1. ~(results[i].found[f] > Accepted(b, plan[i], results[i], f))
        BY <3>1 DEF Exceeds
      <4>2. results[i].found[f] \in Nat
        BY <2>1
      <4> QED BY <4>1, <4>2 DEF Accepted, IsBaseline
    <3> QED BY <2>2, <3>2 DEF Judges
  <2>3. CASE ~Judges(plan[i], results[i])
    <3>1. results[i].status = "passed"
      BY <1>3, <2>3, AppliedResult
    <3>2. plan[i].kind \notin BaselineKinds
      BY <2>3, <3>1 DEF Judges, Completed
    <3>3. \A f \in Findings : ~(results[i].found[f] > 0)
      BY <1>1, <3>1 DEF IsResult
    <3> QED BY <2>1, <3>1, <3>2, <3>3 DEF Completed
  <2> QED BY <2>2, <2>3
<1>5. ASSUME NEW k \in DOMAIN b, Covering(plan, results, k) # {}
      PROVE  \E i \in Covering(plan, results, k) : FoundOf(plan[i], results[i], k) >= b[k]
  <2> SUFFICES ASSUME \A i \in Covering(plan, results, k) :
                        ~(FoundOf(plan[i], results[i], k) >= b[k])
               PROVE  FALSE
    OBVIOUS
  <2>1. \A i \in Covering(plan, results, k) : Unused(b, plan[i], results[i], k) > 0
    <3> TAKE i \in Covering(plan, results, k)
    <3>1. i \in 1..n
      BY <1>1 DEF Covering
    <3>2. FoundOf(plan[i], results[i], k) \in Nat /\ b[k] \in Nat
      BY <1>1, <3>1, FoundIsCovered DEF IsBaseline
    <3> QED BY <3>2 DEF Unused
  <2>2. k \in Stale(b, plan, results)
    BY <1>5, <2>1 DEF Stale
  <2>3. Covering(plan, results, k) \subseteq Nat
    BY <1>1 DEF Covering
  <2>4. \E m \in Covering(plan, results, k) : \A y \in Covering(plan, results, k) : m <= y
    BY <1>5, <2>3, LeastNat
  <2> DEFINE i == Min(Covering(plan, results, k))
  <2>5. i \in Covering(plan, results, k)
    BY <2>4 DEF Min
  <2>6. i \in 1..n /\ Judges(plan[i], results[i])
    BY <1>1, <2>5 DEF Covering
  <2>7. k \in StaleAt(b, plan, results, i)
    BY <2>2 DEF StaleAt
  <2> HIDE DEF i
  <2>8. ApplyTo(b, plan, results, i).status = "failed"
    BY <2>6, <2>7, AppliedResult
  <2> QED BY <1>3, <2>6, <2>8
<1> QED BY <1>4, <1>5

(* The annotations of a report and its status tell the same. *)
LEMMA AnnotatedAsReported ==
  ASSUME NEW plan, NEW results, NEW orphans, NEW n \in Nat \ {0}, DOMAIN results = 1..n,
         \A i \in 1..n : FailingFindings(results[i]) => results[i].status # "passed"
  PROVE  LET report == Report(plan, results, orphans)
         IN ErrorAnnotated(report) <=> report.status # "passed"
<1> DEFINE report == Report(plan, results, orphans)
<1>1. /\ report.orphans = orphans /\ report.results = results
      /\ report.status = IF orphans # {} THEN "failed" ELSE ReportStatus(results)
  BY DEF Report
<1> HIDE DEF report
<1>2. results # <<>>
  OBVIOUS
<1>3. ReportStatus(results) = "passed" <=> \A i \in 1..n : results[i].status = "passed"
  BY <1>2 DEF ReportStatus
<1>4. \A i \in 1..n :
        (\/ FailingFindings(results[i]) \/ ~Completed(results[i])
         \/ results[i].status = "failed" /\ ~FailingFindings(results[i]))
        <=> results[i].status # "passed"
  BY DEF Completed
<1>5. ErrorAnnotated(report) <=>
        orphans # {} \/ \E i \in 1..n : results[i].status # "passed"
  BY <1>1, <1>4 DEF ErrorAnnotated
<1> QED BY <1>1, <1>3, <1>5 DEF report

(* Whatever a finished command reports, its annotations tell the same. *)
LEMMA FinishedIsAnnotated ==
  ASSUME ResultInv, NEW u \in Users, job[u].phase = "finished"
  PROVE  LET report == ReportOf(job[u]) IN ErrorAnnotated(report) <=> report.status # "passed"
<1> DEFINE j == job[u]
           after == [i \in DOMAIN j.plan |-> ApplyTo(j.loaded, j.plan, j.results, i)]
<1>1. PICK n \in Nat \ {0} : IsRun(j.plan, j.results, j.seen, n)
  BY FinishedRun
<1>2. IsBaseline(j.loaded)
  BY DEF ResultInv, LoadedHeld, Started
<1>3. /\ DOMAIN j.plan = 1..n /\ DOMAIN j.results = 1..n
      /\ \A i \in 1..n : IsResult(j.plan[i], j.results[i], j.seen)
  BY <1>1 DEF IsRun
<1>4. \A i \in 1..n : FailingFindings(j.results[i]) => j.results[i].status # "passed"
  BY <1>3 DEF IsResult, FailingFindings
<1>5. ASSUME NEW i \in 1..n, FailingFindings(after[i]) PROVE after[i].status # "passed"
  <2>1. after[i] = ApplyTo(j.loaded, j.plan, j.results, i)
    BY <1>3
  <2>2. CASE Judges(j.plan[i], j.results[i])
    <3>1. after[i].stale # {} \/ Exceeds(j.loaded, j.plan[i], j.results[i])
      BY <1>1, <1>2, <1>5, <2>1, <2>2, AppliedResult DEF FailingFindings, Exceeds
    <3>2. after[i].status = "failed"
      BY <1>1, <1>2, <2>1, <2>2, <3>1, AppliedResult
    <3> QED BY <3>2
  <2>3. CASE ~Judges(j.plan[i], j.results[i])
    <3>1. after[i] = j.results[i]
      BY <1>1, <1>2, <2>1, <2>3, AppliedResult
    <3> QED BY <1>4, <1>5, <3>1
  <2> QED BY <2>2, <2>3
<1>6. DOMAIN after = 1..n
  BY <1>3
<1>7. \/ ReportOf(j) = Report(j.plan, j.results, {})
      \/ ReportOf(j) = Report(j.plan, after, Orphaned(j.loaded, j.cfg, j.plan, j.results))
  BY DEF ReportOf, Apply
<1> HIDE DEF after
<1> QED BY <1>3, <1>4, <1>5, <1>6, <1>7, AnnotatedAsReported

(* A command that ends took the step that finishes it. *)
LEMMA EndsByFinish ==
  ASSUME [Next]_vars, NEW u \in Users, Ends(u) PROVE Finish(u)
<1>1. job[u].phase = "finished" /\ job'[u].phase = "idle"
  BY DEF Ends
<1>2. ~Invoke(u) /\ ~Prepare(u) /\ ~Execute(u)
  BY <1>1 DEF Invoke, Prepare, Execute
<1>3. job' # job
  BY <1>1
<1>4. ASSUME NEW v \in Users, v # u, Invoke(v) \/ Prepare(v) \/ Execute(v) \/ Finish(v)
      PROVE  job'[u] = job[u]
  <2>1. \E e : job' = [job EXCEPT ![v] = e]
    BY <1>4 DEF Invoke, Prepare, Execute, Finish, Exit
  <2> QED BY <1>4, <2>1
<1>5. job'[u] # job[u]
  BY <1>1
<1> QED BY <1>2, <1>3, <1>4, <1>5, StepsOfJobs

(***************************************************************************)
(* baseline.go: a run that exits 0 after recording the baseline passes     *)
(* when repeated over the same source, whatever the file held before and   *)
(* whichever checks share a kind, a target and the rules they run.         *)
(***************************************************************************)
THEOREM RecordedRunPasses == Spec => RecordThenPass
<1> DEFINE Passes ==
      \A u \in Users :
        Ends(u) /\ "write" \in job[u].flags /\ job'[u].code = 0 =>
          LET j == job[u]
              kinds == \A i \in DOMAIN j.plan : j.plan[i].kind \in BaselineKinds
              again == Again(j, file')
          IN /\ again.orphans = {}
             /\ \A i \in DOMAIN again.results : again.results[i].stale = {}
             /\ kinds => again.status = "passed"
<1>1. Init => ResultInv
  BY ResultInvInit
<1>2. ResultInv /\ [Next]_vars => ResultInv'
  BY ResultInvStep
<1>3. ResultInv /\ [Next]_vars => Passes
  <2> SUFFICES ASSUME ResultInv, [Next]_vars, NEW u \in Users, Ends(u),
                      "write" \in job[u].flags, job'[u].code = 0
               PROVE  LET j == job[u]
                          kinds == \A i \in DOMAIN j.plan : j.plan[i].kind \in BaselineKinds
                          again == Again(j, file')
                      IN /\ again.orphans = {}
                         /\ \A i \in DOMAIN again.results : again.results[i].stale = {}
                         /\ kinds => again.status = "passed"
    OBVIOUS
  <2> DEFINE j == job[u]
  <2>1. Finish(u)
    BY EndsByFinish
  <2>2. j.phase = "finished" /\ file' = Record(j.loaded, j.cfg, j.plan, j.results)
    BY <2>1, FinishJob DEF ResultInv, JobInv
  <2>3. IsBaseline(j.loaded)
    BY <2>2 DEF ResultInv, LoadedHeld, Started
  <2>4. PICK n \in Nat \ {0} : IsRun(j.plan, j.results, j.seen, n)
    BY <2>2, FinishedRun
  <2>5. Recordable(j.results)
    BY <2>1, FinishJob DEF ResultInv, JobInv
  <2> DEFINE b == j.loaded
             plan == j.plan
             results == j.results
  <2>6. IsBaseline(b) /\ IsRun(plan, results, j.seen, n) /\ Recordable(results)
    BY <2>3, <2>4, <2>5
  <2> HIDE DEF b, plan, results
  <2>7. LET again == Apply(Record(b, j.cfg, plan, results), j.cfg, plan, results)
        IN /\ again.orphans = {}
           /\ \A i \in DOMAIN again.results : again.results[i].stale = {}
           /\ (\A i \in DOMAIN plan : plan[i].kind \in BaselineKinds) => again.status = "passed"
    BY <2>6, RecordPasses
  <2> QED BY <2>2, <2>7 DEF Again, b, plan, results
<1> HIDE DEF Passes
<1>4. Spec => [][Passes]_vars
  BY <1>1, <1>2, <1>3, PTL DEF Spec
<1> QED BY <1>4 DEF Passes, RecordThenPass

(***************************************************************************)
(* baseline.go: a run that applied the baseline and exits 0 hides nothing: *)
(* no check without a verdict, no finding beyond what the file accepts, no *)
(* entry that promises more than is left; and render.go annotates a report *)
(* exactly when it does not pass.                                          *)
(***************************************************************************)
THEOREM PassesHideNothing == Spec => PassHidesNothing
<1> DEFINE Annotated ==
      \A u \in Users : job[u].phase = "finished" =>
        LET report == ReportOf(job[u]) IN ErrorAnnotated(report) <=> report.status # "passed"
           Hides(j) ==
      /\ \A i \in DOMAIN j.plan :
           LET p == j.plan[i]
           IN /\ Completed(j.results[i])
              /\ \A f \in Findings :
                   Runs(p, f.code) /\ ~Advisory(p, f.code) =>
                     LET k == Key(p, f)
                     IN j.seen[p.dir][f] <= IF p.kind \in BaselineKinds /\ k \in DOMAIN j.loaded
                                            THEN j.loaded[k] ELSE 0
      /\ \A k \in DOMAIN j.loaded :
           LET judges == Covering(j.plan, j.results, k)
           IN judges # {} => \E i \in judges : FoundOf(j.plan[i], j.results[i], k) >= j.loaded[k]
           Honest ==
      \A u \in Users : LET j == job[u] IN
        /\ job'[u].phase = "finished" =>
             LET report == ReportOf(job'[u])
             IN ErrorAnnotated(report) <=> report.status # "passed"
        /\ Ends(u) /\ Applies(j) /\ job'[u].code = 0 => Hides(j)
<1>1. Init => ResultInv
  BY ResultInvInit
<1>2. ResultInv /\ [Next]_vars => ResultInv'
  BY ResultInvStep
<1>3. ResultInv => Annotated
  BY FinishedIsAnnotated
<1>4. ResultInv /\ Annotated' /\ [Next]_vars => Honest
  <2> SUFFICES ASSUME ResultInv, Annotated', [Next]_vars, NEW u \in Users, Ends(u),
                      Applies(job[u]), job'[u].code = 0
               PROVE  Hides(job[u])
    BY DEF Annotated
  <2> DEFINE j == job[u]
  <2>1. Finish(u)
    BY EndsByFinish
  <2>2. j.phase = "finished" /\ ReportOf(j).status = "passed"
    BY <2>1, FinishJob DEF ResultInv, JobInv, Applies
  <2>3. Apply(j.loaded, j.cfg, j.plan, j.results).status = "passed"
    BY <2>2 DEF ReportOf
  <2>4. IsBaseline(j.loaded)
    BY <2>2 DEF ResultInv, LoadedHeld, Started
  <2>5. PICK n \in Nat \ {0} : IsRun(j.plan, j.results, j.seen, n)
    BY <2>2, FinishedRun
  <2>6. /\ \A i \in 1..n :
             /\ Completed(j.results[i])
             /\ \A f \in Findings :
                  j.results[i].found[f] <=
                    IF j.plan[i].kind \in BaselineKinds /\ Key(j.plan[i], f) \in DOMAIN j.loaded
                    THEN j.loaded[Key(j.plan[i], f)] ELSE 0
        /\ \A k \in DOMAIN j.loaded : Covering(j.plan, j.results, k) # {} =>
             \E i \in Covering(j.plan, j.results, k) :
               FoundOf(j.plan[i], j.results[i], k) >= j.loaded[k]
    BY <2>3, <2>4, <2>5, PassedReport
  <2>7. DOMAIN j.plan = 1..n /\ \A i \in 1..n : IsResult(j.plan[i], j.results[i], j.seen)
    BY <2>5 DEF IsRun
  <2>8. ASSUME NEW i \in 1..n, NEW f \in Findings, Runs(j.plan[i], f.code),
               ~Advisory(j.plan[i], f.code)
        PROVE  j.seen[j.plan[i].dir][f] = j.results[i].found[f]
    BY <2>6, <2>7, <2>8 DEF IsResult
  <2> HIDE DEF j
  <2>9. Hides(j)
    BY <2>6, <2>7, <2>8
  <2> QED BY <2>9 DEF j
<1> HIDE DEF Honest, Annotated
<1>5. Spec => [][Honest]_vars
  BY <1>1, <1>2, <1>3, <1>4, PTL DEF Spec
<1> QED BY <1>5 DEF Honest, PassHidesNothing
===============================================================================
