------------------------------ MODULE GateProofs ------------------------------
(***************************************************************************)
(* Proofs about Gate, for every finite set of readers and writers.         *)
(***************************************************************************)
EXTENDS Gate, FiniteSetTheorems, TLAPS

(***************************************************************************)
(* The inductive invariant.  Exclusion alone is not inductive: a reader    *)
(* enters on what the counters say, so the invariant has to say that the   *)
(* counters are exact and that writer excludes readers.                    *)
(***************************************************************************)
OneWriter ==
  \A v, w \in Writers : status[v] = "inside" /\ status[w] = "inside" => v = w

WriterExcludesReaders == writer => readers = 0

IInv ==
  /\ TypeOK
  /\ CountsExact
  /\ OneWriter
  /\ WriterExcludesReaders

-----------------------------------------------------------------------------
(* Every subset of the checks the counters range over is finite. *)
LEMMA FiniteCounts ==
  /\ IsFiniteSet(InsideReaders)
  /\ IsFiniteSet(WaitingWriters)
  /\ IsFiniteSet(InsideReaders')
  /\ IsFiniteSet(WaitingWriters')
  BY GateAssumption, FS_Subset DEF InsideReaders, WaitingWriters

(* No check is both a reader and a writer. *)
LEMMA Apart == \A c \in Checks : ~(c \in Readers /\ c \in Writers)
  BY GateAssumption DEF Checks

(***************************************************************************)
(* A counted set that gains one new member counts one more, and one that   *)
(* loses a member one less.                                                *)
(***************************************************************************)
LEMMA CountUp ==
  ASSUME NEW S, NEW T, NEW x, IsFiniteSet(S), x \notin S, T = S \cup {x}
  PROVE  Cardinality(T) = Cardinality(S) + 1
  BY FS_AddElement

(* Removing a member of a finite set takes one off its cardinality. *)
LEMMA CountDown ==
  ASSUME NEW S, NEW T, NEW x, IsFiniteSet(S), x \in S, T = S \ {x}
  PROVE  /\ Cardinality(T) = Cardinality(S) - 1
         /\ Cardinality(S) \in Nat \ {0}
<1>1. Cardinality(T) = Cardinality(S) - 1
  BY FS_RemoveElement
<1>2. Cardinality(S) \in Nat
  BY FS_CardinalityType
<1>3. Cardinality(S) # 0
  BY FS_EmptySet
<1> QED BY <1>1, <1>2, <1>3

-----------------------------------------------------------------------------
(***************************************************************************)
(* What one turn of the loop of acquire does, for a check the count q      *)
(* already includes if it is a writer.  Counted(c) are the writers that q  *)
(* counts: those waiting, and c if it is one.                              *)
(***************************************************************************)
Counted(c) == WaitingWriters \cup (IF c \in Writers THEN {c} ELSE {})

(* One attempt under the mutex, from either of its callers, keeps the parts. *)
LEMMA AttemptPreserves ==
  ASSUME IInv, NEW c \in Checks, NEW q \in Nat, Attempt(c, q),
         status[c] \in {"idle", "signalled"},
         q = Cardinality(Counted(c))
  PROVE  /\ status' \in [Checks -> {"idle", "parked", "signalled", "inside"}]
         /\ readers' \in Nat /\ writer' \in BOOLEAN /\ queued' \in Nat
         /\ CountsExact' /\ OneWriter' /\ WriterExcludesReaders'
<1> USE DEF IInv, TypeOK, Checks
<1>f. IsFiniteSet(Counted(c)) /\ IsFiniteSet(InsideReaders)
  <2>1. Counted(c) \in SUBSET Writers
    BY DEF Counted, WaitingWriters
  <2> QED BY <2>1, FS_Subset, GateAssumption, FiniteCounts
<1>a. ~(c \in Readers /\ c \in Writers)
  BY Apart
<1>1. CASE /\ c \in Writers /\ WriterMayEnter
           /\ writer' = TRUE /\ queued' = q - 1
           /\ status' = [status EXCEPT ![c] = "inside"]
           /\ UNCHANGED readers
  <2>1. WaitingWriters' = Counted(c) \ {c} /\ c \in Counted(c)
    BY <1>1 DEF Counted, WaitingWriters, Waiting
  <2>2. queued' = Cardinality(WaitingWriters') /\ q \in Nat \ {0}
    BY <2>1, <1>1, <1>f, CountDown
  <2>3. InsideReaders' = InsideReaders
    BY <1>1, <1>a DEF InsideReaders
  <2>4. \A w \in Writers : status[w] # "inside"
    BY <1>1 DEF CountsExact, WriterMayEnter
  <2>5. \A w \in Writers : status'[w] = "inside" <=> w = c
    BY <1>1, <2>4
  <2>6. CountsExact'
    <3>1. readers' = Cardinality(InsideReaders')
      BY <1>1, <2>3 DEF CountsExact
    <3>2. writer' = \E w \in Writers : status'[w] = "inside"
      BY <1>1, <2>5
    <3> QED BY <2>2, <3>1, <3>2 DEF CountsExact
  <2>7. OneWriter' /\ WriterExcludesReaders'
    BY <1>1, <2>5 DEF OneWriter, WriterExcludesReaders, WriterMayEnter
  <2>8. /\ status' \in [Checks -> {"idle", "parked", "signalled", "inside"}]
        /\ readers' \in Nat /\ writer' \in BOOLEAN /\ queued' \in Nat
    BY <1>1, <2>2
  <2> QED BY <2>6, <2>7, <2>8
<1>2. CASE /\ c \in Readers /\ ReaderMayEnter(q)
           /\ readers' = readers + 1 /\ queued' = q
           /\ status' = [status EXCEPT ![c] = "inside"]
           /\ UNCHANGED writer
  <2>1. InsideReaders' = InsideReaders \cup {c} /\ c \notin InsideReaders
    BY <1>2 DEF InsideReaders
  <2>2. readers' = Cardinality(InsideReaders')
    BY <1>2, <2>1, <1>f, CountUp DEF CountsExact
  <2>3. WaitingWriters' = WaitingWriters /\ Counted(c) = WaitingWriters
    BY <1>2, <1>a DEF Counted, WaitingWriters, Waiting
  <2>4. \A w \in Writers : status'[w] = status[w]
    BY <1>2, <1>a
  <2>5. CountsExact'
    BY <1>2, <2>2, <2>3, <2>4 DEF CountsExact
  <2> QED BY <1>2, <2>4, <2>5 DEF OneWriter, WriterExcludesReaders, ReaderMayEnter
<1>3. CASE /\ queued' = q
           /\ status' = [status EXCEPT ![c] = "parked"]
           /\ UNCHANGED <<readers, writer>>
  <2>1. WaitingWriters' = Counted(c)
    BY <1>3 DEF Counted, WaitingWriters, Waiting
  <2>2. InsideReaders' = InsideReaders
    BY <1>3 DEF InsideReaders
  <2>3. \A w \in Writers : status'[w] = "inside" <=> status[w] = "inside"
    BY <1>3
  <2> QED BY <1>3, <2>1, <2>2, <2>3 DEF CountsExact, OneWriter, WriterExcludesReaders
<1> QED BY <1>1, <1>2, <1>3 DEF Attempt

-----------------------------------------------------------------------------
(* The invariant is inductive. *)
LEMMA InitIInv == Init => IInv
<1> SUFFICES ASSUME Init PROVE IInv
  OBVIOUS
<1>1. InsideReaders = {} /\ WaitingWriters = {}
  BY DEF Init, InsideReaders, WaitingWriters, Waiting, Checks
<1>2. CountsExact
  BY <1>1, FS_EmptySet DEF Init, CountsExact, Checks
<1>3. TypeOK
  <2>1. arrivals \in [Writers -> 0..MaxArrivals]
    BY GateAssumption DEF Init
  <2> QED BY <2>1 DEF Init, TypeOK
<1>4. \A c \in Checks : status[c] # "inside"
  BY DEF Init
<1> QED
  BY <1>2, <1>3, <1>4 DEF Init, IInv, OneWriter, WriterExcludesReaders, Checks

(***************************************************************************)
(* A broadcast moves nobody in or out of the counted sets but its caller,  *)
(* which it makes idle.                                                    *)
(***************************************************************************)
LEMMA BroadcastCounts ==
  ASSUME TypeOK, NEW c \in Checks, status' = Broadcast(c, "idle")
  PROVE  /\ status' \in [Checks -> {"idle", "parked", "signalled", "inside"}]
         /\ InsideReaders' = InsideReaders \ {c}
         /\ WaitingWriters' = WaitingWriters \ {c}
         /\ \A d \in Checks : status'[d] = "inside" <=> d # c /\ status[d] = "inside"
  BY DEF TypeOK, Checks, Broadcast, WakeAll, InsideReaders, WaitingWriters, Waiting

(* Every critical section keeps the invariant. *)
LEMMA StepIInv == IInv /\ [Next]_vars => IInv'
<1> SUFFICES ASSUME IInv, [Next]_vars PROVE IInv'
  OBVIOUS
<1> USE DEF IInv
<1>1. ASSUME NEW c \in Readers, ArriveReader(c) PROVE IInv'
  <2>1. Counted(c) = WaitingWriters /\ c \in Checks
    BY Apart DEF Counted, Checks
  <2> QED BY <1>1, <2>1, AttemptPreserves DEF ArriveReader, CountsExact, TypeOK
<1>2. ASSUME NEW c \in Writers, ArriveWriter(c) PROVE IInv'
  <2>1. Counted(c) = WaitingWriters \cup {c} /\ c \notin WaitingWriters /\ c \in Checks
    BY <1>2 DEF Counted, Checks, ArriveWriter, WaitingWriters, Waiting
  <2>2. queued + 1 = Cardinality(Counted(c)) /\ queued + 1 \in Nat
    BY <2>1, CountUp, FiniteCounts DEF CountsExact, TypeOK
  <2>3. arrivals' \in [Writers -> 0..MaxArrivals]
    BY <1>2, GateAssumption DEF ArriveWriter, TypeOK
  <2> QED BY <1>2, <2>1, <2>2, <2>3, AttemptPreserves DEF ArriveWriter, TypeOK
<1>3. ASSUME NEW c \in Checks, Retry(c) PROVE IInv'
  <2>1. Counted(c) = WaitingWriters
    BY <1>3 DEF Counted, Retry, WaitingWriters, Waiting
  <2> QED BY <1>3, <2>1, AttemptPreserves DEF Retry, CountsExact, TypeOK
<1>4. ASSUME NEW c \in Readers, GiveUpReader(c) PROVE IInv'
  <2>1. c \in Checks /\ c \notin Writers
    BY Apart DEF Checks
  <2>2. InsideReaders' = InsideReaders /\ WaitingWriters' = WaitingWriters
    BY <1>4, <2>1 DEF GiveUpReader, InsideReaders, WaitingWriters, Waiting, TypeOK
  <2>3. TypeOK'
    BY <1>4, <2>1 DEF GiveUpReader, TypeOK
  <2>4. \A w \in Writers : status'[w] = status[w]
    BY <1>4, <2>1 DEF GiveUpReader, TypeOK
  <2>5. UNCHANGED <<readers, writer, queued>>
    BY <1>4 DEF GiveUpReader
  <2> QED BY <2>2, <2>3, <2>4, <2>5 DEF CountsExact, OneWriter, WriterExcludesReaders
<1>5. ASSUME NEW c \in Writers, GiveUpWriter(c) PROVE IInv'
  <2>1. c \in Checks /\ c \notin InsideReaders /\ c \in WaitingWriters /\ status[c] # "inside"
    BY <1>5, Apart DEF Checks, GiveUpWriter, InsideReaders, WaitingWriters, Waiting
  <2>2. InsideReaders' = InsideReaders /\ WaitingWriters' = WaitingWriters \ {c}
    BY <1>5, <2>1, BroadcastCounts DEF GiveUpWriter
  <2>3. queued' = Cardinality(WaitingWriters') /\ queued' \in Nat
    BY <1>5, <2>1, <2>2, CountDown, FiniteCounts DEF GiveUpWriter, CountsExact
  <2>4. \A d \in Checks : status'[d] = "inside" <=> status[d] = "inside"
    BY <1>5, <2>1, BroadcastCounts DEF GiveUpWriter
  <2>5. TypeOK'
    BY <1>5, <2>1, <2>3, BroadcastCounts DEF GiveUpWriter, TypeOK
  <2>6. UNCHANGED <<readers, writer>>
    BY <1>5 DEF GiveUpWriter
  <2> QED BY <2>2, <2>3, <2>4, <2>5, <2>6 DEF CountsExact, OneWriter, WriterExcludesReaders, Checks
<1>6. ASSUME NEW c \in Readers, LeaveReader(c) PROVE IInv'
  <2>1. c \in Checks /\ c \notin Writers /\ c \in InsideReaders /\ c \notin WaitingWriters
    BY <1>6, Apart DEF Checks, LeaveReader, InsideReaders, WaitingWriters
  <2>2. InsideReaders' = InsideReaders \ {c} /\ WaitingWriters' = WaitingWriters
    BY <1>6, <2>1, BroadcastCounts DEF LeaveReader
  <2>3. readers' = Cardinality(InsideReaders') /\ readers' \in Nat /\ readers # 0
    BY <1>6, <2>1, <2>2, CountDown, FiniteCounts DEF LeaveReader, CountsExact
  <2>4. \A w \in Writers : status'[w] = "inside" <=> status[w] = "inside"
    BY <1>6, <2>1, BroadcastCounts DEF LeaveReader, Checks
  <2>5. TypeOK'
    BY <1>6, <2>1, <2>3, BroadcastCounts DEF LeaveReader, TypeOK
  <2>6. UNCHANGED <<writer, queued>>
    BY <1>6 DEF LeaveReader
  <2> QED BY <2>2, <2>3, <2>4, <2>5, <2>6 DEF CountsExact, OneWriter, WriterExcludesReaders
<1>7. ASSUME NEW c \in Writers, LeaveWriter(c) PROVE IInv'
  <2>1. c \in Checks /\ c \notin InsideReaders /\ c \notin WaitingWriters /\ status[c] = "inside"
    BY <1>7, Apart DEF Checks, LeaveWriter, InsideReaders, WaitingWriters, Waiting
  <2>2. InsideReaders' = InsideReaders /\ WaitingWriters' = WaitingWriters
    BY <1>7, <2>1, BroadcastCounts DEF LeaveWriter
  <2>3. \A w \in Writers : status'[w] # "inside"
    BY <1>7, <2>1, BroadcastCounts DEF LeaveWriter, OneWriter, Checks
  <2>4. TypeOK'
    BY <1>7, <2>1, BroadcastCounts DEF LeaveWriter, TypeOK
  <2>5. writer' = FALSE /\ UNCHANGED <<readers, queued>>
    BY <1>7 DEF LeaveWriter
  <2> QED BY <2>2, <2>3, <2>4, <2>5 DEF CountsExact, OneWriter, WriterExcludesReaders
<1>8. ASSUME NEW c \in Checks, Cancel(c) PROVE IInv'
  BY <1>8 DEF Cancel, TypeOK, CountsExact, OneWriter, WriterExcludesReaders,
     InsideReaders, WaitingWriters, Waiting, Checks
<1>9. CASE UNCHANGED vars
  BY <1>9 DEF vars, TypeOK, CountsExact, OneWriter, WriterExcludesReaders,
     InsideReaders, WaitingWriters, Waiting, Checks
<1> QED
  BY <1>1, <1>2, <1>3, <1>4, <1>5, <1>6, <1>7, <1>8, <1>9 DEF Next

(* The invariant holds in every state a behaviour reaches. *)
LEMMA SpecIInv == Spec => []IInv
  BY InitIInv, StepIInv, PTL DEF Spec

-----------------------------------------------------------------------------
(* Types are kept, and the counters never go below zero. *)
THEOREM TypeCorrect == Spec => []TypeOK
  BY SpecIInv, PTL DEF IInv

(* The fields of the gate always count exactly who is inside and waiting. *)
THEOREM CountsAreExact == Spec => []CountsExact
  BY SpecIInv, PTL DEF IInv

(***************************************************************************)
(* A check that can write the tree is alone in it: a reader inside would   *)
(* make readers positive, which the flag of the writer inside excludes.    *)
(***************************************************************************)
LEMMA IInvWriterAlone == IInv => WriterAlone
<1> SUFFICES ASSUME IInv, NEW w \in Writers, status[w] = "inside",
                    NEW c \in Checks, status[c] = "inside"
             PROVE  c = w
  BY DEF WriterAlone, Inside, Checks
<1>1. readers = 0 /\ readers = Cardinality(InsideReaders)
  BY DEF IInv, CountsExact, WriterExcludesReaders
<1>2. InsideReaders = {}
  BY <1>1, FiniteCounts, FS_EmptySet
<1>3. c \in Writers
  BY <1>2 DEF InsideReaders, Checks
<1> QED BY <1>3 DEF IInv, OneWriter

(* In every behaviour, a check that writes is inside the gate alone. *)
THEOREM MutualExclusion == Spec => []WriterAlone
  BY SpecIInv, IInvWriterAlone, PTL

(***************************************************************************)
(* No wake-up is lost.  It needs types alone: what shuts the gate for a    *)
(* parked check is only ever undone together with a broadcast.             *)
(***************************************************************************)
LEMMA StepNoLostWakeup ==
  IInv /\ NoLostWakeup /\ [Next]_vars => NoLostWakeup'
<1> SUFFICES ASSUME IInv, NoLostWakeup, [Next]_vars PROVE NoLostWakeup'
  OBVIOUS
<1> USE DEF IInv, TypeOK, NoLostWakeup, WriterMayEnter, ReaderMayEnter
<1>1. ASSUME NEW c \in Checks, NEW q \in Nat, Attempt(c, q), q >= queued,
             c \in Readers => q = queued
      PROVE  NoLostWakeup'
  <2> SUFFICES ASSUME NEW d \in Checks, status'[d] = "parked"
               PROVE  IF d \in Writers THEN ~WriterMayEnter' ELSE ~ReaderMayEnter(queued)'
    BY DEF NoLostWakeup
  <2>1. CASE /\ c \in Writers /\ WriterMayEnter /\ writer' = TRUE /\ queued' = q - 1
             /\ status' = [status EXCEPT ![c] = "inside"] /\ UNCHANGED readers
    BY <2>1
  <2>2. CASE /\ c \in Readers /\ ReaderMayEnter(q) /\ readers' = readers + 1 /\ queued' = q
             /\ status' = [status EXCEPT ![c] = "inside"] /\ UNCHANGED writer
    BY <2>2, <1>1
  <2>3. CASE /\ c \in Writers => ~WriterMayEnter
             /\ c \in Readers => ~ReaderMayEnter(q)
             /\ queued' = q /\ status' = [status EXCEPT ![c] = "parked"]
             /\ UNCHANGED <<readers, writer>>
    BY <2>3, <1>1 DEF Checks
  <2> QED BY <1>1, <2>1, <2>2, <2>3 DEF Attempt
<1>2. ASSUME NEW c \in Checks, NEW s \in {"idle"}, status' = Broadcast(c, s)
      PROVE  NoLostWakeup'
  BY <1>2 DEF Broadcast, WakeAll
<1>3. ASSUME NEW c \in Readers, ArriveReader(c) PROVE NoLostWakeup'
  BY <1>3, <1>1 DEF ArriveReader, Checks
<1>4. ASSUME NEW c \in Writers, ArriveWriter(c) PROVE NoLostWakeup'
  <2>1. c \in Checks /\ c \notin Readers
    BY Apart DEF Checks
  <2> QED BY <1>4, <1>1, <2>1 DEF ArriveWriter
<1>5. ASSUME NEW c \in Checks, Retry(c) PROVE NoLostWakeup'
  BY <1>5, <1>1 DEF Retry
<1>6. ASSUME NEW c \in Readers, GiveUpReader(c) PROVE NoLostWakeup'
  BY <1>6 DEF GiveUpReader
<1>7. ASSUME NEW c \in Writers, GiveUpWriter(c) PROVE NoLostWakeup'
  BY <1>7, <1>2 DEF GiveUpWriter, Checks
<1>8. ASSUME NEW c \in Readers, LeaveReader(c) PROVE NoLostWakeup'
  BY <1>8, <1>2 DEF LeaveReader, Checks
<1>9. ASSUME NEW c \in Writers, LeaveWriter(c) PROVE NoLostWakeup'
  BY <1>9, <1>2 DEF LeaveWriter, Checks
<1>10. ASSUME NEW c \in Checks, Cancel(c) PROVE NoLostWakeup'
  BY <1>10 DEF Cancel
<1>11. CASE UNCHANGED vars
  BY <1>11 DEF vars
<1> QED
  BY <1>3, <1>4, <1>5, <1>6, <1>7, <1>8, <1>9, <1>10, <1>11 DEF Next

(* In every behaviour, no check stays parked that would be let in. *)
THEOREM WakeupsAreNotLost == Spec => []NoLostWakeup
<1>1. Init => NoLostWakeup
  BY DEF Init, NoLostWakeup
<1> QED BY <1>1, SpecIInv, StepNoLostWakeup, PTL DEF Spec

(***************************************************************************)
(* No reader passes a waiting writer: it enters only when queued is zero,  *)
(* and queued counts every waiting writer.                                 *)
(***************************************************************************)
LEMMA StepNoOvertaking ==
  ASSUME IInv, Next, NEW r \in Readers, NEW w \in Writers,
         status[r] # "inside", status'[r] = "inside"
  PROVE  ~Waiting(w)
<1> USE DEF IInv, TypeOK
<1>1. r \in Checks /\ r \notin Writers
  BY Apart DEF Checks
<1>2. ASSUME NEW c \in Checks, NEW q \in Nat, Attempt(c, q), c \in Readers => q = queued
      PROVE  queued = 0
  <2>1. c = r
    BY <1>1, <1>2 DEF Attempt
  <2> QED BY <1>1, <1>2, <2>1 DEF Attempt, ReaderMayEnter
<1>3. ASSUME NEW c \in Checks, status' = Broadcast(c, "idle") PROVE FALSE
  BY <1>1, <1>3 DEF Broadcast, WakeAll
<1>4. queued = 0
  <2>1. ASSUME NEW c \in Readers, ArriveReader(c) PROVE queued = 0
    BY <2>1, <1>2 DEF ArriveReader, Checks
  <2>2. ASSUME NEW c \in Writers, ArriveWriter(c) PROVE queued = 0
    <3>1. c \in Checks /\ c \notin Readers
      BY Apart DEF Checks
    <3> QED BY <3>1, <2>2, <1>2 DEF ArriveWriter
  <2>3. ASSUME NEW c \in Checks, Retry(c) PROVE queued = 0
    BY <2>3, <1>2 DEF Retry
  <2>4. ASSUME NEW c \in Readers, GiveUpReader(c) PROVE FALSE
    BY <2>4, <1>1 DEF GiveUpReader
  <2>5. ASSUME NEW c \in Readers, LeaveReader(c) PROVE FALSE
    BY <2>5, <1>3 DEF LeaveReader, Checks
  <2>6. ASSUME NEW c \in Writers, GiveUpWriter(c) \/ LeaveWriter(c) PROVE FALSE
    BY <2>6, <1>3 DEF GiveUpWriter, LeaveWriter, Checks
  <2>7. ASSUME NEW c \in Checks, Cancel(c) PROVE FALSE
    BY <2>7 DEF Cancel
  <2> QED BY <2>1, <2>2, <2>3, <2>4, <2>5, <2>6, <2>7 DEF Next
<1>5. WaitingWriters = {}
  BY <1>4, FiniteCounts, FS_EmptySet DEF CountsExact
<1> QED BY <1>5 DEF WaitingWriters

(* No step of any behaviour lets a reader in past a waiting writer. *)
THEOREM WritersAreNotOvertaken == Spec => NoReaderOvertakes
<1>1. IInv /\ [Next]_vars =>
        [\A r \in Readers, w \in Writers :
           (status[r] # "inside" /\ status'[r] = "inside") => ~Waiting(w)]_vars
  BY StepNoOvertaking
<1> QED BY <1>1, SpecIInv, PTL DEF Spec, NoReaderOvertakes

-----------------------------------------------------------------------------
(***************************************************************************)
(* The gate implements TreeAccess: whoever gets in is compatible with      *)
(* everyone inside, and no step admits or evicts anybody else.             *)
(***************************************************************************)
Asked == {c \in Checks : Waiting(c)}

(* Every critical section is a step, or a stutter, of the tree. *)
LEMMA TreeStep == IInv /\ [Next]_vars => [Tree!TreeNext]_(Tree!treeVars)
<1> SUFFICES ASSUME IInv, [Next]_vars PROVE [Tree!TreeNext]_(Tree!treeVars)
  OBVIOUS
<1> USE DEF IInv, TypeOK
<1> USE DEF Tree!treeVars, Asked, Inside, Waiting
<1>1. ASSUME NEW c \in Checks, NEW q \in Nat, Attempt(c, q),
             status[c] \in {"idle", "signalled"},
             c \in Readers => q = queued
      PROVE  [Tree!TreeNext]_(Tree!treeVars)
  <2>1. CASE status' = [status EXCEPT ![c] = "inside"]
    <3>1. Asked' = Asked \ {c} /\ Inside' = Inside \cup {c} /\ c \notin Inside
      BY <1>1, <2>1
    <3>2. ASSUME NEW d \in Inside PROVE Tree!Compatible(c, d)
      <4>1. CASE c \in Writers
        <5>1. ~writer /\ readers = 0
          BY <1>1, <2>1, <4>1, Apart DEF Attempt, WriterMayEnter
        <5>2. InsideReaders = {}
          BY <5>1, FiniteCounts, FS_EmptySet DEF CountsExact
        <5> QED BY <5>1, <5>2 DEF CountsExact, InsideReaders, Checks
      <4>2. CASE c \in Readers
        <5>1. ~writer
          BY <1>1, <2>1, <4>2, Apart DEF Attempt, ReaderMayEnter
        <5> QED BY <5>1, <4>2, Apart DEF CountsExact, Checks, Tree!Compatible, Tree!MayShare
      <4> QED BY <4>1, <4>2 DEF Checks
    <3>3. Tree!Enter(c)
      BY <3>1, <3>2 DEF Tree!Enter
    <3> QED BY <3>3 DEF Tree!TreeNext
  <2>2. CASE status' = [status EXCEPT ![c] = "parked"]
    <3>1. Inside' = Inside /\ Asked' = Asked \cup {c}
      BY <1>1, <2>2
    <3>2. status[c] = "idle" => c \notin Asked \cup Inside
      BY <1>1
    <3>3. status[c] = "signalled" => c \in Asked
      BY <1>1
    <3>4. CASE status[c] = "idle"
      <4>1. Tree!Ask(c)
        BY <3>1, <3>2, <3>4 DEF Tree!Ask
      <4> QED BY <4>1 DEF Tree!TreeNext
    <3>5. CASE status[c] = "signalled"
      <4>1. Asked' = Asked
        BY <3>1, <3>3, <3>5
      <4> QED BY <4>1, <3>1
    <3> QED BY <1>1, <3>4, <3>5
  <2> QED BY <1>1, <2>1, <2>2 DEF Attempt
<1>2. ASSUME NEW c \in Readers, ArriveReader(c) PROVE [Tree!TreeNext]_(Tree!treeVars)
  BY <1>2, <1>1 DEF ArriveReader, Checks
<1>3. ASSUME NEW c \in Writers, ArriveWriter(c) PROVE [Tree!TreeNext]_(Tree!treeVars)
  <2>1. c \in Checks /\ c \notin Readers
    BY Apart DEF Checks
  <2> QED BY <1>3, <1>1, <2>1 DEF ArriveWriter
<1>4. ASSUME NEW c \in Checks, Retry(c) PROVE [Tree!TreeNext]_(Tree!treeVars)
  BY <1>4, <1>1 DEF Retry
<1>5. ASSUME NEW c \in Checks, Waiting(c),
             \/ status' = [status EXCEPT ![c] = "idle"]
             \/ status' = Broadcast(c, "idle")
      PROVE  [Tree!TreeNext]_(Tree!treeVars)
  <2>1. Asked' = Asked \ {c} /\ Inside' = Inside /\ c \in Asked
    BY <1>5 DEF Broadcast, WakeAll
  <2>2. Tree!GiveUp(c)
    BY <2>1 DEF Tree!GiveUp
  <2> QED BY <2>2 DEF Tree!TreeNext
<1>6. ASSUME NEW c \in Checks, status[c] = "inside", status' = Broadcast(c, "idle")
      PROVE  [Tree!TreeNext]_(Tree!treeVars)
  <2>1. Asked' = Asked /\ Inside' = Inside \ {c} /\ c \in Inside
    BY <1>6 DEF Broadcast, WakeAll
  <2>2. Tree!Leave(c)
    BY <2>1 DEF Tree!Leave
  <2> QED BY <2>2 DEF Tree!TreeNext
<1>7. ASSUME NEW c \in Readers, GiveUpReader(c) \/ LeaveReader(c)
      PROVE  [Tree!TreeNext]_(Tree!treeVars)
  BY <1>7, <1>5, <1>6 DEF GiveUpReader, LeaveReader, Checks
<1>8. ASSUME NEW c \in Writers, GiveUpWriter(c) \/ LeaveWriter(c)
      PROVE  [Tree!TreeNext]_(Tree!treeVars)
  BY <1>8, <1>5, <1>6 DEF GiveUpWriter, LeaveWriter, Checks
<1>9. ASSUME UNCHANGED status PROVE [Tree!TreeNext]_(Tree!treeVars)
  BY <1>9
<1> QED
  BY <1>2, <1>3, <1>4, <1>7, <1>8, <1>9 DEF Next, Cancel, vars

(* The gate implements the promise of TreeAccess, for any checks. *)
THEOREM GateImplementsTreeAccess == Spec => ImplementsTreeAccess
<1>1. Init => Tree!TreeInit
  BY DEF Init, Tree!TreeInit, Inside, Waiting
<1> QED
  BY <1>1, SpecIInv, TreeStep, PTL DEF Spec, ImplementsTreeAccess, Tree!TreeSpec
===============================================================================
