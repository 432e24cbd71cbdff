---------------------------- MODULE WorkspaceProofs ----------------------------
(***************************************************************************)
(* Proofs about Workspace, for every number of checks and processes.       *)
(***************************************************************************)
EXTENDS Workspace, FiniteSetTheorems, TLAPS

(***************************************************************************)
(* The inductive invariant.  Exclusion between processes follows from the  *)
(* exact hold, exclusion within one from what the gate lets through; and   *)
(* that the hold stays exact needs the slot: whoever is in lockFile has    *)
(* the slot, and nobody of its process holds the lock meanwhile.           *)
(***************************************************************************)
OnlyLocked == \A c \in Checks : status[c] \in {"slot", "lock", "drop"} => c \in Locked

SlotExact ==
  /\ \A c \in Checks : status[c] = "lock" => slot[ProcessOf[c]] = c
  /\ \A p \in Processes : slot[p] # Nobody => status[slot[p]] = "lock" /\ ProcessOf[slot[p]] = p

LockFirst == \A c \in Checks : status[c] = "lock" => holders[ProcessOf[c]] = 0

GateExact ==
  \A w \in Writers : \A c \in Mates(w) : ~(PassedGate(w) /\ PassedGate(c))

IInv ==
  /\ TypeOK
  /\ OnlyLocked
  /\ SlotExact
  /\ LockFirst
  /\ GateExact
  /\ HoldExact

-----------------------------------------------------------------------------
(* Each process holds the tree for finitely many checks. *)
LEMMA FiniteHolding == \A p : IsFiniteSet(Holding(p)) /\ IsFiniteSet(Holding(p)')
<1>1. \A p : Holding(p) \subseteq Checks /\ Holding(p)' \subseteq Checks
  BY DEF Holding
<1> QED BY <1>1, WorkspaceAssumption, FS_Subset

(* A set of holders with one more, or one less. *)
LEMMA CountUp ==
  ASSUME NEW S, NEW T, NEW x, IsFiniteSet(S), x \notin S, T = S \cup {x}
  PROVE  Cardinality(T) = Cardinality(S) + 1
  BY FS_AddElement

(* Removing a member of a finite set takes one off its cardinality. *)
LEMMA CountDown ==
  ASSUME NEW S, NEW T, NEW x, IsFiniteSet(S), x \in S, T = S \ {x}
  PROVE  /\ Cardinality(T) = Cardinality(S) - 1
         /\ Cardinality(S) \in Nat \ {0}
<1>1. Cardinality(T) = Cardinality(S) - 1
  BY FS_RemoveElement
<1>2. Cardinality(S) \in Nat
  BY FS_CardinalityType
<1>3. Cardinality(S) # 0
  BY FS_EmptySet
<1> QED BY <1>1, <1>2, <1>3

(* Whoever holds the lock has counted itself: the process owns the lock. *)
LEMMA HolderOwnsLock ==
  ASSUME IInv, NEW c \in Checks, c \in Locked, status[c] \in {"inside", "drop"}
  PROVE  holders[ProcessOf[c]] > 0 /\ flock = ProcessOf[c]
<1>1. ProcessOf[c] \in Processes /\ c \in Holding(ProcessOf[c])
  BY WorkspaceAssumption DEF Holding
<1>2. Cardinality(Holding(ProcessOf[c])) \in Nat \ {0}
  BY <1>1, FiniteHolding, FS_EmptySet, FS_CardinalityType
<1> QED BY <1>1, <1>2 DEF IInv, HoldExact

(* The same of the state a step leads to. *)
LEMMA HolderOwnsLockNext ==
  ASSUME IInv', NEW c \in Checks, c \in Locked, status'[c] \in {"inside", "drop"}
  PROVE  flock' = ProcessOf[c]
<1>1. ProcessOf[c] \in Processes /\ c \in Holding(ProcessOf[c])'
  BY WorkspaceAssumption DEF Holding
<1>2. Cardinality(Holding(ProcessOf[c])') \in Nat \ {0}
  BY <1>1, FiniteHolding, FS_EmptySet, FS_CardinalityType
<1> QED BY <1>1, <1>2 DEF IInv, HoldExact

-----------------------------------------------------------------------------
(* The hold is exact again after a step that changes no holder. *)
LEMMA HoldKept ==
  ASSUME HoldExact, UNCHANGED <<holders, flock>>,
         \A c \in Checks \cap Locked :
           status[c] \in {"inside", "drop"} <=> status'[c] \in {"inside", "drop"}
  PROVE  HoldExact'
<1>1. \A p : Holding(p)' = Holding(p)
  BY DEF Holding
<1> QED BY <1>1 DEF HoldExact

(* A check of process p becomes a holder while the lock is free or p's. *)
LEMMA HoldGained ==
  ASSUME IInv, NEW c \in Checks, c \in Locked, status[c] \in {"slot", "lock"},
         status' = [status EXCEPT ![c] = "inside"],
         holders' = [holders EXCEPT ![ProcessOf[c]] = @ + 1],
         flock' = ProcessOf[c], flock \in {Nobody, ProcessOf[c]}
  PROVE  HoldExact'
<1> DEFINE q == ProcessOf[c]
<1>1. q \in Processes /\ Nobody \notin Processes
  BY WorkspaceAssumption
<1>2. Holding(q)' = Holding(q) \cup {c} /\ c \notin Holding(q)
  BY DEF Holding, IInv, TypeOK
<1>3. Cardinality(Holding(q)') = Cardinality(Holding(q)) + 1
  BY <1>2, FiniteHolding, CountUp
<1>4. \A p \in Processes \ {q} : Holding(p)' = Holding(p)
  BY DEF Holding, IInv, TypeOK
<1>5. ASSUME NEW p \in Processes
      PROVE  holders'[p] = Cardinality(Holding(p)') /\ (flock' = p <=> holders'[p] > 0)
  <2>1. CASE p = q
    BY <1>1, <1>3, <2>1 DEF IInv, TypeOK, HoldExact
  <2>2. CASE p # q
    <3>1. holders'[p] = holders[p] /\ Holding(p)' = Holding(p)
      BY <1>4, <2>2 DEF IInv, TypeOK
    <3>2. flock # p /\ flock' # p
      BY <1>1, <2>2
    <3> QED BY <3>1, <3>2 DEF IInv, HoldExact
  <2> QED BY <2>1, <2>2
<1> QED BY <1>5 DEF HoldExact

(* A holder of process p leaves; the last one drops the lock. *)
LEMMA HoldLost ==
  ASSUME IInv, NEW c \in Checks, DropHold(c)
  PROVE  HoldExact' /\ holders' \in [Processes -> Nat] /\ flock' \in Processes \cup {Nobody}
<1> DEFINE q == ProcessOf[c]
<1>1. q \in Processes /\ Nobody \notin Processes
  BY WorkspaceAssumption
<1>2. c \in Locked
  BY DEF DropHold, IInv, OnlyLocked
<1>3. Holding(q)' = Holding(q) \ {c} /\ c \in Holding(q)
  BY <1>2 DEF Holding, IInv, TypeOK, DropHold, Goto
<1>4. /\ Cardinality(Holding(q)') = Cardinality(Holding(q)) - 1
      /\ Cardinality(Holding(q)) \in Nat \ {0}
  BY <1>3, FiniteHolding, CountDown
<1>5. \A p \in Processes \ {q} : Holding(p)' = Holding(p)
  BY DEF Holding, IInv, TypeOK, DropHold, Goto
<1>6. /\ holders[q] = Cardinality(Holding(q)) /\ flock = q
      /\ holders'[q] = holders[q] - 1
      /\ \A p \in Processes \ {q} : holders'[p] = holders[p]
      /\ flock' = IF holders[q] = 1 THEN Nobody ELSE flock
  BY <1>1, <1>4 DEF IInv, TypeOK, HoldExact, DropHold
<1>7. ASSUME NEW p \in Processes
      PROVE  holders'[p] = Cardinality(Holding(p)') /\ (flock' = p <=> holders'[p] > 0)
  <2>1. CASE p = q
    BY <1>1, <1>4, <1>6, <2>1
  <2>2. CASE p # q
    <3>1. holders'[p] = holders[p] /\ Holding(p)' = Holding(p)
      BY <1>5, <1>6, <2>2
    <3>2. flock # p /\ flock' # p
      BY <1>1, <1>6, <2>2
    <3> QED BY <3>1, <3>2 DEF IInv, HoldExact
  <2> QED BY <2>1, <2>2
<1>8. holders' \in [Processes -> Nat]
  BY <1>1, <1>4, <1>6 DEF IInv, TypeOK, DropHold
<1>9. flock' \in Processes \cup {Nobody}
  BY <1>6 DEF IInv, TypeOK
<1> QED BY <1>7, <1>8, <1>9 DEF HoldExact

(* A process that dies has no holder, and does not own the lock. *)
LEMMA HoldCrashed ==
  ASSUME IInv, NEW q \in Processes, Crash(q)
  PROVE  HoldExact'
<1>1. Nobody \notin Processes
  BY WorkspaceAssumption
<1>2. \A c \in Checks : status'[c] = IF ProcessOf[c] = q THEN "idle" ELSE status[c]
  BY DEF Crash
<1>3. Holding(q)' = {}
  BY <1>2 DEF Holding
<1>4. \A p \in Processes \ {q} : Holding(p)' = Holding(p)
  BY <1>2 DEF Holding
<1>5. ASSUME NEW p \in Processes
      PROVE  holders'[p] = Cardinality(Holding(p)') /\ (flock' = p <=> holders'[p] > 0)
  <2>1. CASE p = q
    <3>1. holders'[p] = 0 /\ flock' # p
      BY <1>1, <2>1 DEF Crash, IInv, TypeOK
    <3> QED BY <1>3, <2>1, <3>1, FS_EmptySet
  <2>2. CASE p # q
    <3>1. holders'[p] = holders[p] /\ Holding(p)' = Holding(p)
      BY <1>4, <2>2 DEF Crash, IInv, TypeOK
    <3>2. flock' = p <=> flock = p
      BY <1>1, <2>2 DEF Crash
    <3> QED BY <3>1, <3>2 DEF IInv, HoldExact
  <2> QED BY <2>1, <2>2
<1> QED BY <1>5 DEF HoldExact

-----------------------------------------------------------------------------
(* The invariant is inductive: first the initial states. *)
LEMMA InitIInv == Init => IInv
<1> SUFFICES ASSUME Init PROVE IInv
  OBVIOUS
<1>1. TypeOK
  BY WorkspaceAssumption DEF Init, TypeOK, Statuses
<1>2. \A p : Holding(p) = {}
  BY DEF Init, Holding
<1>3. HoldExact
  BY <1>2, FS_EmptySet, WorkspaceAssumption DEF Init, HoldExact
<1> QED BY <1>1, <1>3 DEF Init, IInv, OnlyLocked, SlotExact, LockFirst, GateExact, PassedGate, Mates

(* The control of a check outside the hold: gate, done with the tree, idle. *)
LEMMA StepAtGate ==
  ASSUME IInv, NEW c \in Checks,
         \/ Ask(c) \/ EnterGate(c) \/ GiveUpGate(c) \/ Finish(c) \/ LeaveGate(c) \/ Cancel(c)
  PROVE  IInv'
<1> USE DEF IInv
<1>0. ProcessOf[c] \in Processes /\ UNCHANGED <<slot, holders, flock, crashes>>
  BY WorkspaceAssumption DEF Ask, EnterGate, GiveUpGate, Finish, LeaveGate, Cancel
<1>1. TypeOK'
  BY <1>0, WorkspaceAssumption DEF TypeOK, Statuses, Goto,
     Ask, EnterGate, GiveUpGate, Finish, LeaveGate, Cancel
<1>2. \A d \in Checks : d # c => status'[d] = status[d]
  BY DEF TypeOK, Goto, Ask, EnterGate, GiveUpGate, Finish, LeaveGate, Cancel
<1>3. /\ status[c] # "lock" \/ status'[c] = "lock"
      /\ status'[c] = "lock" => status[c] = "lock"
      /\ status'[c] \in {"slot", "drop"} => c \in Locked
      /\ c \in Locked => (status[c] \in {"inside", "drop"} <=> status'[c] \in {"inside", "drop"})
  BY DEF TypeOK, OnlyLocked, Goto, Ask, EnterGate, GiveUpGate, Finish, LeaveGate, Cancel
<1>4. OnlyLocked' /\ SlotExact' /\ LockFirst'
  BY <1>0, <1>2, <1>3, WorkspaceAssumption DEF OnlyLocked, SlotExact, LockFirst, TypeOK
<1>5. HoldExact'
  BY <1>0, <1>2, <1>3, HoldKept
<1>6. GateExact'
  <2>1. CASE EnterGate(c)
    <3>1. \A d \in Checks : d # c => (PassedGate(d)' <=> PassedGate(d))
      BY <1>2 DEF PassedGate
    <3>2. \A d \in Mates(c) : c \in Mates(d) /\ d \in Checks /\ d # c
      BY DEF Mates
    <3>3. \A d \in Mates(c) : c \in Writers \/ d \in Writers => ~PassedGate(d)
      BY <2>1 DEF EnterGate, GateAdmits
    <3> QED BY <3>1, <3>2, <3>3, WorkspaceAssumption DEF GateExact, Mates
  <2>2. CASE Ask(c) \/ GiveUpGate(c) \/ Finish(c) \/ LeaveGate(c) \/ Cancel(c)
    <3>1. PassedGate(c)' => PassedGate(c)
      BY <2>2 DEF TypeOK, PassedGate, Goto, Ask, GiveUpGate, Finish, LeaveGate, Cancel
    <3>2. \A d \in Checks : PassedGate(d)' => PassedGate(d)
      BY <1>2, <3>1 DEF PassedGate
    <3> QED BY <3>2, WorkspaceAssumption DEF GateExact, Mates
  <2> QED BY <2>1, <2>2
<1> QED BY <1>1, <1>4, <1>5, <1>6

(***************************************************************************)
(* A check past the gate, waiting for the hold or dropping it: whatever it *)
(* does it stays past the gate, so only the slot and the hold can change.  *)
(***************************************************************************)
LEMMA StayPastGate ==
  ASSUME IInv, NEW c \in Checks, NEW s \in {"lock", "inside", "leaving"},
         PassedGate(c), Goto(c, s)
  PROVE  GateExact'
<1>1. \A d \in Checks : PassedGate(d)' => PassedGate(d)
  BY DEF IInv, TypeOK, PassedGate, Goto
<1> QED BY <1>1, WorkspaceAssumption DEF IInv, GateExact, Mates

(* Setting out for the file lock keeps the invariant. *)
LEMMA StepStartLock == ASSUME IInv, NEW c \in Checks, StartLock(c) PROVE IInv'
<1> USE DEF IInv
<1>0. ProcessOf[c] \in Processes /\ Nobody \notin Checks
  BY WorkspaceAssumption
<1>1. TypeOK'
  BY <1>0 DEF TypeOK, Statuses, StartLock, Goto
<1>2. OnlyLocked' /\ LockFirst'
  BY DEF OnlyLocked, LockFirst, TypeOK, StartLock, Goto
<1>3. SlotExact'
  <2>1. ASSUME NEW d \in Checks, status'[d] = "lock" PROVE slot'[ProcessOf[d]] = d
    <3>1. CASE d = c
      BY <3>1, <1>0 DEF TypeOK, StartLock
    <3>2. CASE d # c
      <4>1. slot[ProcessOf[d]] = d
        BY <2>1, <3>2 DEF SlotExact, TypeOK, StartLock, Goto
      <4>2. ProcessOf[d] # ProcessOf[c]
        BY <4>1, <1>0 DEF StartLock
      <4> QED BY <4>1, <4>2, WorkspaceAssumption DEF TypeOK, StartLock
    <3> QED BY <3>1, <3>2
  <2>2. ASSUME NEW p \in Processes, slot'[p] # Nobody
        PROVE  status'[slot'[p]] = "lock" /\ ProcessOf[slot'[p]] = p
    <3>1. CASE p = ProcessOf[c]
      BY <3>1, <1>0 DEF TypeOK, StartLock, Goto
    <3>2. CASE p # ProcessOf[c]
      <4>1. slot'[p] = slot[p] /\ status[slot[p]] = "lock" /\ ProcessOf[slot[p]] = p
        BY <2>2, <3>2 DEF SlotExact, TypeOK, StartLock
      <4>2. slot[p] \in Checks /\ slot[p] # c
        BY <2>2, <3>2, <4>1 DEF TypeOK
      <4> QED BY <4>1, <4>2 DEF TypeOK, StartLock, Goto
    <3> QED BY <3>1, <3>2
  <2> QED BY <2>1, <2>2 DEF SlotExact
<1>4. HoldExact'
  BY HoldKept DEF TypeOK, StartLock, Goto
<1>5. GateExact'
  BY StayPastGate DEF StartLock, PassedGate
<1> QED BY <1>1, <1>2, <1>3, <1>4, <1>5

(* A check that leaves the slot, or never had it, frees what it had. *)
LEMMA SlotFreed ==
  ASSUME IInv, NEW c \in Checks, NEW s \in {"inside", "leaving"},
         Goto(c, s), slot' = FreeSlot(c)
  PROVE  SlotExact' /\ slot' \in [Processes -> Checks \cup {Nobody}]
<1> USE DEF IInv
<1>0. ProcessOf[c] \in Processes /\ Nobody \notin Checks
  BY WorkspaceAssumption
<1>1. /\ slot' \in [Processes -> Checks \cup {Nobody}]
      /\ \A p \in Processes : slot'[p] = IF slot[p] = c THEN Nobody ELSE slot[p]
  BY <1>0 DEF TypeOK, FreeSlot, SlotExact
<1>2. \A d \in Checks : status'[d] = IF d = c THEN s ELSE status[d]
  BY DEF TypeOK, Goto
<1>3. \A d \in Checks : status'[d] = "lock" => slot'[ProcessOf[d]] = d
  BY <1>1, <1>2, WorkspaceAssumption DEF SlotExact
<1>4. \A p \in Processes : slot'[p] # Nobody => status'[slot'[p]] = "lock" /\ ProcessOf[slot'[p]] = p
  BY <1>1, <1>2 DEF SlotExact, TypeOK
<1> QED BY <1>1, <1>3, <1>4 DEF SlotExact

(* Joining a hold that the process has keeps the invariant. *)
LEMMA StepJoinHold == ASSUME IInv, NEW c \in Checks, JoinHold(c) PROVE IInv'
<1> USE DEF IInv
<1>0. /\ ProcessOf[c] \in Processes /\ Nobody \notin Checks
      /\ c \in Locked /\ flock = ProcessOf[c]
  BY WorkspaceAssumption DEF JoinHold, OnlyLocked, HoldExact
<1>1. slot' = FreeSlot(c)
  BY <1>0 DEF JoinHold, FreeSlot
<1>2. SlotExact'
  BY <1>1, SlotFreed DEF JoinHold
<1>3. TypeOK'
  BY <1>0 DEF TypeOK, Statuses, JoinHold, Goto
<1>4. OnlyLocked'
  BY DEF OnlyLocked, TypeOK, JoinHold, Goto
<1>5. LockFirst'
  <2> SUFFICES ASSUME NEW d \in Checks, status'[d] = "lock" PROVE holders'[ProcessOf[d]] = 0
    BY DEF LockFirst
  <2>1. status[d] = "lock" /\ slot[ProcessOf[d]] = d
    BY DEF SlotExact, TypeOK, JoinHold, Goto
  <2>2. ProcessOf[d] # ProcessOf[c]
    BY <2>1, <1>0 DEF JoinHold
  <2> QED BY <2>1, <2>2, WorkspaceAssumption DEF LockFirst, TypeOK, JoinHold
<1>6. HoldExact'
  BY <1>0, HoldGained DEF JoinHold, Goto
<1>7. GateExact'
  BY StayPastGate DEF JoinHold, PassedGate
<1> QED BY <1>2, <1>3, <1>4, <1>5, <1>6, <1>7

(* Taking the file lock, which no other process has, keeps the invariant. *)
LEMMA StepTakeLock == ASSUME IInv, NEW c \in Checks, TakeLock(c) PROVE IInv'
<1> USE DEF IInv
<1>0. /\ ProcessOf[c] \in Processes /\ Nobody \notin Checks
      /\ c \in Locked /\ slot[ProcessOf[c]] = c
  BY WorkspaceAssumption DEF TakeLock, OnlyLocked, SlotExact
<1>1. slot' = FreeSlot(c)
  BY <1>0 DEF TakeLock, FreeSlot
<1>2. SlotExact'
  BY <1>1, SlotFreed DEF TakeLock
<1>3. TypeOK'
  BY <1>0 DEF TypeOK, Statuses, TakeLock, Goto
<1>4. OnlyLocked'
  BY DEF OnlyLocked, TypeOK, TakeLock, Goto
<1>5. LockFirst'
  <2> SUFFICES ASSUME NEW d \in Checks, status'[d] = "lock" PROVE holders'[ProcessOf[d]] = 0
    BY DEF LockFirst
  <2>1. status[d] = "lock" /\ slot[ProcessOf[d]] = d /\ d # c
    BY DEF SlotExact, TypeOK, TakeLock, Goto
  <2>2. ProcessOf[d] # ProcessOf[c]
    BY <2>1, <1>0
  <2> QED BY <2>1, <2>2, WorkspaceAssumption DEF LockFirst, TypeOK, TakeLock
<1>6. HoldExact'
  BY <1>0, HoldGained DEF TakeLock, Goto
<1>7. GateExact'
  BY StayPastGate DEF TakeLock, PassedGate
<1> QED BY <1>2, <1>3, <1>4, <1>5, <1>6, <1>7

(* A failed wait leaves the hold as it was and frees the slot. *)
LEMMA StepHoldFails ==
  ASSUME IInv, NEW c \in Checks, AbandonHold(c) \/ LockError(c)
  PROVE  IInv'
<1> USE DEF IInv
<1>0. /\ status[c] \in {"slot", "lock"} /\ Goto(c, "leaving") /\ slot' = FreeSlot(c)
      /\ UNCHANGED <<holders, flock, turns, crashes>> /\ ended' \in SUBSET Checks
  BY DEF AbandonHold, LockError, TypeOK
<1>1. SlotExact' /\ slot' \in [Processes -> Checks \cup {Nobody}]
  BY <1>0, SlotFreed
<1>2. TypeOK'
  BY <1>0, <1>1 DEF TypeOK, Statuses, Goto
<1>3. OnlyLocked' /\ LockFirst'
  BY <1>0 DEF OnlyLocked, LockFirst, TypeOK, Goto
<1>4. HoldExact'
  BY <1>0, HoldKept DEF TypeOK, Goto
<1>5. GateExact'
  BY <1>0, StayPastGate DEF PassedGate
<1> QED BY <1>1, <1>2, <1>3, <1>4, <1>5

(* Leaving, with or without unlocking, keeps the invariant. *)
LEMMA StepDropHold == ASSUME IInv, NEW c \in Checks, DropHold(c) PROVE IInv'
<1> USE DEF IInv
<1>0. ProcessOf[c] \in Processes /\ Nobody \notin Checks
  BY WorkspaceAssumption
<1>1. slot' = FreeSlot(c)
  BY <1>0 DEF DropHold, FreeSlot
<1>2. SlotExact'
  BY <1>1, SlotFreed DEF DropHold
<1>3. HoldExact' /\ holders' \in [Processes -> Nat] /\ flock' \in Processes \cup {Nobody}
  BY HoldLost
<1>4. TypeOK'
  BY <1>3 DEF TypeOK, Statuses, DropHold, Goto
<1>5. OnlyLocked'
  BY DEF OnlyLocked, TypeOK, DropHold, Goto
<1>6. LockFirst'
  <2> SUFFICES ASSUME NEW d \in Checks, status'[d] = "lock" PROVE holders'[ProcessOf[d]] = 0
    BY DEF LockFirst
  <2>1. status[d] = "lock" /\ slot[ProcessOf[d]] = d
    BY DEF SlotExact, TypeOK, DropHold, Goto
  <2>2. ProcessOf[d] # ProcessOf[c]
    BY <2>1, <1>0 DEF DropHold
  <2> QED BY <2>1, <2>2, WorkspaceAssumption DEF LockFirst, TypeOK, DropHold
<1>7. GateExact'
  BY StayPastGate DEF DropHold, PassedGate
<1> QED BY <1>2, <1>3, <1>4, <1>5, <1>6, <1>7

(* The death of a process, which frees its lock, keeps the invariant. *)
LEMMA StepCrash == ASSUME IInv, NEW q \in Processes, Crash(q) PROVE IInv'
<1> USE DEF IInv
<1>1. \A c \in Checks : status'[c] = IF ProcessOf[c] = q THEN "idle" ELSE status[c]
  BY DEF Crash
<1>2. TypeOK'
  BY WorkspaceAssumption DEF TypeOK, Statuses, Crash
<1>3. OnlyLocked' /\ LockFirst'
  BY <1>1, WorkspaceAssumption DEF OnlyLocked, LockFirst, TypeOK, Crash
<1>4. SlotExact'
  <2>1. \A d \in Checks : status'[d] = "lock" => slot'[ProcessOf[d]] = d
    BY <1>1, WorkspaceAssumption DEF SlotExact, TypeOK, Crash
  <2>2. \A p \in Processes : slot'[p] # Nobody =>
          status'[slot'[p]] = "lock" /\ ProcessOf[slot'[p]] = p
    BY <1>1, WorkspaceAssumption DEF SlotExact, TypeOK, Crash
  <2> QED BY <2>1, <2>2 DEF SlotExact
<1>5. GateExact'
  BY <1>1, WorkspaceAssumption DEF GateExact, Mates, PassedGate
<1> QED BY <1>2, <1>3, <1>4, <1>5, HoldCrashed

(* Every step keeps the invariant. *)
LEMMA StepIInv == IInv /\ [Next]_vars => IInv'
<1> SUFFICES ASSUME IInv, [Next]_vars PROVE IInv'
  OBVIOUS
<1>1. CASE UNCHANGED vars
  BY <1>1 DEF vars, IInv, TypeOK, OnlyLocked, SlotExact, LockFirst,
     GateExact, PassedGate, HoldExact, Holding
<1>2. CASE Done
  BY <1>1, <1>2 DEF Done
<1> QED
  BY <1>1, <1>2, StepAtGate, StepStartLock, StepJoinHold, StepTakeLock, StepHoldFails,
     StepDropHold, StepCrash DEF Next

(* The invariant holds in every state a behaviour reaches. *)
LEMMA SpecIInv == Spec => []IInv
  BY InitIInv, StepIInv, PTL DEF Spec

-----------------------------------------------------------------------------
(* Types are kept: holders never goes below zero, through crashes as well. *)
THEOREM TypeCorrect == Spec => []TypeOK
  BY SpecIInv, PTL DEF IInv

(***************************************************************************)
(* Each process owns the file lock exactly while a check of it holds it,   *)
(* counted once per holder (gate.go:111-144).                              *)
(***************************************************************************)
THEOREM HoldIsExact == Spec => []HoldExact
  BY SpecIInv, PTL DEF IInv

(***************************************************************************)
(* Two checks in the tree are compatible: those of one process passed its  *)
(* gate, and those of two processes that both hold the lock would make the *)
(* lock belong to both.                                                    *)
(***************************************************************************)
LEMMA PassedCompatible ==
  ASSUME IInv, NEW c \in Checks, NEW d \in Checks, c # d,
         PassedGate(c), PassedGate(d),
         c \in Locked /\ d \in Locked => ProcessOf[c] = ProcessOf[d]
  PROVE  Tree!Compatible(c, d)
<1>1. CASE ProcessOf[c] = ProcessOf[d]
  <2>1. c \in Mates(d) /\ d \in Mates(c)
    BY <1>1 DEF Mates
  <2>2. c \notin Writers /\ d \notin Writers
    BY <2>1 DEF IInv, GateExact
  <2> QED BY <1>1, <2>2 DEF Tree!Compatible, Tree!MayShare
<1>2. CASE ProcessOf[c] # ProcessOf[d]
  BY <1>2 DEF Tree!Compatible, Tree!Coordinated
<1> QED BY <1>1, <1>2

(* The invariant excludes others from the tree of a writer. *)
LEMMA IInvWriterAlone == IInv => WriterAlone
<1> SUFFICES ASSUME IInv, NEW w \in Writers \cap Inside, NEW c \in Inside \ {w}
             PROVE  ProcessOf[c] # ProcessOf[w] /\ ~({c, w} \subseteq Locked)
  BY DEF WriterAlone
<1>1. w \in Checks /\ c \in Checks /\ PassedGate(w) /\ PassedGate(c)
  BY DEF Inside, PassedGate
<1>2. c \in Locked /\ w \in Locked => ProcessOf[c] = ProcessOf[w]
  BY HolderOwnsLock DEF Inside
<1>3. Tree!Compatible(c, w)
  BY <1>1, <1>2, PassedCompatible
<1> QED BY <1>3 DEF Tree!Compatible, Tree!Coordinated, Tree!MayShare

(***************************************************************************)
(* A check that can write the tree excludes every other check of its       *)
(* process, and, under one cache directory, those of every process.        *)
(***************************************************************************)
THEOREM MutualExclusion == Spec => []WriterAlone
  BY SpecIInv, IInvWriterAlone, PTL

(***************************************************************************)
(* Releasing the hold never waits behind a process that still waits for    *)
(* the lock: the releasing check holds it, so nobody of its process asks.  *)
(***************************************************************************)
LEMMA IInvRelease == IInv => ReleaseNeverBehindLock
<1> SUFFICES ASSUME IInv, NEW c \in Checks, status[c] = "drop", slot[ProcessOf[c]] # Nobody
             PROVE  FALSE
  BY DEF ReleaseNeverBehindLock
<1> DEFINE d == slot[ProcessOf[c]]
<1>1. ProcessOf[c] \in Processes /\ d \in Checks /\ status[d] = "lock" /\ ProcessOf[d] = ProcessOf[c]
  BY WorkspaceAssumption DEF IInv, TypeOK, SlotExact
<1>2. holders[ProcessOf[c]] = 0
  BY <1>1 DEF IInv, LockFirst
<1>3. c \in Locked
  BY DEF IInv, OnlyLocked
<1>4. holders[ProcessOf[c]] > 0
  BY <1>3, HolderOwnsLock
<1> QED BY <1>2, <1>4

(* In every behaviour, no release waits behind the lock of another process. *)
THEOREM ReleaseIsPrompt == Spec => []ReleaseNeverBehindLock
  BY SpecIInv, IInvRelease, PTL

-----------------------------------------------------------------------------
(***************************************************************************)
(* The workspace implements TreeAccess, across processes.                  *)
(***************************************************************************)
Asked == {c \in Checks : status[c] \in {"gate", "slot", "lock"}}

(* A check enters the tree: everybody inside already is compatible with it. *)
LEMMA EnterTree ==
  ASSUME IInv, IInv', NEW c \in Checks, status[c] \in {"gate", "slot", "lock"}, Goto(c, "inside")
  PROVE  Tree!Enter(c)
<1>1. \A d \in Checks : status'[d] = IF d = c THEN "inside" ELSE status[d]
  BY DEF IInv, TypeOK, Goto
<1>2. Asked' = Asked \ {c} /\ Inside' = Inside \cup {c} /\ c \notin Inside
  BY <1>1 DEF Asked, Inside
<1>3. ASSUME NEW d \in Inside PROVE Tree!Compatible(c, d)
  <2>1. /\ d \in Checks /\ d # c
        /\ status'[c] = "inside" /\ status'[d] = "inside"
    BY <1>1, <1>2 DEF Inside
  <2>2. \A x \in {c, d} : x \in Locked => flock' = ProcessOf[x]
    BY <2>1, HolderOwnsLockNext
  <2>3. CASE ProcessOf[c] = ProcessOf[d]
    <3>1. c \in Mates(d) /\ d \in Mates(c)
      BY <2>1, <2>3 DEF Mates
    <3>2. PassedGate(c)' /\ PassedGate(d)'
      BY <2>1 DEF PassedGate
    <3>3. c \notin Writers /\ d \notin Writers
      BY <3>1, <3>2 DEF IInv, GateExact, Mates
    <3> QED BY <2>3, <3>3 DEF Tree!Compatible, Tree!MayShare
  <2>4. CASE ProcessOf[c] # ProcessOf[d]
    BY <2>2, <2>4 DEF Tree!Compatible, Tree!Coordinated
  <2> QED BY <2>3, <2>4
<1> QED BY <1>2, <1>3 DEF Tree!Enter, Asked

(* Every step of the workspace is a step, or a stutter, of the tree. *)
LEMMA TreeStep == IInv /\ IInv' /\ [Next]_vars => [Tree!TreeNext]_(Tree!treeVars)
<1> SUFFICES ASSUME IInv, IInv', [Next]_vars PROVE [Tree!TreeNext]_(Tree!treeVars)
  OBVIOUS
<1> USE DEF Tree!treeVars, Asked, Inside
<1>1. ASSUME NEW c \in Checks, NEW s \in Statuses, Goto(c, s)
      PROVE  \A d \in Checks : status'[d] = IF d = c THEN s ELSE status[d]
  BY <1>1 DEF IInv, TypeOK, Goto
<1>2. ASSUME NEW c \in Checks, Ask(c) PROVE Tree!Ask(c)
  BY <1>2, <1>1 DEF Ask, Tree!Ask, Statuses
<1>3. ASSUME NEW c \in Checks, EnterGate(c) PROVE Tree!Enter(c) \/ UNCHANGED Tree!treeVars
  <2>1. CASE c \in Locked
    <3>1. status[c] = "gate" /\ Goto(c, "slot")
      BY <1>3, <2>1 DEF EnterGate
    <3> QED BY <3>1, <1>1 DEF Statuses
  <2>2. CASE c \notin Locked
    BY <1>3, <2>2, EnterTree DEF EnterGate
  <2> QED BY <2>1, <2>2
<1>4. ASSUME NEW c \in Checks, GiveUpGate(c) \/ AbandonHold(c) \/ LockError(c)
      PROVE  Tree!GiveUp(c)
  BY <1>4, <1>1 DEF GiveUpGate, AbandonHold, LockError, Tree!GiveUp, Statuses
<1>5. ASSUME NEW c \in Checks, JoinHold(c) \/ TakeLock(c) PROVE Tree!Enter(c)
  BY <1>5, EnterTree DEF JoinHold, TakeLock
<1>6. ASSUME NEW c \in Checks, Finish(c) PROVE Tree!Leave(c)
  BY <1>6, <1>1 DEF Finish, Tree!Leave, Statuses
<1>7. ASSUME NEW c \in Checks, StartLock(c) \/ DropHold(c) \/ LeaveGate(c) \/ Cancel(c)
      PROVE  UNCHANGED Tree!treeVars
  BY <1>7, <1>1 DEF StartLock, DropHold, LeaveGate, Cancel, Statuses
<1>8. ASSUME NEW p \in Processes, Crash(p)
      PROVE  [Tree!TreeNext]_(Tree!treeVars)
  <2>1. \A c \in Checks : status'[c] = IF ProcessOf[c] = p THEN "idle" ELSE status[c]
    BY <1>8 DEF Crash
  <2>2. CASE \E c \in Checks : ProcessOf[c] = p
    <3>1. Tree!Die(p)
      BY <2>1 DEF Tree!Die
    <3> QED BY <2>2, <3>1 DEF Tree!TreeNext
  <2>3. CASE \A c \in Checks : ProcessOf[c] # p
    BY <2>1, <2>3
  <2> QED BY <2>2, <2>3
<1>9. CASE UNCHANGED vars
  BY <1>9 DEF vars
<1>10. CASE Done
  BY <1>10, <1>9 DEF Done
<1> QED
  BY <1>2, <1>3, <1>4, <1>5, <1>6, <1>7, <1>8, <1>9, <1>10 DEF Next, Tree!TreeNext

(* The workspace is entered as TreeAccess promises. *)
THEOREM ImplementsTree == Spec => ImplementsTreeAccess
<1>1. Init => Tree!TreeInit
  BY DEF Init, Tree!TreeInit, Inside
<1> QED BY <1>1, SpecIInv, TreeStep, PTL DEF Spec, ImplementsTreeAccess, Tree!TreeSpec
===============================================================================
