------------------------------ MODULE Workspace -------------------------------
(***************************************************************************)
(* Entering a working tree that several CLI processes verify at once       *)
(* (gate.go:107-187, lock.go).  A check passes its process's gate first,   *)
(* and then, when its session has a cache directory, joins the process's   *)
(* hold on the cross-process file lock: the first holder takes the lock,   *)
(* the last one drops it.  The gate is represented by what Gate is shown   *)
(* to implement; the hold, its slot and the lock are modelled in full, and *)
(* so is the death of a process at any moment.                             *)
(***************************************************************************)
EXTENDS Naturals, FiniteSets

CONSTANTS
  Checks,       \* the checks that enter the tree
  Writers,      \* those that can change it
  Locked,       \* those whose session has a cache directory
  Processes,
  ProcessOf,    \* [Checks -> Processes]
  Nobody,       \* no process, no check
  MaxTurns,     \* bound: how often one check enters the tree
  MaxCrashes    \* bound: how many processes die

ASSUME WorkspaceAssumption ==
  /\ IsFiniteSet(Checks)
  /\ Writers \subseteq Checks
  /\ Locked \subseteq Checks
  /\ ProcessOf \in [Checks -> Processes]
  /\ Nobody \notin Processes \cup Checks
  /\ MaxTurns \in Nat
  /\ MaxCrashes \in Nat

VARIABLES
  status,       \* where each check is in workspaces.acquire
  ended,        \* checks whose context has ended
  slot,         \* fileHold.slot of each process: the check in it, or Nobody
  holders,      \* fileHold.holders of each process
  flock,        \* the process that owns the file lock, or Nobody
  turns,        \* how often each check has called acquire
  crashes       \* how many processes have died

vars == <<status, ended, slot, holders, flock, turns, crashes>>

(***************************************************************************)
(* idle     not in the tree and not asking for it                          *)
(* gate     in gate.acquire                                                *)
(* slot     through the gate, in the select of fileHold.acquire            *)
(* lock     in the slot, in lockFile                                       *)
(* inside   acquire has returned                                           *)
(* drop     in the release of the file hold, before it has the slot        *)
(* leaving  the hold is released, the gate not yet left                    *)
(***************************************************************************)
Statuses == {"idle", "gate", "slot", "lock", "inside", "drop", "leaving"}

PassedGate(c) == status[c] \in {"slot", "lock", "inside", "drop", "leaving"}
Mates(c) == {d \in Checks \ {c} : ProcessOf[d] = ProcessOf[c]}

Init ==
  /\ status = [c \in Checks |-> "idle"]
  /\ ended = {}
  /\ slot = [p \in Processes |-> Nobody]
  /\ holders = [p \in Processes |-> 0]
  /\ flock = Nobody
  /\ turns = [c \in Checks |-> 0]
  /\ crashes = 0

Goto(c, s) == status' = [status EXCEPT ![c] = s]

-----------------------------------------------------------------------------
Ask(c) ==
  /\ status[c] = "idle"
  /\ turns[c] < MaxTurns
  /\ turns' = [turns EXCEPT ![c] = @ + 1]
  /\ Goto(c, "gate")
  /\ UNCHANGED <<ended, slot, holders, flock, crashes>>

(***************************************************************************)
(* The gate of the check's process: a writer waits for everyone through    *)
(* it, a reader for writers through it or waiting at it (module Gate).     *)
(***************************************************************************)
GateAdmits(c) ==
  IF c \in Writers
  THEN \A d \in Mates(c) : ~PassedGate(d)
  ELSE \A d \in Mates(c) \cap Writers : ~PassedGate(d) /\ status[d] # "gate"

(* Without a cache directory there is nowhere to put a lock (gate.go:172). *)
EnterGate(c) ==
  /\ status[c] = "gate"
  /\ GateAdmits(c)
  /\ Goto(c, IF c \in Locked THEN "slot" ELSE "inside")
  /\ UNCHANGED <<ended, slot, holders, flock, turns, crashes>>

(* The gate's wait abandoned. *)
GiveUpGate(c) ==
  /\ status[c] = "gate"
  /\ c \in ended
  /\ ended' = ended \ {c}
  /\ Goto(c, "idle")
  /\ UNCHANGED <<slot, holders, flock, turns, crashes>>

(* The slot is free and a mate already holds the lock: count one more. *)
JoinHold(c) ==
  LET p == ProcessOf[c]
  IN  /\ status[c] = "slot"
      /\ slot[p] = Nobody
      /\ holders[p] > 0
      /\ holders' = [holders EXCEPT ![p] = @ + 1]
      /\ Goto(c, "inside")
      /\ UNCHANGED <<ended, slot, flock, turns, crashes>>

(* MUTANT of StartLock: the first-holder test of gate.go:124 is missing. *)
StartLockAlways(c) ==
  LET p == ProcessOf[c]
  IN  /\ status[c] = "slot"
      /\ slot[p] = Nobody
      /\ slot' = [slot EXCEPT ![p] = c]
      /\ Goto(c, "lock")
      /\ UNCHANGED <<ended, holders, flock, turns, crashes>>

(* The slot is free and nobody here holds the lock: keep the slot for it. *)
StartLock(c) ==
  LET p == ProcessOf[c]
  IN  /\ status[c] = "slot"
      /\ slot[p] = Nobody
      /\ holders[p] = 0
      /\ slot' = [slot EXCEPT ![p] = c]
      /\ Goto(c, "lock")
      /\ UNCHANGED <<ended, holders, flock, turns, crashes>>

(* MUTANT of TakeLock: the lock is shared, as flock's LOCK_SH would be. *)
TakeLockShared(c) ==
  LET p == ProcessOf[c]
  IN  /\ status[c] = "lock"
      /\ flock' = p
      /\ holders' = [holders EXCEPT ![p] = @ + 1]
      /\ slot' = [slot EXCEPT ![p] = Nobody]
      /\ Goto(c, "inside")
      /\ UNCHANGED <<ended, turns, crashes>>

(* TryLock, at once or at one of the polls, found the lock free. *)
TakeLock(c) ==
  LET p == ProcessOf[c]
  IN  /\ status[c] = "lock"
      /\ flock = Nobody
      /\ flock' = p
      /\ holders' = [holders EXCEPT ![p] = @ + 1]
      /\ slot' = [slot EXCEPT ![p] = Nobody]
      /\ Goto(c, "inside")
      /\ UNCHANGED <<ended, turns, crashes>>

(* MUTANT of FreeSlot: the deferred receive of gate.go:122 is missing. *)
KeepSlot(c) == slot

(* The slot after check c is done with it, if it was in it. *)
FreeSlot(c) ==
  IF slot[ProcessOf[c]] = c THEN [slot EXCEPT ![ProcessOf[c]] = Nobody] ELSE slot

(***************************************************************************)
(* The context ended while the check waited for the slot or for the lock:  *)
(* workspaces.acquire leaves the gate again.                               *)
(***************************************************************************)
AbandonHold(c) ==
  /\ status[c] \in {"slot", "lock"}
  /\ c \in ended
  /\ ended' = ended \ {c}
  /\ slot' = FreeSlot(c)
  /\ Goto(c, "leaving")
  /\ UNCHANGED <<holders, flock, turns, crashes>>

(* lockFile fails for a reason of its own: the directory, the file. *)
LockError(c) ==
  /\ status[c] = "lock"
  /\ slot' = FreeSlot(c)
  /\ Goto(c, "leaving")
  /\ UNCHANGED <<ended, holders, flock, turns, crashes>>

(* The check is done with the tree and calls what acquire returned. *)
Finish(c) ==
  /\ status[c] = "inside"
  /\ Goto(c, IF c \in Locked THEN "drop" ELSE "leaving")
  /\ UNCHANGED <<ended, slot, holders, flock, turns, crashes>>

(* MUTANT of DropHold: whoever leaves unlocks, whatever holders says. *)
DropHoldAlways(c) ==
  LET p == ProcessOf[c]
  IN  /\ status[c] = "drop"
      /\ slot[p] = Nobody
      /\ holders' = [holders EXCEPT ![p] = @ - 1]
      /\ flock' = Nobody
      /\ Goto(c, "leaving")
      /\ UNCHANGED <<ended, slot, turns, crashes>>

(* The release of the file hold; no context can abandon its wait. *)
DropHold(c) ==
  LET p == ProcessOf[c]
  IN  /\ status[c] = "drop"
      /\ slot[p] = Nobody
      /\ holders' = [holders EXCEPT ![p] = @ - 1]
      /\ flock' = IF holders[p] = 1 THEN Nobody ELSE flock
      /\ Goto(c, "leaving")
      /\ UNCHANGED <<ended, slot, turns, crashes>>

LeaveGate(c) ==
  /\ status[c] = "leaving"
  /\ ended' = ended \ {c}
  /\ Goto(c, "idle")
  /\ UNCHANGED <<slot, holders, flock, turns, crashes>>

(* A signal or a timeout ends the context of a check that asks or is inside. *)
Cancel(c) ==
  /\ status[c] \in {"gate", "slot", "lock", "inside"}
  /\ c \notin ended
  /\ ended' = ended \cup {c}
  /\ UNCHANGED <<status, slot, holders, flock, turns, crashes>>

(***************************************************************************)
(* A process dies.  Its memory is gone and the kernel drops its flock; the *)
(* same process identifier then stands for the next process to start.      *)
(***************************************************************************)
Crash(p) ==
  LET mine == {c \in Checks : ProcessOf[c] = p}
  IN  /\ crashes < MaxCrashes
      /\ crashes' = crashes + 1
      /\ status' = [c \in Checks |-> IF c \in mine THEN "idle" ELSE status[c]]
      /\ ended' = ended \ mine
      /\ slot' = [slot EXCEPT ![p] = Nobody]
      /\ holders' = [holders EXCEPT ![p] = 0]
      /\ flock' = IF flock = p THEN Nobody ELSE flock
      /\ UNCHANGED turns

(* Every check has used its turns and nobody is left in acquire. *)
Done ==
  /\ \A c \in Checks : status[c] = "idle" /\ turns[c] = MaxTurns
  /\ UNCHANGED vars

Next ==
  \/ \E c \in Checks :
       \/ Ask(c) \/ EnterGate(c) \/ GiveUpGate(c)
       \/ JoinHold(c) \/ StartLock(c) \/ TakeLock(c)
       \/ AbandonHold(c) \/ LockError(c)
       \/ Finish(c) \/ DropHold(c) \/ LeaveGate(c) \/ Cancel(c)
  \/ \E p \in Processes : Crash(p)
  \/ Done

Spec == Init /\ [][Next]_vars

(***************************************************************************)
(* A goroutine that can proceed does, the 20 ms poll finds a lock that     *)
(* stays free, and checks end (they run under timeouts).  No fairness for  *)
(* new requests, ending contexts, lock errors or crashes.                  *)
(***************************************************************************)
Fairness ==
  \A c \in Checks :
    /\ WF_vars(EnterGate(c)) /\ WF_vars(GiveUpGate(c))
    /\ WF_vars(JoinHold(c)) /\ WF_vars(StartLock(c)) /\ WF_vars(TakeLock(c))
    /\ WF_vars(AbandonHold(c)) /\ WF_vars(Finish(c))
    /\ WF_vars(DropHold(c)) /\ WF_vars(LeaveGate(c))

FairSpec == Spec /\ Fairness

-----------------------------------------------------------------------------
TypeOK ==
  /\ status \in [Checks -> Statuses]
  /\ ended \in SUBSET Checks
  /\ slot \in [Processes -> Checks \cup {Nobody}]
  /\ holders \in [Processes -> Nat]
  /\ flock \in Processes \cup {Nobody}
  /\ turns \in [Checks -> 0..MaxTurns]
  /\ crashes \in 0..MaxCrashes

Inside == {c \in Checks : status[c] = "inside"}
Holding(p) == {c \in Checks : c \in Locked /\ ProcessOf[c] = p /\ status[c] \in {"inside", "drop"}}

(***************************************************************************)
(* gate.go:10-15: a check that can write the tree excludes every other     *)
(* check of its process, and, under one cache directory, every check of    *)
(* every process.                                                          *)
(***************************************************************************)
WriterAlone ==
  \A w \in Writers \cap Inside : \A c \in Inside \ {w} :
    ProcessOf[c] # ProcessOf[w] /\ ~({c, w} \subseteq Locked)

(***************************************************************************)
(* gate.go:12-16: the process owns the file lock exactly while somebody    *)
(* holds it, counted once per holder, through failed waits and crashes.    *)
(***************************************************************************)
HoldExact ==
  \A p \in Processes :
    /\ holders[p] = Cardinality(Holding(p))
    /\ flock = p <=> holders[p] > 0

(***************************************************************************)
(* A release never waits behind another process: whenever a check waits to *)
(* drop its hold, no mate keeps the slot for a lock it does not have yet.  *)
(* Otherwise the two processes could wait for each other (gate.go:136).    *)
(***************************************************************************)
ReleaseNeverBehindLock ==
  \A c \in Checks : status[c] = "drop" => slot[ProcessOf[c]] = Nobody

(***************************************************************************)
(* Nobody waits for ever: every wait in acquire and in its release ends,   *)
(* whatever contexts end, locks fail and processes die meanwhile.          *)
(***************************************************************************)
EveryWaitEnds ==
  \A c \in Checks :
    status[c] \in {"gate", "slot", "lock", "drop"} ~> status[c] \in {"inside", "leaving", "idle"}

(* The tree is entered as TreeAccess promises, across processes. *)
Tree == INSTANCE TreeAccess WITH
  asked <- {c \in Checks : status[c] \in {"gate", "slot", "lock"}},
  inside <- Inside

ImplementsTreeAccess == Tree!TreeSpec
===============================================================================
