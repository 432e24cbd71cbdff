--------------------------------- MODULE Gate ---------------------------------
(***************************************************************************)
(* The in-process reader/writer lock of internal/verify/gate.go.  Checks   *)
(* that only read the working tree enter together, a check that can write  *)
(* it enters alone, and a wait can be abandoned when its context ends.     *)
(*                                                                         *)
(* Every action is one critical section of g.mu.  The open wake channel is *)
(* represented by the checks that wait on it: a check whose status is      *)
(* "parked" waits on the current g.wake, and closing the channel moves all *)
(* of them to "signalled".  Between the select and the next g.mu.Lock a    *)
(* signalled check may be overtaken by any other check.                    *)
(***************************************************************************)
EXTENDS Naturals, FiniteSets

CONSTANTS
  Readers,       \* checks that acquire the gate shared
  Writers,       \* checks that acquire it exclusive
  MaxArrivals    \* bound: how often one writer acquires the gate

ASSUME GateAssumption ==
  /\ IsFiniteSet(Readers)
  /\ IsFiniteSet(Writers)
  /\ Readers \cap Writers = {}
  /\ MaxArrivals \in Nat

VARIABLES
  status,        \* where each check is in acquire
  ended,         \* checks whose context has ended
  readers,       \* g.readers
  writer,        \* g.writer
  queued,        \* g.queued
  arrivals       \* how often each writer has called acquire

vars == <<status, ended, readers, writer, queued, arrivals>>

Checks == Readers \cup Writers

Waiting(c) == status[c] \in {"parked", "signalled"}
Inside == {c \in Checks : status[c] = "inside"}
InsideReaders == {r \in Readers : status[r] = "inside"}
WaitingWriters == {w \in Writers : Waiting(w)}

Init ==
  /\ status = [c \in Checks |-> "idle"]
  /\ ended = {}
  /\ readers = 0
  /\ writer = FALSE
  /\ queued = 0
  /\ arrivals = [w \in Writers |-> 0]

-----------------------------------------------------------------------------
(***************************************************************************)
(* broadcast: every check parked on g.wake is told to look again; check c  *)
(* itself moves to status s.                                               *)
(***************************************************************************)
WakeAll(c, s) ==
  [d \in Checks |-> IF d = c THEN s
                    ELSE IF status[d] = "parked" THEN "signalled"
                    ELSE status[d]]

(* MUTANT of Broadcast: one waiter is signalled, as by a condition variable. *)
WakeOne(c, s) ==
  LET parked == {d \in Checks \ {c} : status[d] = "parked"}
      chosen == CHOOSE d \in parked : TRUE
  IN  IF parked = {} THEN [status EXCEPT ![c] = s]
      ELSE [status EXCEPT ![c] = s, ![chosen] = "signalled"]

Broadcast(c, s) == WakeAll(c, s)

(* MUTANTS: each drops one conjunct of the conditions below. *)
WriterMayEnterAmongReaders == ~writer
ReaderMayEnterIgnoringQueue(q) == ~writer
ReaderMayEnterBesideWriter(q) == q = 0

(* When the loop of acquire lets a check in. *)
WriterMayEnter == ~writer /\ readers = 0
ReaderMayEnter(q) == ~writer /\ q = 0

(***************************************************************************)
(* One turn of the loop of acquire, entered with q queued writers.         *)
(***************************************************************************)
Attempt(c, q) ==
  \/ /\ c \in Writers
     /\ WriterMayEnter
     /\ writer' = TRUE
     /\ queued' = q - 1
     /\ status' = [status EXCEPT ![c] = "inside"]
     /\ UNCHANGED readers
  \/ /\ c \in Readers
     /\ ReaderMayEnter(q)
     /\ readers' = readers + 1
     /\ queued' = q
     /\ status' = [status EXCEPT ![c] = "inside"]
     /\ UNCHANGED writer
  \/ /\ c \in Writers => ~WriterMayEnter
     /\ c \in Readers => ~ReaderMayEnter(q)
     /\ queued' = q
     /\ status' = [status EXCEPT ![c] = "parked"]
     /\ UNCHANGED <<readers, writer>>

(* acquire, up to the first entry or wait. *)
ArriveReader(c) ==
  /\ status[c] = "idle"
  /\ Attempt(c, queued)
  /\ UNCHANGED <<ended, arrivals>>

ArriveWriter(c) ==
  /\ status[c] = "idle"
  /\ arrivals[c] < MaxArrivals
  /\ arrivals' = [arrivals EXCEPT ![c] = @ + 1]
  /\ Attempt(c, queued + 1)
  /\ UNCHANGED ended

(* The select took <-wake: look again, and maybe wait on the next channel. *)
Retry(c) ==
  /\ status[c] = "signalled"
  /\ Attempt(c, queued)
  /\ UNCHANGED <<ended, arrivals>>

(***************************************************************************)
(* The select took <-ctx.Done(): a reader just leaves.  A queued writer is *)
(* counted down and tells the readers it held back.                        *)
(***************************************************************************)
GiveUpReader(c) ==
  /\ Waiting(c)
  /\ c \in ended
  /\ ended' = ended \ {c}
  /\ status' = [status EXCEPT ![c] = "idle"]
  /\ UNCHANGED <<readers, writer, queued, arrivals>>

(* MUTANT of GiveUpWriter: the writer stays counted as queued. *)
GiveUpWriterStillQueued(c) ==
  /\ Waiting(c)
  /\ c \in ended
  /\ ended' = ended \ {c}
  /\ status' = Broadcast(c, "idle")
  /\ UNCHANGED <<readers, writer, queued, arrivals>>

(* MUTANT of GiveUpWriter: the broadcast of gate.go:74 is missing. *)
GiveUpWriterSilently(c) ==
  /\ Waiting(c)
  /\ c \in ended
  /\ ended' = ended \ {c}
  /\ queued' = queued - 1
  /\ status' = [status EXCEPT ![c] = "idle"]
  /\ UNCHANGED <<readers, writer, arrivals>>

GiveUpWriter(c) ==
  /\ Waiting(c)
  /\ c \in ended
  /\ ended' = ended \ {c}
  /\ queued' = queued - 1
  /\ status' = Broadcast(c, "idle")
  /\ UNCHANGED <<readers, writer, arrivals>>

(* The function acquire returned: leave the gate and wake every waiter. *)
LeaveReader(c) ==
  /\ status[c] = "inside"
  /\ readers' = readers - 1
  /\ ended' = ended \ {c}
  /\ status' = Broadcast(c, "idle")
  /\ UNCHANGED <<writer, queued, arrivals>>

LeaveWriter(c) ==
  /\ status[c] = "inside"
  /\ writer' = FALSE
  /\ ended' = ended \ {c}
  /\ status' = Broadcast(c, "idle")
  /\ UNCHANGED <<readers, queued, arrivals>>

(***************************************************************************)
(* A context ends (a signal, a timeout) while its check is in acquire or   *)
(* inside.  Each acquire call has a context of its own here.               *)
(***************************************************************************)
Cancel(c) ==
  /\ status[c] # "idle"
  /\ c \notin ended
  /\ ended' = ended \cup {c}
  /\ UNCHANGED <<status, readers, writer, queued, arrivals>>

Next ==
  \/ \E c \in Readers : ArriveReader(c) \/ GiveUpReader(c) \/ LeaveReader(c)
  \/ \E c \in Writers : ArriveWriter(c) \/ GiveUpWriter(c) \/ LeaveWriter(c)
  \/ \E c \in Checks : Retry(c) \/ Cancel(c)

Spec == Init /\ [][Next]_vars

(***************************************************************************)
(* A goroutine whose select can proceed is eventually scheduled, and a     *)
(* check inside the tree eventually leaves it: every command, stage and    *)
(* shared Go check runs under a timeout (command.go, gochecks.go).         *)
(* Nothing obliges a check to arrive or a context to end.                  *)
(***************************************************************************)
Fairness ==
  /\ \A c \in Checks : WF_vars(Retry(c))
  /\ \A c \in Readers : WF_vars(GiveUpReader(c)) /\ WF_vars(LeaveReader(c))
  /\ \A c \in Writers : WF_vars(GiveUpWriter(c)) /\ WF_vars(LeaveWriter(c))

FairSpec == Spec /\ Fairness

-----------------------------------------------------------------------------
(* Every variable keeps its type; the counters never leave Nat. *)
TypeOK ==
  /\ status \in [Checks -> {"idle", "parked", "signalled", "inside"}]
  /\ ended \in SUBSET Checks
  /\ readers \in Nat
  /\ writer \in BOOLEAN
  /\ queued \in Nat
  /\ arrivals \in [Writers -> 0..MaxArrivals]

(* gate.go:9-12: "a check that can write the tree runs alone". *)
WriterAlone ==
  \A w \in Writers : status[w] = "inside" => Inside = {w}

(***************************************************************************)
(* The three fields count what they claim to: a wait abandoned, raced by   *)
(* its own wake-up or retried never leaves a count behind (gate.go:73 and  *)
(* gate.go:50 both decrement queued for the same increment).               *)
(***************************************************************************)
CountsExact ==
  /\ readers = Cardinality(InsideReaders)
  /\ queued = Cardinality(WaitingWriters)
  /\ writer = \E w \in Writers : status[w] = "inside"

(***************************************************************************)
(* No lost wake-up: a check parked on the open channel, which only a later *)
(* broadcast can move, would not be let in if it looked now.               *)
(***************************************************************************)
NoLostWakeup ==
  \A c \in Checks :
    status[c] = "parked" =>
      IF c \in Writers THEN ~WriterMayEnter ELSE ~ReaderMayEnter(queued)

(***************************************************************************)
(* gate.go:32: "A queued writer holds back new readers".  No step lets a   *)
(* reader in while a writer that was waiting goes on waiting.              *)
(***************************************************************************)
NoReaderOvertakes ==
  [][\A r \in Readers, w \in Writers :
       (status[r] # "inside" /\ status'[r] = "inside") => ~Waiting(w)]_vars

(***************************************************************************)
(* gate.go:32-33 and 74: a steady stream of readers, here unbounded,       *)
(* cannot starve a writer, and the readers held back for writers enter     *)
(* once those have come and gone or given up; the bound on arrivals is     *)
(* what makes the writers finite.                                          *)
(***************************************************************************)
NobodyStarves == \A c \in Checks : Waiting(c) ~> ~Waiting(c)

(* The gate implements TreeAccess for the checks of one process. *)
Tree == INSTANCE TreeAccess WITH
  Locked <- {},
  ProcessOf <- [c \in Checks |-> "process"],
  asked <- {c \in Checks : Waiting(c)},
  inside <- Inside

ImplementsTreeAccess == Tree!TreeSpec
===============================================================================
