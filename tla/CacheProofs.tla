----------------------------- MODULE CacheProofs ------------------------------
(***************************************************************************)
(* The result cache for any checks, definitions, processes and commands,   *)
(* however often the tree changes, cache writes fail and processes die:    *)
(* one recorder per key, no success that was superseded, reruns after      *)
(* executions that published none, and records that name the inputs their  *)
(* executions read.                                                        *)
(***************************************************************************)
EXTENDS ResultCache, TLAPS

USE CacheAssumption, NoneAssumption

(***************************************************************************)
(* Types, by what the variables describe.  A check is about to look a key  *)
(* up with one of its three lookups left, and has one from then on.        *)
(***************************************************************************)
Holding == {"enter", "confirm", "look"} \cup Recording

TreeTypes == tree \in Trees /\ writes \in 0..MaxWrites /\ restarts \in 0..MaxRestarts

ListTypes ==
  /\ listing \in [Sessions -> {NoListing} \cup [extra : BOOLEAN]]
  /\ git \in [Checks -> {NoListing} \cup [extra : BOOLEAN, current : BOOLEAN]]

LocalTypes ==
  /\ pc \in [Checks -> Phases]
  /\ key \in [Checks -> Keys \cup {NoKey}]
  /\ tries \in [Checks -> 0..3]
  /\ gated \in [Checks -> BOOLEAN]
  /\ rerun \in [Checks -> BOOLEAN]
  /\ saw \in [Checks -> Trees \cup {NoRecord}]
  /\ \A c \in Checks : pc[c] \in {"start", "name", "done"} => tries[c] < 3
  /\ \A c \in Checks : pc[c] \in {"lock"} \cup Holding => key[c] \in Keys

HeldTypes == lock \in [Checks -> Keys \cup {NoKey}] /\ inside \subseteq Actors

StoreTypes ==
  /\ record \in [Keys -> Trees \cup {NoRecord}]
  /\ retry \subseteq Keys
  /\ latest \in [Keys -> {"none", "pending", "passed", "failed", "unknown"}]

Types == TreeTypes /\ ListTypes /\ LocalTypes /\ HeldTypes /\ StoreTypes

(* Whatever a check lists, its fingerprint is a key. *)
LEMMA FingerprintIsKey ==
  ASSUME tree \in Trees, NEW c \in Checks PROVE Fingerprint(c) \in Keys
<1>1. View(Listed(c), tree) \in Views
  BY DEF View, Views, Trees
<1>2. DefinitionOf[c] \in Definitions
  BY DEF Definitions
<1> QED BY <1>1, <1>2 DEF Fingerprint, Keys

(* Listing, memoizing and relisting. *)
LEMMA ListsKept ==
  ASSUME ListTypes, NEW c \in Checks
  PROVE  /\ TakeListing(c) => ListTypes'
         /\ Relist(SessionOf[c]) => ListTypes'
<1> SessionOf[c] \in Sessions
  OBVIOUS
<1>1. ASSUME TakeListing(c) PROVE ListTypes'
  <2>1. Memoized(c) \in {NoListing} \cup [extra : BOOLEAN]
    BY DEF Memoized, ListTypes
  <2> QED BY <1>1, <2>1 DEF TakeListing, ListTypes
<1>2. ASSUME Relist(SessionOf[c]) PROVE ListTypes'
  BY <1>2 DEF Relist, ListTypes
<1> QED BY <1>1, <1>2

(* What ends a check resets its locals and frees what it holds. *)
LEMMA EndKept ==
  ASSUME LocalTypes, HeldTypes, NEW c \in Checks, End(c)
  PROVE  LocalTypes' /\ HeldTypes'
<1> USE DEF End, Release, Goto, LocalTypes, HeldTypes
<1>1. HeldTypes'
  OBVIOUS
<1>2. pc' \in [Checks -> Phases] /\ key' \in [Checks -> Keys \cup {NoKey}]
  BY DEF Phases
<1>3. tries' \in [Checks -> 0..3]
  OBVIOUS
<1>4. gated' \in [Checks -> BOOLEAN] /\ rerun' \in [Checks -> BOOLEAN]
      /\ saw' \in [Checks -> Trees \cup {NoRecord}]
  OBVIOUS
<1>5. \A d \in Checks :
        /\ pc'[d] \in {"start", "name", "done"} => tries'[d] < 3
        /\ pc'[d] \in {"lock"} \cup Holding => key'[d] \in Keys
  BY DEF Holding, Recording
<1> QED BY <1>1, <1>2, <1>3, <1>4, <1>5

(* The initial state has the shape of Types. *)
LEMMA TypesInit == Init => Types
<1> SUFFICES ASSUME Init PROVE Types
  OBVIOUS
<1> USE DEF Init
<1>1. TreeTypes
  BY DEF TreeTypes, Trees
<1>2. ListTypes /\ HeldTypes
  BY DEF ListTypes, HeldTypes
<1>3. LocalTypes
  BY DEF LocalTypes, Phases, Holding, Recording
<1>4. StoreTypes
  BY DEF StoreTypes
<1> QED BY <1>1, <1>2, <1>3, <1>4 DEF Types

(* A step of a check, of a command, or of nobody in particular. *)
LEMMA LookupTypes ==
  ASSUME Types, NEW c \in Checks,
         Begin(c) \/ ListGit(c) \/ Name(c) \/ TakeLock(c) \/ Enter(c) \/ GiveUp(c) \/ Confirm(c)
         \/ Hit(c) \/ Miss(c)
  PROVE  Types'
<1> USE DEF Types, treeVars, listVars, locals, held, storeVars
<1>1. TreeTypes' /\ StoreTypes'
  BY DEF TreeTypes, StoreTypes, Begin, ListGit, Name, TakeLock, Enter, GiveUp, Confirm, Hit, Miss
<1>2. ListTypes'
  <2>1. CASE ListGit(c)
    BY <2>1 DEF ListGit, ListTypes, TreeTypes, Trees
  <2>2. CASE TakeListing(c)
    BY <2>2, ListsKept
  <2>3. CASE GiveUp(c)
    BY <2>3 DEF GiveUp, ListTypes
  <2>4. CASE UNCHANGED listVars
    BY <2>4 DEF ListTypes
  <2> QED BY <2>1, <2>2, <2>3, <2>4 DEF Begin, Name, TakeLock, Enter, Confirm, Hit, Miss
<1>3. LocalTypes' /\ HeldTypes'
  <2>1. CASE Begin(c) \/ ListGit(c) \/ Name(c)
    <3>1. Fingerprint(c) \in Keys
      BY FingerprintIsKey DEF TreeTypes
    <3>2. CASE Begin(c)
      <4>1. gated' \in [Checks -> BOOLEAN] /\ rerun' \in [Checks -> BOOLEAN]
        BY <3>2 DEF Begin, LocalTypes
      <4> QED BY <3>2, <4>1 DEF LocalTypes, HeldTypes, Begin, Goto, Phases, Holding, Recording
    <3>3. CASE ListGit(c)
      BY <3>3 DEF LocalTypes, HeldTypes, ListGit
    <3>4. CASE Name(c)
      <4>1. tries[c] \in 0..3 /\ tries[c] < 3
        BY <3>4 DEF Name, LocalTypes
      <4>2. tries' \in [Checks -> 0..3]
        BY <3>4, <4>1 DEF Name, LocalTypes
      <4> QED
        BY <3>1, <3>4, <4>2 DEF LocalTypes, HeldTypes, Name, Goto, Phases, Holding, Recording
    <3> QED BY <2>1, <3>2, <3>3, <3>4
  <2>2. CASE TakeLock(c) \/ Enter(c)
    BY <2>2 DEF LocalTypes, HeldTypes, TakeLock, Enter, Goto, Phases, Holding, Recording, Actors
  <2>3. CASE GiveUp(c) \/ Hit(c)
    BY <2>3, EndKept DEF GiveUp, Hit
  <2>4. CASE Confirm(c)
    BY <2>4 DEF LocalTypes, HeldTypes, Confirm, Release, Goto, Phases, Holding, Recording
  <2>5. CASE Miss(c)
    <3>1. Attempt(c) \in BOOLEAN
      BY DEF Attempt, LocalTypes
    <3>2. CASE Goto(c, "remove")
      BY <2>5, <3>1, <3>2 DEF LocalTypes, HeldTypes, Miss, Goto, Phases, Holding, Recording
    <3>3. CASE Goto(c, "name")
      <4>1. /\ Release(c) /\ UNCHANGED <<rerun, saw>>
            /\ gated' = [gated EXCEPT ![c] = TRUE]
            /\ tries' = [tries EXCEPT ![c] = 0]
            /\ key' = [key EXCEPT ![c] = NoKey]
        BY <2>5, <3>3 DEF Miss, Goto, LocalTypes
      <4>2. tries' \in [Checks -> 0..3] /\ tries'[c] < 3
        BY <4>1 DEF LocalTypes
      <4> QED
        BY <3>3, <4>1, <4>2 DEF LocalTypes, HeldTypes, Release, Goto, Phases, Holding, Recording
    <3> QED BY <2>5, <3>2, <3>3 DEF Miss
  <2> QED BY <2>1, <2>2, <2>3, <2>4, <2>5
<1> QED BY <1>1, <1>2, <1>3

(* What an execution writes, to the store or of itself, keeps its shape. *)
LEMMA ExecuteTypes ==
  ASSUME Types, NEW c \in Checks,
         RemoveRecord(c) \/ MarkRetry(c) \/ Read(c) \/ Return(c) \/ After(c) \/ Save(c)
         \/ Unmark(c) \/ RunUncached(c) \/ EndUncached(c)
  PROVE  Types'
<1> USE DEF Types, treeVars, listVars, locals, held, storeVars
<1>1. TreeTypes'
  BY DEF TreeTypes, RemoveRecord, MarkRetry, Read, Return, After, Save, Unmark, RunUncached,
         EndUncached
<1>2. ListTypes'
  <2>1. CASE TakeListing(c) \/ Relist(SessionOf[c])
    BY <2>1, ListsKept
  <2>2. CASE UNCHANGED listVars
    BY <2>2 DEF ListTypes
  <2> QED
    BY <2>1, <2>2 DEF RemoveRecord, MarkRetry, Read, Return, After, Save, Unmark, RunUncached,
                      EndUncached
<1>3. LocalTypes' /\ HeldTypes'
  <2>1. CASE End(c)
    BY <2>1, EndKept
  <2>2. CASE Goto(c, "mark") \/ Goto(c, "run") \/ Goto(c, "after") \/ Goto(c, "save")
             \/ Goto(c, "unmark")
    BY <2>2, <2>1 DEF LocalTypes, HeldTypes, RemoveRecord, MarkRetry, Read, Return, After, Save,
       Unmark, RunUncached, EndUncached, Goto, Phases, Holding, Recording
  <2>3. CASE Read(c)
    BY <2>3 DEF Read, LocalTypes, HeldTypes, TreeTypes, Goto, Phases, Holding, Recording
  <2>4. CASE RunUncached(c)
    BY <2>4 DEF RunUncached, LocalTypes, HeldTypes, Goto, Phases, Holding, Recording, Actors
  <2> QED
    BY <2>1, <2>2, <2>3, <2>4 DEF RemoveRecord, MarkRetry, Return, After, Save, Unmark,
                                  EndUncached
<1>4. StoreTypes'
  <2>1. pc[c] \in Recording => key[c] \in Keys
    BY DEF LocalTypes, Holding
  <2>2. CASE RemoveRecord(c) \/ MarkRetry(c) \/ Read(c) \/ Return(c)
    BY <2>1, <2>2 DEF StoreTypes, Recording, RemoveRecord, MarkRetry, Read, Return
  <2>3. CASE After(c) \/ RunUncached(c) \/ EndUncached(c)
    BY <2>1, <2>3 DEF StoreTypes, Recording, After, RunUncached, EndUncached
  <2>4. CASE Save(c) \/ Unmark(c)
    BY <2>1, <2>4 DEF StoreTypes, LocalTypes, Recording, Save, Unmark
  <2> QED BY <2>1, <2>2, <2>3, <2>4
<1> QED BY <1>1, <1>2, <1>3, <1>4

(* So does what happens around the checks: commands, edits, restarts. *)
LEMMA AroundTypes ==
  ASSUME Types,
         \/ \E w \in Commands : EnterCommand(w) \/ LeaveCommand(w)
         \/ \E a \in Actors : Write(a)
         \/ Edit \/ (\E s \in Sessions : Restart(s)) \/ UNCHANGED <<vars>>
  PROVE  Types'
<1> USE DEF Types, treeVars, listVars, locals, held, storeVars
<1>1. ASSUME NEW w \in Commands, EnterCommand(w) PROVE Types'
  BY <1>1 DEF EnterCommand, TreeTypes, ListTypes, LocalTypes, HeldTypes, StoreTypes, Actors
<1>2. ASSUME NEW w \in Commands, LeaveCommand(w) PROVE Types'
  <2>1. ListTypes'
    BY <1>2 DEF LeaveCommand, Relist, ListTypes
  <2> QED
    BY <1>2, <2>1 DEF LeaveCommand, TreeTypes, LocalTypes, HeldTypes, StoreTypes, Actors
<1>3. CASE (\E a \in Actors : Write(a)) \/ Edit
  <2>1. /\ Change
        /\ UNCHANGED <<listVars, pc, locals, held, storeVars, restarts>>
    BY <1>3 DEF Write, Edit
  <2>2. TreeTypes'
    BY <2>1 DEF Change, TreeTypes
  <2> QED BY <2>1, <2>2 DEF ListTypes, LocalTypes, HeldTypes, StoreTypes
<1>4. ASSUME NEW s \in Sessions, Restart(s) PROVE Types'
  <2> USE <1>4 DEF Restart
  <2>1. TreeTypes' /\ StoreTypes'
    BY DEF TreeTypes, StoreTypes
  <2>2. ListTypes' /\ HeldTypes'
    BY DEF ListTypes, HeldTypes
  <2>3. /\ pc' \in [Checks -> Phases] /\ key' \in [Checks -> Keys \cup {NoKey}]
        /\ saw' \in [Checks -> Trees \cup {NoRecord}]
    BY DEF LocalTypes, Phases
  <2>4. tries' \in [Checks -> 0..3]
    BY DEF LocalTypes
  <2>5. gated' \in [Checks -> BOOLEAN] /\ rerun' \in [Checks -> BOOLEAN]
    BY DEF LocalTypes
  <2>6. \A c \in Checks :
          /\ pc'[c] \in {"start", "name", "done"} => tries'[c] < 3
          /\ pc'[c] \in {"lock"} \cup Holding => key'[c] \in Keys
    BY DEF LocalTypes, Holding, Recording
  <2> QED BY <2>1, <2>2, <2>3, <2>4, <2>5, <2>6 DEF LocalTypes
<1>5. CASE UNCHANGED vars
  BY <1>5 DEF vars, TreeTypes, ListTypes, LocalTypes, HeldTypes, StoreTypes
<1> QED BY <1>1, <1>2, <1>3, <1>4, <1>5

(* Every step keeps the shape of the state. *)
LEMMA TypesStep == Types /\ [Next]_vars => Types'
<1>1. ASSUME Types, Next PROVE Types'
  <2>1. ASSUME NEW c \in Checks, Begin(c) \/ Step(c) \/ GiveUp(c) PROVE Types'
    BY <1>1, <2>1, LookupTypes, ExecuteTypes DEF Step
  <2> QED BY <1>1, <2>1, AroundTypes DEF Next, Work, Finished
<1> QED BY <1>1, AroundTypes

-----------------------------------------------------------------------------
(***************************************************************************)
(* The lock.  A check that was let in by its key's lock has it, and nobody *)
(* else does, so that what is recorded under the key changes by its steps  *)
(* only: the record is gone before it executes, its success is the latest  *)
(* outcome when it is saved, and whatever published none has a marker,     *)
(* which the attempt that follows has seen.                                *)
(***************************************************************************)
Keeps(c) ==
  /\ pc[c] \in Holding => lock[c] = key[c]
  /\ pc[c] \in {"mark", "run", "read", "after", "save"} => record[key[c]] = NoRecord
  /\ pc[c] \in {"run", "read", "after"} => key[c] \in retry
  /\ pc[c] \in {"save", "unmark"} => latest[key[c]] = "passed"
  /\ pc[c] \in {"remove", "mark"} /\ key[c] \in retry => rerun[c]

OneLockEach == \A c, d \in Checks : c # d /\ lock[c] # NoKey => lock[c] # lock[d]

AllMarked == \A k \in Keys : latest[k] \in {"pending", "failed", "unknown"} => k \in retry

CacheInv ==
  /\ Types /\ OneLockEach /\ AllMarked /\ NoSupersededSuccess
  /\ \A c \in Checks : Keeps(c)

(* What a step of c may do to the other checks and to the other keys. *)
OnlyAbout(c) ==
  /\ \A d \in Checks \ {c} : /\ pc'[d] = pc[d] /\ key'[d] = key[d]
                             /\ lock'[d] = lock[d] /\ rerun'[d] = rerun[d]
  /\ \A k \in Keys : k # key[c] \/ pc[c] \notin Holding =>
       /\ record'[k] = record[k] /\ latest'[k] = latest[k]
       /\ k \in retry' <=> k \in retry

(* A step about one check leaves true what is claimed of the others. *)
LEMMA OthersKeep ==
  ASSUME CacheInv, NEW c \in Checks, OnlyAbout(c), NEW d \in Checks, d # c PROVE Keeps(d)'
<1>1. pc'[d] = pc[d] /\ key'[d] = key[d] /\ lock'[d] = lock[d] /\ rerun'[d] = rerun[d]
  BY DEF OnlyAbout
<1>2. Keeps(d)
  BY DEF CacheInv
<1>3. CASE pc[d] \in Holding
  <2>1. lock[d] = key[d] /\ key[d] \in Keys
    BY <1>2, <1>3 DEF Keeps, CacheInv, Types, LocalTypes
  <2>2. key[d] # key[c] \/ pc[c] \notin Holding
    BY <2>1 DEF CacheInv, OneLockEach, Keeps
  <2>3. /\ record'[key[d]] = record[key[d]] /\ latest'[key[d]] = latest[key[d]]
        /\ key[d] \in retry' <=> key[d] \in retry
    BY <2>1, <2>2 DEF OnlyAbout
  <2> QED BY <1>1, <1>2, <2>1, <2>3 DEF Keeps
<1>4. CASE pc[d] \notin Holding
  BY <1>1, <1>4 DEF Keeps, Holding, Recording
<1> QED BY <1>3, <1>4

(* A check that ends, or goes back to naming a key, keeps nothing. *)
LEMMA FreeKeeps ==
  ASSUME CacheInv, Types', NEW c \in Checks, OnlyAbout(c), lock'[c] = NoKey,
         pc'[c] \notin Holding, AllMarked', NoSupersededSuccess'
  PROVE  CacheInv'
<1>1. OneLockEach'
  BY DEF OneLockEach, OnlyAbout, CacheInv
<1>2. Keeps(c)'
  BY DEF Keeps, Holding, Recording
<1> QED BY <1>1, <1>2, OthersKeep DEF CacheInv

(* A check that goes on keeps its lock. *)
LEMMA OnwardKeeps ==
  ASSUME CacheInv, Types', NEW c \in Checks, OnlyAbout(c), lock' = lock,
         Keeps(c)', AllMarked', NoSupersededSuccess'
  PROVE  CacheInv'
<1>1. OneLockEach'
  BY DEF OneLockEach, CacheInv
<1> QED BY <1>1, OthersKeep DEF CacheInv

(* Steps that leave the cache alone leave its invariants alone. *)
LEMMA StoreSame ==
  ASSUME CacheInv, UNCHANGED storeVars PROVE AllMarked' /\ NoSupersededSuccess'
  BY DEF CacheInv, storeVars, AllMarked, NoSupersededSuccess

(* A check that ends holds no lock, and changes nothing of another. *)
LEMMA EndFrees ==
  ASSUME Types, NEW c \in Checks, End(c)
  PROVE  /\ pc'[c] = "done" /\ lock'[c] = NoKey /\ pc'[c] \notin Holding
         /\ \A d \in Checks \ {c} : /\ pc'[d] = pc[d] /\ key'[d] = key[d]
                                    /\ lock'[d] = lock[d] /\ rerun'[d] = rerun[d]
  BY DEF Types, LocalTypes, HeldTypes, End, Release, Goto, Holding, Recording

(* Up to the lookup, nothing that is recorded changes. *)
LEMMA LookupKeeps ==
  ASSUME CacheInv, Types', NEW c \in Checks,
         Begin(c) \/ ListGit(c) \/ Name(c) \/ TakeLock(c) \/ Enter(c) \/ GiveUp(c) \/ Confirm(c)
         \/ Hit(c) \/ Miss(c)
  PROVE  CacheInv'
<1> Types /\ Keeps(c)
  BY DEF CacheInv
<1> USE DEF locals, held, listVars
<1>1. UNCHANGED storeVars /\ AllMarked' /\ NoSupersededSuccess'
  <2>1. UNCHANGED storeVars
    BY DEF Begin, ListGit, Name, TakeLock, Enter, GiveUp, Confirm, Hit, Miss
  <2> QED BY <2>1, StoreSame
<1>2. CASE Begin(c) \/ ListGit(c) \/ Name(c) \/ Enter(c)
  <2>1. lock' = lock /\ OnlyAbout(c)
    BY <1>1, <1>2 DEF Begin, ListGit, Name, Enter, Goto, OnlyAbout, Types, LocalTypes, storeVars
  <2>2. Keeps(c)'
    BY <1>1, <1>2 DEF Begin, ListGit, Name, Enter, Goto, Keeps, Types, LocalTypes, storeVars,
                      Holding, Recording
  <2> QED BY <1>1, <2>1, <2>2, OnwardKeeps
<1>3. CASE TakeLock(c)
  <2>1. key[c] \in Keys /\ pc'[c] \in {"enter", "confirm"} /\ key' = key
    BY <1>3 DEF TakeLock, Goto, Types, LocalTypes
  <2>2. OnlyAbout(c) /\ lock'[c] = key[c]
    BY <1>1, <1>3
       DEF TakeLock, Goto, OnlyAbout, Types, LocalTypes, HeldTypes, storeVars
  <2>3. OneLockEach'
    BY <1>3, <2>2 DEF TakeLock, OneLockEach, OnlyAbout, CacheInv
  <2>4. Keeps(c)'
    BY <2>1, <2>2 DEF Keeps
  <2> QED BY <1>1, <2>2, <2>3, <2>4, OthersKeep DEF CacheInv
<1>4. CASE GiveUp(c) \/ Hit(c)
  <2>1. End(c)
    BY <1>4 DEF GiveUp, Hit
  <2>2. OnlyAbout(c)
    BY <1>1, <2>1, EndFrees DEF OnlyAbout, storeVars
  <2> QED BY <1>1, <2>1, <2>2, EndFrees, FreeKeeps
<1>5. CASE Confirm(c)
  <2>1. OnlyAbout(c) /\ key' = key /\ rerun' = rerun
    BY <1>1, <1>5 DEF Confirm, Goto, Release, OnlyAbout, Types, LocalTypes, HeldTypes, storeVars
  <2>2. CASE Goto(c, "look") /\ UNCHANGED lock
    <3>1. Keeps(c)'
      BY <1>5, <2>1, <2>2 DEF Confirm, Goto, Keeps, Types, LocalTypes, Holding
    <3> QED BY <1>1, <2>1, <2>2, <3>1, OnwardKeeps
  <2>3. CASE Release(c) /\ Goto(c, IF tries[c] < 3 THEN "name" ELSE "uncached")
    <3>1. lock'[c] = NoKey /\ pc'[c] \notin Holding
      BY <2>3 DEF Release, Goto, Types, LocalTypes, HeldTypes, Holding, Recording
    <3> QED BY <1>1, <2>1, <3>1, FreeKeeps
  <2> QED BY <1>5, <2>2, <2>3 DEF Confirm
<1>6. CASE Miss(c)
  <2>1. OnlyAbout(c)
    BY <1>1, <1>6 DEF Miss, Goto, Release, OnlyAbout, Types, LocalTypes, HeldTypes, storeVars
  <2>2. CASE Goto(c, "remove")
    <3>1. lock' = lock /\ key' = key /\ rerun' = [rerun EXCEPT ![c] = Attempt(c)]
      BY <1>6, <2>2 DEF Miss, Goto, Types, LocalTypes
    <3>2. rerun'[c] = Attempt(c) /\ pc'[c] = "remove" /\ lock[c] = key[c]
      BY <1>6, <2>2, <3>1 DEF Miss, Goto, Types, LocalTypes, Keeps, Holding
    <3>3. Keeps(c)'
      BY <1>1, <3>1, <3>2 DEF Keeps, Attempt, storeVars
    <3> QED BY <1>1, <2>1, <3>1, <3>3, OnwardKeeps
  <2>3. CASE Goto(c, "name") /\ Release(c)
    <3>1. lock'[c] = NoKey /\ pc'[c] \notin Holding
      BY <2>3 DEF Release, Goto, Types, LocalTypes, HeldTypes, Holding, Recording
    <3> QED BY <1>1, <2>1, <3>1, FreeKeeps
  <2> QED BY <1>6, <2>2, <2>3 DEF Miss
<1> QED BY <1>2, <1>3, <1>4, <1>5, <1>6

(* Under the lock, each step records about its own key alone. *)
LEMMA ExecuteKeeps ==
  ASSUME CacheInv, Types', NEW c \in Checks,
         RemoveRecord(c) \/ MarkRetry(c) \/ Read(c) \/ Return(c) \/ After(c) \/ Save(c)
         \/ Unmark(c)
  PROVE  CacheInv'
<1>1. /\ Types /\ Keeps(c) /\ AllMarked /\ NoSupersededSuccess
      /\ pc[c] \in Recording /\ pc[c] \in Holding /\ key[c] \in Keys
  BY DEF CacheInv, Types, LocalTypes, RemoveRecord, MarkRetry, Read, Return, After, Save, Unmark,
         Holding, Recording
<1> USE DEF locals, held, listVars
<1>2. \A k \in Keys : k # key[c] =>
        /\ record'[k] = record[k] /\ latest'[k] = latest[k]
        /\ k \in retry' <=> k \in retry
  BY <1>1 DEF Types, StoreTypes, RemoveRecord, MarkRetry, Read, Return, After, Save, Unmark,
              storeVars
<1>3. /\ AllMarked' <=> (latest'[key[c]] \in {"pending", "failed", "unknown"} => key[c] \in retry')
      /\ NoSupersededSuccess' <=> (record'[key[c]] # NoRecord => latest'[key[c]] = "passed")
  BY <1>1, <1>2 DEF AllMarked, NoSupersededSuccess
<1>4. /\ latest[key[c]] \in {"pending", "failed", "unknown"} => key[c] \in retry
      /\ record[key[c]] # NoRecord => latest[key[c]] = "passed"
  BY <1>1 DEF AllMarked, NoSupersededSuccess
<1>6. CASE End(c)
  <2>1. OnlyAbout(c)
    BY <1>2, <1>6, <1>1, EndFrees DEF OnlyAbout
  <2>2. AllMarked' /\ NoSupersededSuccess'
    <3>1. pc'[c] = "done"
      BY <1>1, <1>6, EndFrees
    <3>2. CASE RemoveRecord(c) \/ MarkRetry(c) \/ Read(c) \/ Save(c)
      <4>1. UNCHANGED storeVars
        BY <1>1, <3>1, <3>2
           DEF RemoveRecord, MarkRetry, Read, Save, Goto, Types, LocalTypes, storeVars
      <4> QED BY <4>1, StoreSame
    <3>3. CASE Return(c) \/ After(c)
      <4>1. /\ UNCHANGED <<record, retry>> /\ pc[c] \in {"read", "after"}
            /\ key[c] \in retry /\ record[key[c]] = NoRecord
        BY <1>1, <3>3 DEF Return, After, Keeps
      <4> QED BY <1>3, <4>1
    <3>4. CASE Unmark(c)
      <4>1. UNCHANGED <<record, latest>> /\ latest[key[c]] = "passed"
        BY <1>1, <3>4 DEF Unmark, Keeps
      <4> QED BY <1>3, <1>4, <4>1
    <3> QED BY <3>2, <3>3, <3>4
  <2> QED BY <1>1, <1>6, <2>1, <2>2, EndFrees, FreeKeeps
<1>7. CASE ~End(c)
  <2>1. /\ UNCHANGED <<lock, key, rerun>>
        /\ \E step \in {"mark", "run", "read", "after", "save", "unmark"} : Goto(c, step)
    BY <1>7 DEF RemoveRecord, MarkRetry, Read, Return, After, Save, Unmark
  <2>2. OnlyAbout(c)
    BY <1>1, <1>2, <2>1 DEF OnlyAbout, Goto, Types, LocalTypes
  <2>3. CASE RemoveRecord(c)
    <3>1. record' = [record EXCEPT ![key[c]] = NoRecord] /\ UNCHANGED <<retry, latest>>
          /\ Goto(c, "mark") /\ pc[c] = "remove"
      BY <1>7, <2>3 DEF RemoveRecord
    <3>2. record'[key[c]] = NoRecord /\ pc'[c] = "mark"
      BY <1>1, <3>1 DEF Types, StoreTypes, LocalTypes, Goto
    <3>3. Keeps(c)'
      BY <1>1, <2>1, <3>1, <3>2 DEF Keeps
    <3> QED BY <1>3, <1>4, <2>1, <2>2, <3>1, <3>2, <3>3, OnwardKeeps
  <2>4. CASE MarkRetry(c)
    <3>1. /\ retry' = retry \cup {key[c]} /\ latest' = [latest EXCEPT ![key[c]] = "pending"]
          /\ Goto(c, "run") /\ pc[c] = "mark" /\ UNCHANGED record
      BY <1>7, <2>4 DEF MarkRetry
    <3>2. record[key[c]] = NoRecord /\ pc'[c] = "run" /\ key[c] \in retry'
      BY <1>1, <3>1 DEF Types, LocalTypes, Goto, Keeps
    <3>3. Keeps(c)'
      BY <1>1, <2>1, <3>1, <3>2 DEF Keeps
    <3> QED BY <1>3, <2>1, <2>2, <3>1, <3>2, <3>3, OnwardKeeps
  <2>5. CASE Read(c) \/ (Return(c) /\ UNCHANGED latest)
    <3>1. UNCHANGED storeVars /\ pc'[c] \in {"read", "after"} /\ pc[c] \in {"run", "read"}
      BY <1>1, <1>7, <2>5 DEF Read, Return, Goto, Types, LocalTypes, storeVars
    <3>2. Keeps(c)'
      BY <1>1, <2>1, <3>1 DEF Keeps, storeVars
    <3> QED BY <1>1, <2>1, <2>2, <3>1, <3>2, StoreSame, OnwardKeeps
  <2>6. CASE After(c)
    <3>1. /\ latest' = [latest EXCEPT ![key[c]] = "passed"] /\ Goto(c, "save")
          /\ pc[c] = "after" /\ UNCHANGED <<record, retry>>
      BY <1>7, <2>6 DEF After
    <3>2. record[key[c]] = NoRecord /\ pc'[c] = "save" /\ latest'[key[c]] = "passed"
      BY <1>1, <3>1 DEF Types, LocalTypes, StoreTypes, Goto, Keeps
    <3>3. Keeps(c)'
      BY <1>1, <2>1, <3>1, <3>2 DEF Keeps
    <3> QED BY <1>3, <2>1, <2>2, <3>1, <3>2, <3>3, OnwardKeeps
  <2>7. CASE Save(c)
    <3>1. /\ record' = [record EXCEPT ![key[c]] = saw[c]] /\ Goto(c, "unmark")
          /\ pc[c] = "save" /\ UNCHANGED <<latest, retry>>
      BY <1>7, <2>7 DEF Save
    <3>2. pc'[c] = "unmark" /\ latest[key[c]] = "passed"
      BY <1>1, <3>1 DEF Types, LocalTypes, Goto, Keeps
    <3>3. Keeps(c)'
      BY <1>1, <2>1, <3>1, <3>2 DEF Keeps
    <3> QED BY <1>3, <1>4, <2>1, <2>2, <3>1, <3>2, <3>3, OnwardKeeps
  <2> QED BY <1>7, <2>3, <2>4, <2>5, <2>6, <2>7 DEF Return, Unmark
<1> QED BY <1>6, <1>7

(* A check the cache could not identify records nothing. *)
LEMMA UncachedKeeps ==
  ASSUME CacheInv, Types', NEW c \in Checks, RunUncached(c) \/ EndUncached(c)
  PROVE  CacheInv'
<1>1. Types /\ Keeps(c) /\ UNCHANGED storeVars
  BY DEF CacheInv, RunUncached, EndUncached
<1>2. CASE RunUncached(c)
  <2>1. /\ UNCHANGED <<lock, key, rerun>> /\ pc'[c] = "uncachedRun"
        /\ \A d \in Checks \ {c} : pc'[d] = pc[d]
    BY <1>1, <1>2 DEF RunUncached, Goto, locals, Types, LocalTypes
  <2>2. OnlyAbout(c) /\ Keeps(c)'
    BY <1>1, <2>1 DEF OnlyAbout, Keeps, Holding, Recording, storeVars
  <2> QED BY <1>1, <2>1, <2>2, StoreSame, OnwardKeeps
<1>3. CASE EndUncached(c)
  <2>1. End(c)
    BY <1>3 DEF EndUncached
  <2>2. OnlyAbout(c)
    BY <1>1, <2>1, EndFrees DEF OnlyAbout, storeVars
  <2> QED BY <1>1, <2>1, <2>2, StoreSame, EndFrees, FreeKeeps
<1> QED BY <1>2, <1>3

(* What happens to the tree, to commands and to processes frees locks at most. *)
LEMMA AroundKeeps ==
  ASSUME CacheInv, Types',
         \/ \E w \in Commands : EnterCommand(w) \/ LeaveCommand(w)
         \/ \E a \in Actors : Write(a)
         \/ Edit \/ (\E s \in Sessions : Restart(s)) \/ UNCHANGED <<vars>>
  PROVE  CacheInv'
<1>1. UNCHANGED storeVars
  BY DEF EnterCommand, LeaveCommand, Write, Edit, Restart, vars
<1>2. /\ AllMarked' /\ NoSupersededSuccess'
  BY <1>1, StoreSame
<1>3. CASE UNCHANGED <<pc, key, lock, rerun>>
  BY <1>1, <1>2, <1>3 DEF CacheInv, OneLockEach, Keeps, storeVars
<1>4. ASSUME NEW s \in Sessions, Restart(s) PROVE CacheInv'
  <2>1. \A c \in Checks :
          \/ lock'[c] = NoKey /\ pc'[c] = "start"
          \/ /\ lock'[c] = lock[c] /\ pc'[c] = pc[c]
             /\ key'[c] = key[c] /\ rerun'[c] = rerun[c]
    BY <1>4 DEF Restart
  <2>2. OneLockEach'
    BY <2>1 DEF OneLockEach, CacheInv
  <2>3. ASSUME NEW c \in Checks PROVE Keeps(c)'
    BY <1>1, <2>1 DEF Keeps, CacheInv, Holding, Recording, storeVars
  <2> QED BY <1>2, <2>2, <2>3 DEF CacheInv
<1> QED
  BY <1>3, <1>4 DEF EnterCommand, LeaveCommand, Write, Edit, locals, held, vars

(* Nothing was executed yet: the invariant holds at the start. *)
LEMMA CacheInit == Init => CacheInv
<1> SUFFICES ASSUME Init PROVE CacheInv
  OBVIOUS
<1>1. OneLockEach /\ AllMarked /\ NoSupersededSuccess
  BY DEF Init, OneLockEach, AllMarked, NoSupersededSuccess
<1>2. \A c \in Checks : Keeps(c)
  BY DEF Init, Keeps, Holding, Recording
<1> QED BY <1>1, <1>2, TypesInit DEF CacheInv

(* Every step of a check, a command or a process keeps the invariant. *)
LEMMA CacheStep == CacheInv /\ [Next]_vars => CacheInv'
<1> SUFFICES ASSUME CacheInv, [Next]_vars PROVE CacheInv'
  OBVIOUS
<1>1. Types'
  BY TypesStep DEF CacheInv
<1>2. ASSUME NEW c \in Checks, Begin(c) \/ Step(c) \/ GiveUp(c) PROVE CacheInv'
  BY <1>1, <1>2, LookupKeeps, ExecuteKeeps, UncachedKeeps DEF Step
<1>3. CASE Next
  BY <1>1, <1>2, <1>3, AroundKeeps DEF Next, Work, Finished
<1> QED BY <1>1, <1>3, AroundKeeps

(* The invariant holds in every state a behaviour reaches. *)
LEMMA CacheAlways == Spec => []CacheInv
  BY CacheInit, CacheStep, PTL DEF Spec

-----------------------------------------------------------------------------
(* What the variables of the cache range over. *)
THEOREM CacheTypeCorrect == Spec => []TypeOK
<1>1. CacheInv => TypeOK
  BY DEF CacheInv, Types, TreeTypes, ListTypes, LocalTypes, HeldTypes, StoreTypes, TypeOK
<1> QED BY <1>1, CacheAlways, PTL

(***************************************************************************)
(* However many processes share the cache directory, and whichever of them *)
(* die, no two executions that may record a verdict run under one key      *)
(* (cache.go, the result lock).                                            *)
(***************************************************************************)
THEOREM OneRecorder == Spec => []OneRecorderPerKey
<1>1. CacheInv => OneRecorderPerKey
  <2> SUFFICES ASSUME CacheInv, NEW c \in Checks, NEW d \in Checks, c # d,
                      pc[c] \in Recording, pc[d] \in Recording
               PROVE  key[c] # key[d]
    BY DEF OneRecorderPerKey
  <2>1. lock[c] = key[c] /\ lock[d] = key[d] /\ key[c] \in Keys
    BY DEF CacheInv, Keeps, Types, LocalTypes, Holding
  <2> QED BY <2>1 DEF CacheInv, OneLockEach
<1> QED BY <1>1, CacheAlways, PTL

(***************************************************************************)
(* cache.go:269: a record is there only while the latest execution under   *)
(* its key passed, through failing disks and crashes between any two steps *)
(* of any number of checks.                                                *)
(***************************************************************************)
THEOREM SupersededIsGone == Spec => []NoSupersededSuccess
<1>1. CacheInv => NoSupersededSuccess
  BY DEF CacheInv
<1> QED BY <1>1, CacheAlways, PTL

(***************************************************************************)
(* cache.go:236-241: after an execution that published no success, the     *)
(* next one under its key is a rerun, whoever starts it.                   *)
(***************************************************************************)
THEOREM UnpublishedReruns == Spec => UnpublishedIsRerun
<1> DEFINE Reruns ==
      \A c \in Checks :
        pc[c] = "mark" /\ pc'[c] = "run" /\ latest[key[c]] \in {"pending", "failed", "unknown"}
          => rerun[c]
<1>1. CacheInv => Reruns
  <2> SUFFICES ASSUME CacheInv, NEW c \in Checks, pc[c] = "mark",
                      latest[key[c]] \in {"pending", "failed", "unknown"}
               PROVE  rerun[c]
    OBVIOUS
  <2>1. key[c] \in Keys
    BY DEF CacheInv, Types, LocalTypes, Holding, Recording
  <2> QED BY <2>1 DEF CacheInv, AllMarked, Keeps
<1>2. CacheInv => [Reruns]_vars
  BY <1>1
<1> HIDE DEF Reruns
<1>3. Spec => [][Reruns]_vars
  BY <1>2, CacheAlways, PTL
<1> QED BY <1>3 DEF UnpublishedIsRerun, Reruns

-----------------------------------------------------------------------------
(***************************************************************************)
(* The inputs of a check that reads the tree.  Who writes the tree is      *)
(* alone in it, and a check that reads it executes and records inside, so  *)
(* the tree it read is the tree still when it records.  The listing is as  *)
(* of the relist that followed the execution: whatever its session has     *)
(* memoized since, or its own git produced, has the further file just when *)
(* the tree has it.                                                        *)
(***************************************************************************)
ReadsTree(c) == kindOf[c] = "go"

WritesTree(a) == a \in Checks => HasArtifacts(a)

WritersAlone == \A a, d \in inside : a # d => ~WritesTree(a)

GitWanted(c) == git[c] # NoListing => pc[c] \in {"name", "confirm", "look", "after"}

KeyIsOwn(c) == pc[c] \in {"lock"} \cup Holding => key[c][1] = DefinitionOf[c]

GatedInside(c) == gated[c] /\ pc[c] \in {"confirm", "look"} => c \in inside

Fresh(c) ==
  /\ listing[SessionOf[c]] # NoListing => listing[SessionOf[c]].extra = tree.extra
  /\ \A d \in Checks :
       SessionOf[d] = SessionOf[c] /\ git[d] # NoListing /\ (d = c \/ git[d].current)
         => git[d].extra = tree.extra

InputsNamed(c) ==
  ReadsTree(c) =>
    /\ pc[c] \in Recording => c \in inside
    /\ pc[c] \in {"read", "after", "save"} => saw[c] = tree
    /\ pc[c] = "after" => Fresh(c)
    /\ pc[c] = "save" => key[c][2] = TrueView(tree)

RecordsNamed ==
  \A c \in Checks, view \in Views :
    ReadsTree(c) /\ record[<<DefinitionOf[c], view>>] # NoRecord
      => view = TrueView(record[<<DefinitionOf[c], view>>])

InputInv ==
  /\ Types /\ kindOf \in KindsOf
  /\ WritersAlone /\ RecordsNamed
  /\ \A c \in Checks : GitWanted(c) /\ KeyIsOwn(c) /\ GatedInside(c) /\ InputsNamed(c)

(* A check or a command that enters shares the tree with readers, or is alone. *)
LEMMA EnterShares ==
  ASSUME HeldTypes, NEW a \in Actors, MayEnter(a)
  PROVE  \A d \in inside : ~WritesTree(a) /\ ~WritesTree(d)
<1> SUFFICES ASSUME NEW d \in inside PROVE ~WritesTree(a) /\ ~WritesTree(d)
  OBVIOUS
<1>1. d \in Actors /\ Tree!Compatible(AccessOf(a), AccessOf(d))
  BY DEF HeldTypes, MayEnter
<1>2. AccessOf(a) \in Access /\ AccessOf(d) \in Access
  BY <1>1 DEF AccessOf, Access
<1>3. Tree!MayShare(AccessOf(a), AccessOf(d))
  BY <1>1, <1>2 DEF Tree!Compatible, Tree!Coordinated
<1>4. AccessOf(a) \notin Actors \X {"writes"} /\ AccessOf(d) \notin Actors \X {"writes"}
  BY <1>3 DEF Tree!MayShare
<1> QED BY <1>1, <1>4 DEF AccessOf, WritesTree

(* So writers stay alone, whoever enters or leaves. *)
LEMMA AloneStill ==
  ASSUME HeldTypes, WritersAlone, kindOf' = kindOf,
         \/ inside' \subseteq inside
         \/ \E a \in Actors : MayEnter(a) /\ inside' = inside \cup {a}
  PROVE  WritersAlone'
<1>1. CASE inside' \subseteq inside
  BY <1>1 DEF WritersAlone, WritesTree, HasArtifacts
<1>2. ASSUME NEW a \in Actors, MayEnter(a), inside' = inside \cup {a} PROVE WritersAlone'
  BY <1>2, EnterShares DEF WritersAlone, WritesTree, HasArtifacts
<1> QED BY <1>1, <1>2

(***************************************************************************)
(* What a listing step makes of the memos and of what gits produced: it    *)
(* forgets, marks as stale, memoizes a current answer, or asks anew.       *)
(***************************************************************************)
ListsHonestly ==
  /\ \A s \in Sessions : listing'[s] # NoListing =>
       \/ listing'[s] = listing[s]
       \/ \E d \in Checks : /\ SessionOf[d] = s /\ git[d] # NoListing /\ git[d].current
                            /\ listing'[s].extra = git[d].extra
  /\ \A d \in Checks : git'[d] # NoListing =>
       \/ /\ git[d] # NoListing /\ git'[d].extra = git[d].extra
          /\ git'[d].current => git[d].current
       \/ git'[d].extra = tree.extra

(* A check that takes a listing memoizes a current answer at most. *)
LEMMA TakeHonest ==
  ASSUME Types, NEW c \in Checks, TakeListing(c) PROVE ListsHonestly
<1>1. /\ SessionOf[c] \in Sessions
      /\ \A s \in Sessions : s # SessionOf[c] => listing'[s] = listing[s]
      /\ listing'[SessionOf[c]] = Memoized(c)
      /\ \A d \in Checks : git'[d] = git[d] \/ git'[d] = NoListing
  BY DEF TakeListing, Types, ListTypes
<1>2. \/ Memoized(c) = listing[SessionOf[c]]
      \/ git[c] # NoListing /\ git[c].current /\ Memoized(c).extra = git[c].extra
  BY DEF Memoized, Current
<1> QED BY <1>1, <1>2 DEF ListsHonestly

(* A relist forgets the memo, and no answer of its session is current then. *)
LEMMA RelistHonest ==
  ASSUME Types, NEW s \in Sessions, Relist(s)
  PROVE  /\ ListsHonestly
         /\ \A d \in Checks : git'[d] # NoListing => git[d] # NoListing
         /\ listing'[s] = NoListing
         /\ \A d \in Checks : SessionOf[d] = s /\ git'[d] # NoListing => ~git'[d].current
<1>1. \A t \in Sessions : listing'[t] = IF t = s THEN NoListing ELSE listing[t]
  BY DEF Relist, Types, ListTypes
<1>2. \A d \in Checks :
        \/ git'[d] = git[d] /\ (SessionOf[d] # s \/ git[d] = NoListing)
        \/ git[d] # NoListing /\ git'[d].extra = git[d].extra /\ ~git'[d].current
  BY DEF Relist, Types, ListTypes
<1> QED BY <1>1, <1>2 DEF ListsHonestly

(* A fresh listing stays fresh while the tree stays as it is. *)
LEMMA FreshKept ==
  ASSUME Types, NEW c \in Checks, Fresh(c), ListsHonestly, tree' = tree PROVE Fresh(c)'
<1> SessionOf[c] \in Sessions
  OBVIOUS
<1>1. listing'[SessionOf[c]] # NoListing => listing'[SessionOf[c]].extra = tree.extra
  BY DEF Fresh, ListsHonestly
<1>2. ASSUME NEW d \in Checks, SessionOf[d] = SessionOf[c], git'[d] # NoListing,
             d = c \/ git'[d].current
      PROVE  git'[d].extra = tree.extra
  BY <1>2 DEF Fresh, ListsHonestly
<1> QED BY <1>1, <1>2 DEF Fresh

(* With a fresh listing, the fingerprint is the tree's. *)
LEMMA FreshNames ==
  ASSUME Types, NEW c \in Checks, Fresh(c), HasListing(c)
  PROVE  Fingerprint(c) = <<DefinitionOf[c], TrueView(tree)>>
<1>1. Listed(c) = tree.extra
  BY DEF Fresh, HasListing, Listed, Current
<1> QED BY <1>1 DEF Fingerprint, TrueView

(* Nobody writes the tree while a check that reads it executes. *)
LEMMA ReaderAlone ==
  ASSUME InputInv, NEW c \in Checks, ReadsTree(c), pc[c] \in Recording, NEW a \in Actors
  PROVE  ~Write(a)
<1>1. c \in inside /\ ~WritesTree(c)
  BY DEF InputInv, InputsNamed, WritesTree, HasArtifacts, ReadsTree
<1>2. ASSUME Write(a) PROVE a \in inside /\ WritesTree(a)
  BY <1>2 DEF Write, WritesTree
<1> QED BY <1>1, <1>2 DEF InputInv, WritersAlone

(* A step that leaves a check, its lock and the tree alone names its inputs as before. *)
Aside(c) ==
  /\ pc'[c] = pc[c] /\ key'[c] = key[c] /\ gated'[c] = gated[c] /\ saw'[c] = saw[c]
  /\ c \in inside => c \in inside'
  /\ git'[c] # NoListing => git[c] # NoListing

(* What was true of its inputs still is. *)
LEMMA AsideKeeps ==
  ASSUME InputInv, NEW c \in Checks, Aside(c), ListsHonestly, tree' = tree, kindOf' = kindOf
  PROVE  (GitWanted(c) /\ KeyIsOwn(c) /\ GatedInside(c) /\ InputsNamed(c))'
<1>1. Types /\ GitWanted(c) /\ KeyIsOwn(c) /\ GatedInside(c) /\ InputsNamed(c)
  BY DEF InputInv
<1>2. Fresh(c) => Fresh(c)'
  BY <1>1, FreshKept
<1>3. InputsNamed(c)'
  BY <1>1, <1>2 DEF Aside, InputsNamed, ReadsTree, TrueView, View
<1> QED BY <1>1, <1>3 DEF Aside, GitWanted, KeyIsOwn, GatedInside

(* What a step of a check does to listings, to other checks and to the tree. *)
LEMMA StepHonest ==
  ASSUME InputInv, NEW c \in Checks, Begin(c) \/ Step(c) \/ GiveUp(c)
  PROVE  ListsHonestly /\ tree' = tree
<1> USE DEF treeVars, listVars
<1>1. Types /\ tree' = tree
  BY DEF InputInv, Step, Begin, GiveUp, ListGit, Name, TakeLock, Enter, Confirm, Hit, Miss,
         RemoveRecord, MarkRetry, Read, Return, After, Save, Unmark, RunUncached, EndUncached
<1>2. ASSUME listing' = listing,
             \A d \in Checks : \/ git'[d] = git[d] \/ git'[d] = NoListing
                              \/ git'[d] = [extra |-> tree.extra, current |-> TRUE]
      PROVE  ListsHonestly
  <2>1. \A d \in Checks : git'[d] = git[d] =>
          git'[d].extra = git[d].extra /\ (git'[d].current => git[d].current)
    BY Zenon
  <2>2. [extra |-> tree.extra, current |-> TRUE].extra = tree.extra
    OBVIOUS
  <2> QED BY <1>2, <2>1, <2>2, Zenon DEF ListsHonestly
<1>3. CASE TakeListing(c) \/ Relist(SessionOf[c])
  BY <1>1, <1>3, TakeHonest, RelistHonest
<1>4. CASE GiveUp(c) \/ ListGit(c)
  <2>1. /\ listing' = listing
        /\ \A d \in Checks : \/ git'[d] = git[d] \/ git'[d] = NoListing
                             \/ git'[d] = [extra |-> tree.extra, current |-> TRUE]
    BY <1>1, <1>4 DEF GiveUp, ListGit, Types, ListTypes
  <2> QED BY <1>1, <1>2, <2>1
<1> QED
  BY <1>1, <1>2, <1>3, <1>4
     DEF Step, Begin, Name, TakeLock, Enter, Confirm, Hit, Miss, RemoveRecord, MarkRetry, Read,
         Return, After, Save, Unmark, RunUncached, EndUncached

(* A check that ends leaves the others alone. *)
LEMMA EndAside ==
  ASSUME Types, NEW c \in Checks, End(c), NEW d \in Checks, d # c
  PROVE  /\ pc'[d] = pc[d] /\ key'[d] = key[d] /\ gated'[d] = gated[d] /\ saw'[d] = saw[d]
         /\ d \in inside => d \in inside'
  BY DEF Types, LocalTypes, End, Release, Goto

(* So does every step of a check. *)
LEMMA StepAside ==
  ASSUME InputInv, NEW c \in Checks, Begin(c) \/ Step(c) \/ GiveUp(c), NEW d \in Checks, d # c
  PROVE  Aside(d)
<1> USE DEF listVars, locals, held
<1>1. Types
  BY DEF InputInv
<1>2. git'[d] # NoListing => git[d] # NoListing
  <2>1. CASE Relist(SessionOf[c])
    BY <1>1, <2>1, RelistHonest
  <2>2. CASE ~Relist(SessionOf[c])
    BY <1>1, <2>2
       DEF Types, ListTypes, TakeListing, Step, Begin, GiveUp, ListGit, Name, TakeLock, Enter,
           Confirm, Hit, Miss, RemoveRecord, MarkRetry, Read, Return, After, Save, Unmark,
           RunUncached, EndUncached
  <2> QED BY <2>1, <2>2
<1>3. CASE End(c)
  BY <1>1, <1>2, <1>3, EndAside DEF Aside
<1>4. CASE ~End(c)
  <2>1. CASE Begin(c) \/ ListGit(c) \/ Name(c) \/ TakeLock(c) \/ Enter(c) \/ Confirm(c)
    BY <1>1, <1>2, <2>1
       DEF Aside, Types, LocalTypes, Goto, Release, Begin, ListGit, Name, TakeLock, Enter, Confirm
  <2>2. CASE Miss(c)
    BY <1>1, <1>2, <2>2 DEF Aside, Types, LocalTypes, Goto, Release, Miss
  <2>3. CASE RemoveRecord(c) \/ MarkRetry(c) \/ Read(c) \/ Return(c) \/ After(c) \/ Save(c)
             \/ RunUncached(c)
    BY <1>1, <1>2, <1>4, <2>3
       DEF Aside, Types, LocalTypes, Goto, RemoveRecord, MarkRetry, Read, Return, After, Save,
           RunUncached
  <2> QED
    BY <1>4, <2>1, <2>2, <2>3 DEF Step, GiveUp, Hit, Unmark, EndUncached
<1> QED BY <1>3, <1>4

(* A check that is done, or starts over, names nothing. *)
LEMMA FreeNamed ==
  ASSUME NEW c \in Checks, pc'[c] \in {"start", "done", "name"}, GitWanted(c)'
  PROVE  (GitWanted(c) /\ KeyIsOwn(c) /\ GatedInside(c) /\ InputsNamed(c))'
  BY DEF KeyIsOwn, GatedInside, InputsNamed, Holding, Recording

(* A check that ends holds no answer of git either. *)
LEMMA EndNamed ==
  ASSUME Types, NEW c \in Checks, End(c), git'[c] = NoListing
  PROVE  (GitWanted(c) /\ KeyIsOwn(c) /\ GatedInside(c) /\ InputsNamed(c))'
<1>1. pc'[c] = "done"
  BY EndFrees
<1> QED BY <1>1, FreeNamed DEF GitWanted

(* Up to the lookup a check takes its key and, if it is gated, enters. *)
LEMMA LookupNamed ==
  ASSUME InputInv, kindOf' = kindOf, NEW c \in Checks,
         Begin(c) \/ ListGit(c) \/ Name(c) \/ TakeLock(c) \/ Enter(c) \/ GiveUp(c) \/ Confirm(c)
         \/ Hit(c) \/ Miss(c)
  PROVE  (GitWanted(c) /\ KeyIsOwn(c) /\ GatedInside(c) /\ InputsNamed(c))'
<1> USE DEF locals, held, listVars, treeVars
<1>1. /\ Types /\ GitWanted(c) /\ KeyIsOwn(c) /\ GatedInside(c) /\ InputsNamed(c)
      /\ pc \in [Checks -> Phases] /\ key \in [Checks -> Keys \cup {NoKey}]
      /\ gated \in [Checks -> BOOLEAN]
      /\ git \in [Checks -> {NoListing} \cup [extra : BOOLEAN, current : BOOLEAN]]
  BY DEF InputInv, Types, LocalTypes, ListTypes
<1>2. TakeListing(c) => git'[c] = NoListing
  BY <1>1 DEF TakeListing
<1>3. CASE Begin(c)
  <2>1. pc'[c] = "name" /\ git'[c] = git[c]
    BY <1>1, <1>3 DEF Begin, Goto
  <2> QED BY <1>1, <2>1, FreeNamed DEF GitWanted
<1>4. CASE ListGit(c)
  <2>1. /\ pc[c] \in {"name", "confirm", "look", "after"} /\ tree' = tree /\ listing' = listing
        /\ git'[c] = [extra |-> tree.extra, current |-> TRUE]
        /\ UNCHANGED <<pc, key, gated, saw, inside>>
        /\ \A d \in Checks : d # c => git'[d] = git[d]
    BY <1>1, <1>4 DEF ListGit
  <2>2. Fresh(c) => Fresh(c)'
    BY <2>1 DEF Fresh
  <2>3. InputsNamed(c)'
    BY <1>1, <2>1, <2>2 DEF InputsNamed, ReadsTree, TrueView, View
  <2> QED BY <1>1, <2>1, <2>3 DEF GitWanted, KeyIsOwn, GatedInside
<1>5. CASE Name(c)
  <2>1. pc'[c] = "lock" /\ key'[c] = Fingerprint(c)
    BY <1>1, <1>5 DEF Name, Goto
  <2> QED
    BY <1>2, <1>5, <2>1
       DEF Name, Fingerprint, GitWanted, KeyIsOwn, GatedInside, InputsNamed, Recording
<1>6. CASE TakeLock(c)
  <2>1. /\ pc'[c] = IF gated[c] THEN "enter" ELSE "confirm"
        /\ pc[c] = "lock" /\ UNCHANGED <<key, gated, git>>
    BY <1>1, <1>6 DEF TakeLock, Goto
  <2> QED BY <1>1, <2>1 DEF GitWanted, KeyIsOwn, GatedInside, InputsNamed, Recording, Holding
<1>7. CASE Enter(c)
  <2>1. pc'[c] = "confirm" /\ pc[c] = "enter" /\ UNCHANGED <<key, gated, git>> /\ c \in inside'
    BY <1>1, <1>7 DEF Enter, Goto
  <2> QED BY <1>1, <2>1 DEF GitWanted, KeyIsOwn, GatedInside, InputsNamed, Recording, Holding
<1>8. CASE GiveUp(c) \/ Hit(c)
  <2>1. End(c) /\ git'[c] = NoListing
    BY <1>1, <1>2, <1>8 DEF GiveUp, Hit
  <2> QED BY <1>1, <2>1, EndNamed
<1>9. CASE Confirm(c)
  <2>1. /\ git'[c] = NoListing /\ UNCHANGED <<key, gated>> /\ pc[c] = "confirm"
        /\ \/ pc'[c] = "look" /\ inside' = inside
           \/ pc'[c] \in {"name", "uncached"}
    BY <1>1, <1>2, <1>9 DEF Confirm, Goto
  <2> QED BY <1>1, <2>1 DEF GitWanted, KeyIsOwn, GatedInside, InputsNamed, Recording, Holding
<1>10. CASE Miss(c)
  <2>1. /\ git'[c] = NoListing /\ pc[c] = "look"
        /\ \/ /\ pc'[c] = "remove" /\ UNCHANGED <<key, inside>>
              /\ gated[c] \/ ~Native(c)
           \/ pc'[c] = "name"
    BY <1>1, <1>2, <1>10 DEF Miss, Goto
  <2>2. CASE pc'[c] = "name"
    BY <2>1, <2>2, FreeNamed DEF GitWanted
  <2>3. CASE pc'[c] = "remove" /\ UNCHANGED <<key, inside>> /\ (gated[c] \/ ~Native(c))
    <3>1. KeyIsOwn(c)' /\ GitWanted(c)' /\ GatedInside(c)'
      BY <1>1, <2>1, <2>3 DEF GitWanted, KeyIsOwn, GatedInside, Holding, Recording
    <3>2. InputsNamed(c)'
      BY <1>1, <2>1, <2>3 DEF InputsNamed, GatedInside, ReadsTree, Native
    <3> QED BY <3>1, <3>2
  <2> QED BY <2>1, <2>2, <2>3
<1> QED BY <1>3, <1>4, <1>5, <1>6, <1>7, <1>8, <1>9, <1>10

(* While it executes, the tree is what it read; then it relists and compares. *)
LEMMA ExecuteNamed ==
  ASSUME InputInv, kindOf' = kindOf, NEW c \in Checks,
         RemoveRecord(c) \/ MarkRetry(c) \/ Read(c) \/ Return(c) \/ After(c) \/ Save(c)
         \/ Unmark(c) \/ RunUncached(c) \/ EndUncached(c)
  PROVE  (GitWanted(c) /\ KeyIsOwn(c) /\ GatedInside(c) /\ InputsNamed(c))'
<1> USE DEF locals, held, listVars, treeVars
<1>1. /\ Types /\ GitWanted(c) /\ KeyIsOwn(c) /\ GatedInside(c) /\ InputsNamed(c)
      /\ pc \in [Checks -> Phases] /\ saw \in [Checks -> Trees \cup {NoRecord}]
      /\ SessionOf[c] \in Sessions
  BY DEF InputInv, Types, LocalTypes
<1>2. git'[c] = NoListing
  <2>1. CASE After(c)
    BY <1>1, <2>1 DEF After, TakeListing, Types, ListTypes
  <2>2. CASE Return(c) \/ EndUncached(c)
    <3>1. pc[c] \in {"read", "uncachedRun"} /\ Relist(SessionOf[c])
      BY <2>2 DEF Return, EndUncached
    <3> QED BY <1>1, <3>1, RelistHonest DEF GitWanted
  <2>3. CASE ~After(c) /\ ~Return(c) /\ ~EndUncached(c)
    BY <1>1, <2>3
       DEF GitWanted, RemoveRecord, MarkRetry, Read, Save, Unmark, RunUncached
  <2> QED BY <2>1, <2>2, <2>3
<1>3. CASE End(c)
  BY <1>1, <1>2, <1>3, EndNamed
<1>4. CASE RunUncached(c)
  <2>1. pc'[c] = "uncachedRun"
    BY <1>1, <1>4 DEF RunUncached, Goto
  <2> QED
    BY <1>2, <2>1 DEF GitWanted, KeyIsOwn, GatedInside, InputsNamed, Holding, Recording
<1>5. CASE ~End(c) /\ ~RunUncached(c)
  <2>1. /\ key' = key /\ inside' = inside /\ tree' = tree /\ pc[c] \in Recording
        /\ pc'[c] \in Recording \ {"remove"}
    BY <1>1, <1>5
       DEF RemoveRecord, MarkRetry, Read, Return, After, Save, Unmark, EndUncached, Goto, Recording
  <2>2. GitWanted(c)' /\ KeyIsOwn(c)' /\ GatedInside(c)'
    BY <1>1, <1>2, <2>1 DEF GitWanted, KeyIsOwn, GatedInside, Recording, Holding
  <2> SUFFICES ASSUME ReadsTree(c) PROVE InputsNamed(c)'
    BY <2>2 DEF InputsNamed, ReadsTree
  <2>3. c \in inside'
    BY <1>1, <2>1 DEF InputsNamed
  <2>4. CASE RemoveRecord(c) \/ MarkRetry(c) \/ Save(c)
    <3>1. pc'[c] \in {"mark", "run", "unmark"}
      BY <1>1, <1>5, <2>4 DEF RemoveRecord, MarkRetry, Save, Goto
    <3> QED BY <2>3, <3>1 DEF InputsNamed
  <2>5. CASE Read(c)
    <3>1. pc'[c] = "read" /\ saw'[c] = tree
      BY <1>1, <2>5 DEF Read, Goto
    <3> QED BY <2>1, <2>3, <3>1 DEF InputsNamed
  <2>6. CASE Return(c)
    <3>1. pc'[c] = "after" /\ saw'[c] = saw[c] /\ pc[c] = "read" /\ Relist(SessionOf[c])
      BY <1>1, <1>5, <2>6 DEF Return, Goto
    <3>2. Fresh(c)'
      BY <1>1, <1>2, <3>1, RelistHonest DEF Fresh
    <3> QED BY <1>1, <2>1, <2>3, <3>1, <3>2 DEF InputsNamed
  <2>7. CASE After(c)
    <3>1. /\ pc'[c] = "save" /\ saw'[c] = saw[c] /\ pc[c] = "after" /\ HasListing(c)
          /\ Fingerprint(c) = key[c]
      BY <1>1, <1>5, <2>7 DEF After, Goto, TakeListing
    <3>2. key[c][2] = TrueView(tree)
      BY <1>1, <3>1, FreshNames DEF InputsNamed
    <3>3. TrueView(tree)' = TrueView(tree)
      BY <2>1 DEF TrueView, View
    <3> QED BY <1>1, <2>1, <2>3, <3>1, <3>2, <3>3 DEF InputsNamed
  <2> QED BY <1>5, <2>4, <2>5, <2>6, <2>7 DEF Unmark, EndUncached
<1> QED BY <1>3, <1>4, <1>5

(* What a check records is what it read, under a key that names it. *)
LEMMA StepRecords ==
  ASSUME InputInv, kindOf' = kindOf, NEW c \in Checks, Begin(c) \/ Step(c) \/ GiveUp(c)
  PROVE  RecordsNamed'
<1> USE DEF locals, held, listVars, treeVars, storeVars
<1>1. /\ Types /\ KeyIsOwn(c) /\ InputsNamed(c) /\ RecordsNamed
      /\ record \in [Keys -> Trees \cup {NoRecord}]
      /\ pc[c] \in Holding => key[c] \in Keys
      /\ kindOf \in KindsOf
  BY DEF InputInv, Types, LocalTypes, StoreTypes
<1>2. CASE UNCHANGED record
  BY <1>1, <1>2 DEF RecordsNamed, ReadsTree
<1>3. CASE record' = [record EXCEPT ![key[c]] = NoRecord]
  BY <1>1, <1>3 DEF RecordsNamed, ReadsTree
<1>4. CASE pc[c] = "save" /\ record' = [record EXCEPT ![key[c]] = saw[c]]
  <2> SUFFICES ASSUME NEW d \in Checks, NEW view \in Views, ReadsTree(d),
                      record'[<<DefinitionOf[d], view>>] # NoRecord
               PROVE  view = TrueView(record'[<<DefinitionOf[d], view>>])
    BY DEF RecordsNamed, ReadsTree
  <2> DEFINE k == <<DefinitionOf[d], view>>
  <2>1. k \in Keys /\ key[c] \in Keys /\ key[c][1] = DefinitionOf[c]
    BY <1>1, <1>4 DEF Keys, Definitions, KeyIsOwn, Holding, Recording
  <2>2. CASE k = key[c]
    <3>1. DefinitionOf[d] = DefinitionOf[c] /\ view = key[c][2]
      BY <2>1, <2>2
    <3>2. ReadsTree(c)
      BY <1>1, <3>1, KindAssumption DEF ReadsTree
    <3>3. saw[c] = tree /\ key[c][2] = TrueView(tree)
      BY <1>1, <1>4, <3>2 DEF InputsNamed
    <3>4. record'[k] = saw[c]
      BY <1>1, <1>4, <2>1, <2>2
    <3> QED BY <3>1, <3>3, <3>4
  <2>3. CASE k # key[c]
    <3>1. record'[k] = record[k]
      BY <1>1, <1>4, <2>1, <2>3
    <3> QED BY <1>1, <3>1 DEF RecordsNamed
  <2> QED BY <2>2, <2>3
<1> QED
  BY <1>2, <1>3, <1>4
     DEF Step, Begin, GiveUp, ListGit, Name, TakeLock, Enter, Confirm, Hit, Miss, RemoveRecord,
         MarkRetry, Read, Return, After, Save, Unmark, RunUncached, EndUncached

(* A check enters as TreeAccess lets it, and leaves. *)
LEMMA StepAlone ==
  ASSUME InputInv, kindOf' = kindOf, NEW c \in Checks, Begin(c) \/ Step(c) \/ GiveUp(c)
  PROVE  WritersAlone'
<1> USE DEF locals, held
<1>1. HeldTypes /\ WritersAlone /\ c \in Actors
  BY DEF InputInv, Types, Actors
<1>2. \/ inside' \subseteq inside
      \/ MayEnter(c) /\ inside' = inside \cup {c}
  BY DEF Step, Begin, GiveUp, ListGit, Name, TakeLock, Enter, Confirm, Hit, Miss, RemoveRecord,
         MarkRetry, Read, Return, After, Save, Unmark, RunUncached, EndUncached, End, Release
<1> QED BY <1>1, <1>2, AloneStill

(* Commands, people at rest, and processes that die. *)
LEMMA AroundNamed ==
  ASSUME InputInv, ~Editor, kindOf' = kindOf, Types',
         \/ \E w \in Commands : EnterCommand(w) \/ LeaveCommand(w)
         \/ \E a \in Actors : Write(a)
         \/ Edit \/ (\E s \in Sessions : Restart(s)) \/ UNCHANGED <<vars>>
  PROVE  InputInv'
<1> USE DEF locals, held, listVars, storeVars, treeVars
<1>1. /\ Types /\ HeldTypes /\ WritersAlone /\ RecordsNamed /\ kindOf \in KindsOf
      /\ record' = record
  BY DEF InputInv, Types, EnterCommand, LeaveCommand, Write, Edit, Restart, vars
<1>2. RecordsNamed'
  BY <1>1 DEF RecordsNamed, ReadsTree
<1>3. ASSUME ListsHonestly, tree' = tree, \A c \in Checks : Aside(c) \/ pc'[c] = "start",
             \A c \in Checks : pc'[c] = "start" => GitWanted(c)',
             \/ inside' \subseteq inside
             \/ \E a \in Actors : MayEnter(a) /\ inside' = inside \cup {a}
      PROVE  InputInv'
  <2>1. WritersAlone'
    BY <1>1, <1>3, AloneStill
  <2>2. \A c \in Checks : (GitWanted(c) /\ KeyIsOwn(c) /\ GatedInside(c) /\ InputsNamed(c))'
    BY <1>3, AsideKeeps, FreeNamed
  <2> QED BY <1>1, <1>2, <2>1, <2>2 DEF InputInv
<1>4. ASSUME NEW w \in Commands, EnterCommand(w) PROVE InputInv'
  <2>1. ListsHonestly /\ \A c \in Checks : Aside(c)
    BY <1>4, Zenon DEF EnterCommand, ListsHonestly, Aside
  <2>2. \A c \in Checks : GitWanted(c)'
    BY <1>4 DEF EnterCommand, InputInv, GitWanted
  <2> QED BY <1>3, <1>4, <2>1, <2>2 DEF EnterCommand, Actors
<1>5. ASSUME NEW w \in Commands, LeaveCommand(w) PROVE InputInv'
  <2>1. SessionOf[w] \in Sessions /\ Relist(SessionOf[w])
    BY <1>5 DEF LeaveCommand
  <2>2. ListsHonestly /\ \A c \in Checks : git'[c] # NoListing => git[c] # NoListing
    BY <1>1, <2>1, RelistHonest
  <2>3. \A c \in Checks : Aside(c)
    BY <1>5, <2>2 DEF LeaveCommand, Aside
  <2>4. \A c \in Checks : GitWanted(c)'
    BY <2>2, <2>3 DEF Aside, InputInv, GitWanted
  <2> QED BY <1>3, <1>5, <2>2, <2>3, <2>4 DEF LeaveCommand
<1>6. ASSUME NEW a \in Actors, Write(a) PROVE InputInv'
  <2>1. \A c \in Checks : ReadsTree(c) => pc[c] \notin Recording
    BY <1>6, ReaderAlone
  <2>2. UNCHANGED <<listVars, pc, locals, held>>
    BY <1>6 DEF Write
  <2>3. WritersAlone' /\ \A c \in Checks : GitWanted(c)' /\ KeyIsOwn(c)' /\ GatedInside(c)'
    BY <1>1, <2>2
       DEF InputInv, WritersAlone, WritesTree, HasArtifacts, GitWanted, KeyIsOwn, GatedInside
  <2>4. \A c \in Checks : InputsNamed(c)'
    BY <2>1, <2>2 DEF InputsNamed, ReadsTree, Recording
  <2> QED BY <1>1, <1>2, <2>3, <2>4 DEF InputInv
<1>7. ASSUME NEW s \in Sessions, Restart(s) PROVE InputInv'
  <2>1. /\ \A c \in Checks : git'[c] = NoListing \/ git'[c] = git[c]
        /\ \A t \in Sessions : listing'[t] = NoListing \/ listing'[t] = listing[t]
        /\ tree' = tree /\ inside' \subseteq inside
    BY <1>1, <1>7 DEF Restart, Types, ListTypes
  <2>2. ListsHonestly
    <3>1. \A d \in Checks : git'[d] = git[d] =>
            git'[d].extra = git[d].extra /\ (git'[d].current => git[d].current)
      BY Zenon
    <3> QED BY <2>1, <3>1, Zenon DEF ListsHonestly
  <2>3. \A c \in Checks :
          \/ pc'[c] = "start" /\ git'[c] = NoListing
          \/ Aside(c)
    <3> SUFFICES ASSUME NEW c \in Checks
                 PROVE  (pc'[c] = "start" /\ git'[c] = NoListing) \/ Aside(c)
      OBVIOUS
    <3>1. CASE SessionOf[c] = s
      BY <1>7, <3>1 DEF Restart, Actors
    <3>2. CASE SessionOf[c] # s
      BY <1>7, <3>2 DEF Restart, Actors, Aside
    <3> QED BY <3>1, <3>2
  <2>4. \A c \in Checks : pc'[c] = "start" => GitWanted(c)'
    BY <2>3 DEF GitWanted, Aside, InputInv
  <2> QED BY <1>3, <2>1, <2>2, <2>3, <2>4
<1>8. CASE UNCHANGED vars
  <2>1. ListsHonestly /\ \A c \in Checks : Aside(c)
    BY <1>8, Zenon DEF vars, ListsHonestly, Aside
  <2>2. \A c \in Checks : GitWanted(c)'
    BY <1>8 DEF vars, InputInv, GitWanted
  <2> QED BY <1>3, <1>8, <2>1, <2>2 DEF vars
<1> QED BY <1>4, <1>5, <1>6, <1>7, <1>8 DEF Edit

(* Nobody is in the tree and nothing is recorded at the start. *)
LEMMA InputInit == Init => InputInv
<1> SUFFICES ASSUME Init PROVE InputInv
  OBVIOUS
<1>1. WritersAlone /\ RecordsNamed /\ kindOf \in KindsOf
  BY DEF Init, WritersAlone, RecordsNamed, Keys, Definitions
<1>2. \A c \in Checks : GitWanted(c) /\ KeyIsOwn(c) /\ GatedInside(c) /\ InputsNamed(c)
  BY DEF Init, GitWanted, KeyIsOwn, GatedInside, InputsNamed, Holding, Recording
<1> QED BY <1>1, <1>2, TypesInit DEF InputInv

(* Every step keeps the inputs named, if nobody edits the tree by hand. *)
LEMMA InputStep == ASSUME ~Editor, InputInv, [Next]_vars PROVE InputInv'
<1>1. Types' /\ kindOf' = kindOf
  BY TypesStep DEF InputInv, Next, vars
<1>2. ASSUME NEW c \in Checks, Begin(c) \/ Step(c) \/ GiveUp(c) PROVE InputInv'
  <2>1. ListsHonestly /\ tree' = tree
    BY <1>2, StepHonest
  <2>2. ASSUME NEW d \in Checks
        PROVE  (GitWanted(d) /\ KeyIsOwn(d) /\ GatedInside(d) /\ InputsNamed(d))'
    <3>1. CASE d = c
      BY <1>1, <1>2, <3>1, LookupNamed, ExecuteNamed DEF Step
    <3>2. CASE d # c
      BY <1>1, <1>2, <2>1, <3>2, StepAside, AsideKeeps
    <3> QED BY <3>1, <3>2
  <2>3. WritersAlone' /\ RecordsNamed'
    BY <1>1, <1>2, StepAlone, StepRecords
  <2> QED BY <1>1, <2>2, <2>3 DEF InputInv
<1> QED BY <1>1, <1>2, AroundNamed DEF Next, Work, Finished

(***************************************************************************)
(* cache.go:296-300 with executeOnce: however many checks, commands and    *)
(* processes share the tree, and whichever die, a record of a check that   *)
(* only reads the tree names the inputs its execution read, files that an  *)
(* earlier listing of the run could not know of included.  Nobody edits    *)
(* the tree by hand; commands change it as often as they like.             *)
(***************************************************************************)
THEOREM RecordsNameInputs == ASSUME ~Editor PROVE Spec => []RecordNamesItsInputs
<1>1. InputInv /\ [Next]_vars => InputInv'
  BY InputStep
<1>2. InputInv => RecordNamesItsInputs
  <2> SUFFICES ASSUME InputInv, NEW c \in Checks, NEW view \in Views, Native(c), ~HasArtifacts(c),
                      record[<<DefinitionOf[c], view>>] # NoRecord
               PROVE  view = TrueView(record[<<DefinitionOf[c], view>>])
    BY DEF RecordNamesItsInputs
  <2>1. ReadsTree(c)
    BY DEF InputInv, Native, HasArtifacts, ReadsTree
  <2> QED BY <2>1 DEF InputInv, RecordsNamed
<1> QED BY <1>1, <1>2, InputInit, PTL DEF Spec
================================================================================
