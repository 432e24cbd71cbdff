----------------------------- MODULE ResultCache ------------------------------
(***************************************************************************)
(* CachedExecutor.Execute (internal/verify/cache.go) for checks that the   *)
(* cache may serve, run by several CLI processes over one cache directory  *)
(* and one working tree, next to uncached command checks that change the   *)
(* tree.  A check names its inputs by a fingerprint, takes the lock of     *)
(* that key, confirms the fingerprint, and then serves the recorded        *)
(* verdict or executes and records one.  Fingerprints list the tree        *)
(* through the session's memoized git listing (discovery.go).              *)
(*                                                                         *)
(* The tree is one listed file's content and one further file that may be  *)
(* absent.  A fingerprint is what hashing the listed files at one moment   *)
(* gives, so a key is a view of the tree: the content, and the further     *)
(* file as present, as missing (listed, not on disk) or as unlisted.       *)
(* A record is its key and, as a ghost, the tree its execution read.       *)
(***************************************************************************)
EXTENDS Naturals, FiniteSets

CONSTANTS
  Checks,        \* cached checks
  Commands,      \* uncached command checks: they write the tree
  Sessions,      \* one session per process
  SessionOf,     \* [Checks \cup Commands -> Sessions]
  DefinitionOf,  \* [Checks -> definitions]: what a planned check's digest covers,
                 \* its kind and its executor among it
  KindsOf,       \* the kinds the checks may have, a set of functions
  NoKey, NoRecord, NoListing,
  MaxWrites,     \* bound: how often commands and editors change the tree
  Editor,        \* whether somebody edits the tree while checks run
  MaxRestarts,   \* bound: how many processes die or start over
  Disk           \* whether cache writes can fail

ASSUME CacheAssumption ==
  /\ Checks \cap Commands = {}
  /\ SessionOf \in [Checks \cup Commands -> Sessions]
  /\ KindsOf \subseteq [Checks -> {"go", "command", "dagger"}]
  /\ MaxWrites \in Nat /\ MaxRestarts \in Nat
  /\ Editor \in BOOLEAN /\ Disk \in BOOLEAN

(* Checks with one digest are one planned check, of one kind. *)
ASSUME KindAssumption ==
  \A kinds \in KindsOf, c, d \in Checks : DefinitionOf[c] = DefinitionOf[d] => kinds[c] = kinds[d]

VARIABLES
  kindOf,        \* the kind of each check
  tree,          \* the working tree
  writes,        \* how often it was changed
  listing,       \* Session.listings: the memoized listing of each session
  git,           \* the listing a check's git produced, not yet memoized
  pc,            \* where each check is in Execute
  key,           \* the key a check looks up
  tries,         \* how often lockedFingerprint looked it up
  gated,         \* whether it enters the workspace first
  rerun,         \* attempt.RerunChecks
  saw,           \* ghost: the tree an execution read
  lock,          \* the key whose result lock a check holds
  inside,        \* the checks and commands in the working tree
  record,        \* results/<key>.json
  retry,         \* the keys with a results/<key>.retry
  latest,        \* ghost: the outcome of the latest execution under each key
  restarts       \* how many processes died or started over

treeVars == <<tree, writes>>
listVars == <<listing, git>>
locals == <<key, tries, gated, rerun, saw>>
held == <<lock, inside>>
storeVars == <<record, retry, latest>>
vars == <<kindOf, treeVars, listVars, pc, locals, held, storeVars, restarts>>

Trees == [content : {0, 1}, extra : BOOLEAN]
Definitions == {DefinitionOf[c] : c \in Checks}
Views == [content : {0, 1}, extra : {"present", "missing", "unlisted"}]
Keys == Definitions \X Views
Actors == Checks \cup Commands

ASSUME NoneAssumption == NoKey \notin Keys /\ NoRecord \notin Trees

(* A native check enters the tree; a command check has artifacts and writes. *)
Native(c) == kindOf[c] # "dagger"
HasArtifacts(c) == kindOf[c] = "command"

Phases ==
  {"start", "name", "lock", "enter", "confirm", "look", "remove", "mark",
   "run", "read", "after", "save", "unmark",
   "uncached", "uncachedRun", "done"}

(* A tree as a listing that has the further file, or has not, shows it. *)
View(listed, t) ==
  [content |-> t.content,
   extra |-> IF ~listed THEN "unlisted" ELSE IF t.extra THEN "present" ELSE "missing"]

TrueView(t) == View(t.extra, t)

(* Entering the tree to read it or to write it, as TreeAccess promises it. *)
Access == Actors \X {"reads", "writes"}
AccessOf(a) == <<a, IF a \in Checks => HasArtifacts(a) THEN "writes" ELSE "reads">>

Tree == INSTANCE TreeAccess WITH
  Checks <- Access,
  Writers <- Actors \X {"writes"},
  Locked <- Access,
  ProcessOf <- [x \in Access |-> SessionOf[x[1]]],
  asked <- {}

MayEnter(a) == \A d \in inside : Tree!Compatible(AccessOf(a), AccessOf(d))

Init ==
  /\ kindOf \in KindsOf
  /\ tree = [content |-> 0, extra |-> FALSE]
  /\ writes = 0
  /\ listing = [s \in Sessions |-> NoListing]
  /\ git = [c \in Checks |-> NoListing]
  /\ pc = [c \in Checks |-> "start"]
  /\ key = [c \in Checks |-> NoKey]
  /\ tries = [c \in Checks |-> 0]
  /\ gated = [c \in Checks |-> FALSE]
  /\ rerun = [c \in Checks |-> FALSE]
  /\ saw = [c \in Checks |-> NoRecord]
  /\ lock = [c \in Checks |-> NoKey]
  /\ inside = {}
  /\ record = [k \in Keys |-> NoRecord]
  /\ retry = {}
  /\ latest = [k \in Keys |-> "none"]
  /\ restarts = 0

Goto(c, p) == pc' = [pc EXCEPT ![c] = p]

-----------------------------------------------------------------------------
(* The session's listing and fingerprints. *)

(***************************************************************************)
(* Without a memoized listing, git lists the tree.  Of listingEpochs only  *)
(* matters whether it moved since git was asked: whether the answer is     *)
(* still current.                                                          *)
(***************************************************************************)
ListGit(c) ==
  /\ pc[c] \in {"name", "confirm", "look", "after"}
  /\ listing[SessionOf[c]] = NoListing
  /\ git[c] = NoListing
  /\ git' = [git EXCEPT ![c] = [extra |-> tree.extra, current |-> TRUE]]
  /\ UNCHANGED <<treeVars, listing, pc, locals, held, storeVars, restarts>>

(* MUTANT of Current: git's answer is the run's, whenever it was asked. *)
CurrentAlways(c) == TRUE

(* A relist since git was asked makes its listing serve this caller only. *)
Current(c) == git[c].current

HasListing(c) == listing[SessionOf[c]] # NoListing \/ git[c] # NoListing

(* What the check lists, and what its session then has memoized. *)
Listed(c) ==
  LET memo == listing[SessionOf[c]]
  IN  IF git[c] = NoListing \/ (Current(c) /\ memo # NoListing) THEN memo.extra
      ELSE git[c].extra

Memoized(c) ==
  LET memo == listing[SessionOf[c]]
  IN  IF git[c] # NoListing /\ Current(c) /\ memo = NoListing
      THEN [extra |-> git[c].extra] ELSE memo

Fingerprint(c) == <<DefinitionOf[c], View(Listed(c), tree)>>

TakeListing(c) ==
  /\ HasListing(c)
  /\ listing' = [listing EXCEPT ![SessionOf[c]] = Memoized(c)]
  /\ git' = [git EXCEPT ![c] = NoListing]

Relist(s) ==
  /\ listing' = [listing EXCEPT ![s] = NoListing]
  /\ git' = [c \in Checks |->
               IF SessionOf[c] = s /\ git[c] # NoListing
               THEN [git[c] EXCEPT !.current = FALSE] ELSE git[c]]

-----------------------------------------------------------------------------
(* Execute up to the lookup: lockedFingerprint. *)

(* MUTANT of Release: the result lock stays taken. *)
ReleaseTreeOnly(c) ==
  /\ inside' = inside \ {c}
  /\ UNCHANGED lock

Release(c) ==
  /\ inside' = inside \ {c}
  /\ lock' = [lock EXCEPT ![c] = NoKey]

(* The check ends: the deferred release, and Execute's locals are gone. *)
End(c) ==
  /\ Release(c)
  /\ Goto(c, "done")
  /\ key' = [key EXCEPT ![c] = NoKey]
  /\ tries' = [tries EXCEPT ![c] = 0]
  /\ gated' = [gated EXCEPT ![c] = FALSE]
  /\ rerun' = [rerun EXCEPT ![c] = FALSE]
  /\ saw' = [saw EXCEPT ![c] = NoRecord]

(***************************************************************************)
(* Execute starts, with or without --rerun-checks.  A native check that    *)
(* must execute, or that restores artifacts on a hit, is gated at once.    *)
(***************************************************************************)
Begin(c) ==
  /\ pc[c] = "start"
  /\ \E again \in BOOLEAN :
       /\ rerun' = [rerun EXCEPT ![c] = again]
       /\ gated' = [gated EXCEPT ![c] = Native(c) /\ (again \/ HasArtifacts(c))]
  /\ Goto(c, "name")
  /\ UNCHANGED <<treeVars, listVars, key, tries, saw, held, storeVars, restarts>>

(* The first fingerprint only names the lock. *)
Name(c) ==
  /\ pc[c] = "name"
  /\ TakeListing(c)
  /\ key' = [key EXCEPT ![c] = Fingerprint(c)]
  /\ tries' = [tries EXCEPT ![c] = @ + 1]
  /\ Goto(c, "lock")
  /\ UNCHANGED <<treeVars, gated, rerun, saw, held, storeVars, restarts>>

(* MUTANT of TakeLock: the lock file is named, not held. *)
TakeLockShared(c) ==
  /\ pc[c] = "lock"
  /\ lock' = [lock EXCEPT ![c] = key[c]]
  /\ Goto(c, IF gated[c] THEN "enter" ELSE "confirm")
  /\ UNCHANGED <<treeVars, listVars, locals, inside, storeVars, restarts>>

TakeLock(c) ==
  /\ pc[c] = "lock"
  /\ \A d \in Checks : lock[d] # key[c]
  /\ lock' = [lock EXCEPT ![c] = key[c]]
  /\ Goto(c, IF gated[c] THEN "enter" ELSE "confirm")
  /\ UNCHANGED <<treeVars, listVars, locals, inside, storeVars, restarts>>

Enter(c) ==
  /\ pc[c] = "enter"
  /\ MayEnter(c)
  /\ inside' = inside \cup {c}
  /\ Goto(c, "confirm")
  /\ UNCHANGED <<treeVars, listVars, locals, lock, storeVars, restarts>>

(* The run is cancelled: the check stops waiting, with all it holds free. *)
GiveUp(c) ==
  /\ pc[c] \in {"name", "lock", "enter", "confirm", "uncached"}
  /\ End(c)
  /\ git' = [git EXCEPT ![c] = NoListing]
  /\ UNCHANGED <<treeVars, listing, storeVars, restarts>>

Confirm(c) ==
  /\ pc[c] = "confirm"
  /\ TakeListing(c)
  /\ \/ /\ Fingerprint(c) = key[c]
        /\ Goto(c, "look")
        /\ UNCHANGED held
     \/ /\ Fingerprint(c) # key[c]
        /\ Release(c)
        /\ Goto(c, IF tries[c] < 3 THEN "name" ELSE "uncached")
  /\ UNCHANGED <<treeVars, locals, storeVars, restarts>>

(* MUTANT of Attempt: the retry marker is not looked at. *)
AttemptIgnoringMarker(c) == rerun[c]

(* attempt.RerunChecks *)
Attempt(c) == rerun[c] \/ key[c] \in retry

(***************************************************************************)
(* The lookup, after discoveryNote listed.  A retry marker makes the       *)
(* attempt a rerun; otherwise a record that loads is served.               *)
(***************************************************************************)
Hit(c) ==
  /\ pc[c] = "look"
  /\ TakeListing(c)
  /\ ~Attempt(c)
  /\ record[key[c]] # NoRecord
  /\ End(c)
  /\ UNCHANGED <<treeVars, storeVars, restarts>>

(***************************************************************************)
(* A record that does not load is a miss too (checksum, artifacts).  A     *)
(* native check that is not in the tree yet starts over, gated.            *)
(***************************************************************************)
Miss(c) ==
  /\ pc[c] = "look"
  /\ TakeListing(c)
  /\ Attempt(c) \/ record[key[c]] = NoRecord \/ Disk
  /\ \/ /\ gated[c] \/ ~Native(c)
        /\ rerun' = [rerun EXCEPT ![c] = Attempt(c)]
        /\ Goto(c, "remove")
        /\ UNCHANGED <<held, key, tries, gated>>
     \/ /\ ~gated[c] /\ Native(c)
        /\ Release(c)
        /\ gated' = [gated EXCEPT ![c] = TRUE]
        /\ tries' = [tries EXCEPT ![c] = 0]
        /\ key' = [key EXCEPT ![c] = NoKey]
        /\ Goto(c, "name")
        /\ UNCHANGED rerun
  /\ UNCHANGED <<treeVars, saw, storeVars, restarts>>

-----------------------------------------------------------------------------
(* execute, under the result lock and, for a native check, in the tree. *)

(* MUTANT of RemoveRecord: the older success stays until the next save. *)
KeepRecord(c) ==
  /\ pc[c] = "remove"
  /\ Goto(c, "mark")
  /\ UNCHANGED <<treeVars, listVars, locals, held, storeVars, restarts>>

RemoveRecord(c) ==
  /\ pc[c] = "remove"
  /\ \/ /\ record' = [record EXCEPT ![key[c]] = NoRecord]
        /\ Goto(c, "mark")
        /\ UNCHANGED <<held, locals>>
     \/ Disk /\ End(c) /\ UNCHANGED record
  /\ UNCHANGED <<treeVars, listVars, retry, latest, restarts>>

MarkRetry(c) ==
  /\ pc[c] = "mark"
  /\ \/ /\ retry' = retry \cup {key[c]}
        /\ latest' = [latest EXCEPT ![key[c]] = "pending"]
        /\ Goto(c, "run")
        /\ UNCHANGED <<held, locals>>
     \/ Disk /\ End(c) /\ UNCHANGED <<retry, latest>>
  /\ UNCHANGED <<treeVars, listVars, record, restarts>>

(* The executor reads the tree, at one moment of its run. *)
Read(c) ==
  /\ pc[c] = "run"
  /\ saw' = [saw EXCEPT ![c] = tree]
  /\ Goto(c, "read")
  /\ UNCHANGED <<treeVars, listVars, key, tries, gated, rerun, held, storeVars, restarts>>

(* The executor returns and the session relists, whatever the outcome. *)
Return(c) ==
  /\ pc[c] = "read"
  /\ Relist(SessionOf[c])
  /\ \/ /\ Goto(c, "after")
        /\ UNCHANGED <<latest, held, locals>>
     \/ /\ latest' = [latest EXCEPT ![key[c]] = "failed"]
        /\ End(c)
  /\ UNCHANGED <<treeVars, record, retry, restarts>>

(* A pass counts only for inputs that are still what the key names. *)
After(c) ==
  /\ pc[c] = "after"
  /\ TakeListing(c)
  /\ \/ /\ Fingerprint(c) = key[c]
        /\ latest' = [latest EXCEPT ![key[c]] = "passed"]
        /\ Goto(c, "save")
        /\ UNCHANGED <<held, locals>>
     \/ /\ Fingerprint(c) # key[c]
        /\ latest' = [latest EXCEPT ![key[c]] = "unknown"]
        /\ End(c)
  /\ UNCHANGED <<treeVars, record, retry, restarts>>

Save(c) ==
  /\ pc[c] = "save"
  /\ \/ /\ record' = [record EXCEPT ![key[c]] = saw[c]]
        /\ Goto(c, "unmark")
        /\ UNCHANGED <<held, locals>>
     \/ Disk /\ End(c) /\ UNCHANGED record
  /\ UNCHANGED <<treeVars, listVars, retry, latest, restarts>>

Unmark(c) ==
  /\ pc[c] = "unmark"
  /\ \/ retry' = retry \ {key[c]}
     \/ Disk /\ UNCHANGED retry
  /\ End(c)
  /\ UNCHANGED <<treeVars, listVars, record, latest, restarts>>

-----------------------------------------------------------------------------
(* run: a check the cache could not identify, and uncached commands. *)

RunUncached(c) ==
  /\ pc[c] = "uncached"
  /\ Native(c) => MayEnter(c)
  /\ inside' = IF Native(c) THEN inside \cup {c} ELSE inside
  /\ Goto(c, "uncachedRun")
  /\ UNCHANGED <<treeVars, listVars, locals, lock, storeVars, restarts>>

EndUncached(c) ==
  /\ pc[c] = "uncachedRun"
  /\ Relist(SessionOf[c])
  /\ End(c)
  /\ UNCHANGED <<treeVars, storeVars, restarts>>

EnterCommand(w) ==
  /\ w \notin inside
  /\ writes < MaxWrites
  /\ MayEnter(w)
  /\ inside' = inside \cup {w}
  /\ UNCHANGED <<treeVars, listVars, pc, locals, lock, storeVars, restarts>>

Change ==
  /\ writes < MaxWrites
  /\ writes' = writes + 1
  /\ tree' \in Trees \ {tree}

(* A command, or a cached command check, changes the tree it is in. *)
Write(a) ==
  /\ a \in inside
  /\ \/ a \in Commands
     \/ a \in Checks /\ HasArtifacts(a) /\ pc[a] \in {"run", "read", "uncachedRun"}
  /\ Change
  /\ UNCHANGED <<listVars, pc, locals, held, storeVars, restarts>>

LeaveCommand(w) ==
  /\ w \in inside
  /\ Relist(SessionOf[w])
  /\ inside' = inside \ {w}
  /\ UNCHANGED <<treeVars, pc, locals, lock, storeVars, restarts>>

(* Somebody edits the tree; nothing coordinates them with the checks. *)
Edit ==
  /\ Editor
  /\ Change
  /\ UNCHANGED <<listVars, pc, locals, held, storeVars, restarts>>

(***************************************************************************)
(* A process dies, or is done and the CLI is called again: its locks are   *)
(* free, its session is a new one, the cache directory is as it was left.  *)
(***************************************************************************)
Restart(s) ==
  LET mine == {a \in Actors : SessionOf[a] = s}
      Reset(f, v) == [c \in Checks |-> IF c \in mine THEN v ELSE f[c]]
  IN  /\ restarts < MaxRestarts
      /\ restarts' = restarts + 1
      /\ pc' = Reset(pc, "start")
      /\ key' = Reset(key, NoKey)
      /\ tries' = Reset(tries, 0)
      /\ gated' = Reset(gated, FALSE)
      /\ rerun' = Reset(rerun, FALSE)
      /\ saw' = Reset(saw, NoRecord)
      /\ git' = Reset(git, NoListing)
      /\ lock' = Reset(lock, NoKey)
      /\ inside' = inside \ mine
      /\ listing' = [listing EXCEPT ![s] = NoListing]
      /\ UNCHANGED <<treeVars, storeVars>>

Finished ==
  /\ \A c \in Checks : pc[c] = "done"
  /\ inside = {}
  /\ UNCHANGED vars

Step(c) ==
  \/ ListGit(c) \/ Name(c) \/ TakeLock(c) \/ Enter(c) \/ Confirm(c)
  \/ Hit(c) \/ Miss(c) \/ RemoveRecord(c) \/ MarkRetry(c) \/ Read(c) \/ Return(c)
  \/ After(c) \/ Save(c) \/ Unmark(c) \/ RunUncached(c) \/ EndUncached(c)

Work ==
  \/ \E c \in Checks : Begin(c) \/ Step(c) \/ GiveUp(c)
  \/ \E w \in Commands : EnterCommand(w) \/ LeaveCommand(w)
  \/ \E a \in Actors : Write(a)
  \/ Edit
  \/ \E s \in Sessions : Restart(s)
  \/ Finished

Next == Work /\ UNCHANGED kindOf

Spec == Init /\ [][Next]_vars

(* Goroutines are scheduled, executors return and commands end. *)
FairSpec ==
  /\ Spec
  /\ \A c \in Checks : /\ WF_vars(Begin(c) /\ UNCHANGED kindOf)
                       /\ WF_vars(Step(c) /\ UNCHANGED kindOf)
  /\ \A w \in Commands : WF_vars(LeaveCommand(w) /\ UNCHANGED kindOf)

-----------------------------------------------------------------------------
TypeOK ==
  /\ tree \in Trees
  /\ writes \in 0..MaxWrites
  /\ listing \in [Sessions -> {NoListing} \cup [extra : BOOLEAN]]
  /\ git \in [Checks -> {NoListing} \cup [extra : BOOLEAN, current : BOOLEAN]]
  /\ pc \in [Checks -> Phases]
  /\ key \in [Checks -> Keys \cup {NoKey}]
  /\ tries \in [Checks -> 0..3]
  /\ gated \in [Checks -> BOOLEAN]
  /\ rerun \in [Checks -> BOOLEAN]
  /\ lock \in [Checks -> Keys \cup {NoKey}]
  /\ inside \subseteq Actors
  /\ saw \in [Checks -> Trees \cup {NoRecord}]
  /\ record \in [Keys -> Trees \cup {NoRecord}]
  /\ retry \subseteq Keys
  /\ latest \in [Keys -> {"none", "pending", "passed", "failed", "unknown"}]
  /\ restarts \in 0..MaxRestarts

(***************************************************************************)
(* cache.go:296-300 with executeOnce: a record names the inputs its        *)
(* execution read, also the files a listing taken earlier in the run could *)
(* not know of.  For native checks that read the tree, which nobody edits  *)
(* by hand meanwhile; a command that changes its own inputs and then       *)
(* restores them may have read what no key names.                          *)
(***************************************************************************)
RecordNamesItsInputs ==
  \A c \in Checks, view \in Views :
    LET made == record[<<DefinitionOf[c], view>>]
    IN  Native(c) /\ ~HasArtifacts(c) /\ made # NoRecord => view = TrueView(made)

(***************************************************************************)
(* cache.go:269: a new observation supersedes an older success.  A record  *)
(* is there only while the latest execution under its key passed, through  *)
(* failures, cancellations, failing disks and crashes between two steps.   *)
(***************************************************************************)
NoSupersededSuccess ==
  \A k \in Keys : record[k] # NoRecord => latest[k] = "passed"

(***************************************************************************)
(* cache.go:236-241: an execution that did not publish a success leaves    *)
(* the marker that makes the next one a rerun, which bypasses lower        *)
(* verdict caches.                                                         *)
(***************************************************************************)
UnpublishedIsRerun ==
  [][\A c \in Checks :
       pc[c] = "mark" /\ pc'[c] = "run" /\ latest[key[c]] \in {"pending", "failed", "unknown"}
         => rerun[c]]_vars

(***************************************************************************)
(* Two executions that may record a verdict never run under one key at     *)
(* once.                                                                   *)
(***************************************************************************)
Recording == {"remove", "mark", "run", "read", "after", "save", "unmark"}

OneRecorderPerKey ==
  \A c, d \in Checks :
    c # d /\ pc[c] \in Recording /\ pc[d] \in Recording => key[c] # key[d]

(* Every lookup ends, with a verdict of the cache or of an execution. *)
EveryCheckEnds == \A c \in Checks : pc[c] # "start" ~> pc[c] \in {"done", "start"}

(***************************************************************************)
(* cache.go:243-245: "The key was confirmed with the result lock held, and *)
(* a record changes only under that lock, so what loads is the verdict for *)
(* the inputs as they are now."  Stated for a check that holds its tree    *)
(* too, so that nothing changes the inputs between the two.                *)
(***************************************************************************)
ServedIsCurrent ==
  [][\A c \in Checks :
       pc[c] = "look" /\ pc'[c] = "done" /\ c \in inside
         => key[c][2] = TrueView(tree)]_vars
===============================================================================
