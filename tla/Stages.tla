-------------------------------- MODULE Stages --------------------------------
(***************************************************************************)
(* The preparation and the build of command checks (Native.runCommand in   *)
(* internal/verify/native.go, Native.stage in stages.go): each is reused   *)
(* when a record has its key and the outputs that are there, and is run    *)
(* and recorded otherwise.  The checks run in several CLI processes, each  *)
(* alone in the working tree (TreeAccess: command checks are writers),     *)
(* while somebody edits the tree and removes what was built.               *)
(*                                                                         *)
(* The tree is a version of each stage's declared inputs, what the         *)
(* preparation generated, which is an input of the build, and what the     *)
(* build produced.  A command that passes produces what its inputs         *)
(* determine.                                                              *)
(***************************************************************************)
EXTENDS Naturals, FiniteSets

CONSTANTS
  Checks,        \* command checks with a preparation and the same build
  Sessions,
  SessionOf,     \* [Checks -> Sessions]
  PreparationOf, \* [Checks -> definitions]; they write to the same place
  Remembered,    \* checks with a cache and an environment identity
  Absent,        \* nothing is there, or there is no listing
  Partial,       \* what a command that did not pass may leave
  Unlisted,      \* a file a key does not cover
  MaxChanges,    \* bound on the edits, removals and deaths of processes
  MaxTurns,      \* bound on the executions of all checks
  Disk           \* whether writing a record can fail

ASSUME StagesAssumption ==
  /\ SessionOf \in [Checks -> Sessions]
  /\ Remembered \subseteq Checks
  /\ MaxChanges \in Nat /\ MaxTurns \in Nat
  /\ Disk \in BOOLEAN

Kinds == {"preparation", "build"}

VARIABLES
  src,           \* [Kinds -> the version of the stage's declared inputs]
  out,           \* [Kinds -> what is at the stage's declared outputs]
  ignored,       \* whether git ignores what the preparation generates
  listing,       \* Session.listings: whether it has the generated file
  pc, kind,      \* where each check is, in which stage
  inside,        \* the checks in the working tree
  key,           \* the stage's key
  took,          \* what its command read
  made,          \* the snapshot of the outputs it produced
  records,       \* stages/<key>.json
  quiet,         \* ghost: no outsider changed the tree since the check entered
  sound,         \* ghost: nor when the records it reused were made
  changes, turns

treeVars == <<src, out, ignored>>
locals == <<kind, key, took, made>>
ghosts == <<quiet, sound>>
bounds == <<changes, turns>>
vars == <<treeVars, listing, pc, locals, inside, records, ghosts, bounds>>

-----------------------------------------------------------------------------
(* What commands make, and keys. *)

Generated == [definition : {PreparationOf[c] : c \in Checks}, src : Nat]
Built == [src : Nat, generated : Generated]
Made == [Kinds -> Generated \cup Built \cup {Absent, Partial}]
Reads == [src : [Kinds -> Nat], generated : Generated \cup {Absent, Partial}]

(* What stage k of check c makes from what its command read. *)
Product(c, k, r) ==
  IF k = "preparation" THEN [definition |-> PreparationOf[c], src |-> r.src[k]]
  ELSE [src |-> r.src[k], generated |-> r.generated]

ASSUME AbsentAssumption == Absent \notin Generated

Now == [src |-> src, generated |-> out["preparation"]]

(* A build needs what its preparation generates. *)
MayPass(k, r) == k = "build" => r.generated \in Generated

(***************************************************************************)
(* The snapshot of a stage's inputs, by the session's listing.  Its own    *)
(* outputs are excluded.                                                   *)
(***************************************************************************)
Inputs(c, k) ==
  [src |-> src[k],
   generated |-> IF k = "preparation" \/ ~listing[SessionOf[c]].generated THEN Unlisted
                 ELSE out["preparation"]]

(* The digest of the preparation a build depends on: definition and inputs. *)
Dependency(c) == [definition |-> PreparationOf[c], src |-> src["preparation"]]

Key(c) ==
  [kind |-> kind[c],
   definition |-> IF kind[c] = "preparation" THEN PreparationOf[c] ELSE "build",
   inputs |-> Inputs(c, kind[c]),
   dependency |-> Absent]

Listed(c) == listing[SessionOf[c]] # Absent

Init ==
  /\ src = [k \in Kinds |-> 0]
  /\ out = [k \in Kinds |-> Absent]
  /\ ignored \in BOOLEAN
  /\ listing = [s \in Sessions |-> Absent]
  /\ pc = [c \in Checks |-> "idle"]
  /\ kind = [c \in Checks |-> "preparation"]
  /\ inside = {}
  /\ key = [c \in Checks |-> Absent]
  /\ took = [c \in Checks |-> Absent]
  /\ made = [c \in Checks |-> Absent]
  /\ records = {}
  /\ quiet = [c \in Checks |-> TRUE]
  /\ sound = [c \in Checks |-> TRUE]
  /\ changes = 0 /\ turns = 0

-----------------------------------------------------------------------------
(* The check around its stages. *)

Goto(c, p) == pc' = [pc EXCEPT ![c] = p]

(* A check's cache lookup may list the tree long before it may enter it. *)
Begin(c) ==
  /\ pc[c] = "idle"
  /\ turns < MaxTurns
  /\ turns' = turns + 1
  /\ Goto(c, "waiting")
  /\ UNCHANGED <<treeVars, listing, locals, inside, records, ghosts, changes>>

(* The listing is memoized; its race with relist is in ResultCache. *)
List(c) ==
  /\ pc[c] \in {"waiting", "key", "after"}
  /\ ~Listed(c)
  /\ listing' = [listing EXCEPT ![SessionOf[c]] =
                   [generated |-> ~ignored /\ out["preparation"] # Absent]]
  /\ UNCHANGED <<treeVars, pc, locals, inside, records, ghosts, bounds>>

(* The tree, and then Native.mu, up to the end of the check's command. *)
Enter(c) ==
  /\ inside = {}
  /\ pc[c] = "waiting"
  /\ inside' = inside \cup {c}
  /\ Goto(c, "key")
  /\ kind' = [kind EXCEPT ![c] = "preparation"]
  /\ quiet' = [quiet EXCEPT ![c] = TRUE]
  /\ sound' = [sound EXCEPT ![c] = TRUE]
  /\ UNCHANGED <<treeVars, listing, key, took, made, records, bounds>>

Rest(c) ==
  /\ key' = [key EXCEPT ![c] = Absent]
  /\ took' = [took EXCEPT ![c] = Absent]
  /\ made' = [made EXCEPT ![c] = Absent]

Leave(c) ==
  /\ Goto(c, "idle")
  /\ inside' = inside \ {c}
  /\ Rest(c)
  /\ UNCHANGED kind

(* The next stage, or the check's own command. *)
Proceed(c) ==
  /\ IF kind[c] = "preparation"
     THEN Goto(c, "key") /\ kind' = [kind EXCEPT ![c] = "build"]
     ELSE Goto(c, "command") /\ UNCHANGED kind
  /\ Rest(c)
  /\ UNCHANGED inside

(* The check's command reads the tree; whatever its outcome, the check ends. *)
Command(c) ==
  /\ pc[c] = "command"
  /\ Leave(c)
  /\ UNCHANGED <<treeVars, listing, records, ghosts, bounds>>

-----------------------------------------------------------------------------
(* Native.stage *)

TakeKey(c) ==
  /\ pc[c] = "key"
  /\ Listed(c)
  /\ key' = [key EXCEPT ![c] = Key(c)]
  /\ Goto(c, IF kind[c] = "build" THEN "dependency" ELSE "look")
  /\ UNCHANGED <<treeVars, listing, kind, took, made, inside, records, ghosts, bounds>>

(* A build's key also covers its preparation, by a snapshot of its own. *)
TakeDependency(c) ==
  /\ pc[c] = "dependency"
  /\ key' = [key EXCEPT ![c].dependency = Dependency(c)]
  /\ Goto(c, "look")
  /\ UNCHANGED <<treeVars, listing, kind, took, made, inside, records, ghosts, bounds>>

(* MUTANT of Matches: the outputs exist, whatever they are. *)
MatchesByKey(c, r) == r.key = key[c] /\ out[kind[c]] # Absent

(* The record has the key, and the outputs are the ones it describes. *)
Matches(c, r) == r.key = key[c] /\ out[kind[c]] # Absent /\ out[kind[c]] = r.outputs

Reuse(c) ==
  /\ pc[c] = "look"
  /\ c \in Remembered
  /\ \E r \in records :
       /\ Matches(c, r)
       /\ sound' = [sound EXCEPT ![c] = @ /\ r.quiet]
  /\ Proceed(c)
  /\ UNCHANGED <<treeVars, listing, records, quiet, bounds>>

(* The command starts; outputs it rewrites are incomplete meanwhile. *)
Run(c) ==
  /\ pc[c] = "look"
  /\ c \in Remembered => ~\E r \in records : Matches(c, r)
  /\ \E o \in {out[kind[c]], Partial} : out' = [out EXCEPT ![kind[c]] = o]
  /\ Goto(c, "run")
  /\ UNCHANGED <<src, ignored, listing, locals, inside, records, ghosts, bounds>>

Read(c) ==
  /\ pc[c] = "run"
  /\ took' = [took EXCEPT ![c] = Now]
  /\ Goto(c, "read")
  /\ UNCHANGED <<treeVars, listing, kind, key, made, inside, records, ghosts, bounds>>

(* MUTANT of Relist: a stage leaves the listing as it is. *)
RelistNever(c) == UNCHANGED listing

Relist(c) == listing' = [listing EXCEPT ![SessionOf[c]] = Absent]

(* The command passes, with its outputs in place. *)
Finish(c) ==
  /\ pc[c] = "read"
  /\ MayPass(kind[c], took[c])
  /\ out' = [out EXCEPT ![kind[c]] = Product(c, kind[c], took[c])]
  /\ Relist(c)
  /\ Goto(c, "made")
  /\ UNCHANGED <<src, ignored, locals, inside, records, ghosts, bounds>>

(***************************************************************************)
(* The command fails, times out, is cancelled, or leaves no outputs.  The  *)
(* check ends.                                                             *)
(***************************************************************************)
Fail(c) ==
  /\ pc[c] \in {"run", "read"}
  /\ Relist(c)
  /\ Leave(c)
  /\ UNCHANGED <<treeVars, records, ghosts, bounds>>

(* The outputs are snapshotted, or are gone again. *)
TakeOutputs(c) ==
  /\ pc[c] = "made"
  /\ IF out[kind[c]] = Absent
     THEN Leave(c)
     ELSE /\ made' = [made EXCEPT ![c] = out[kind[c]]]
          /\ Goto(c, "after")
          /\ UNCHANGED <<kind, key, took, inside>>
  /\ UNCHANGED <<treeVars, listing, records, ghosts, bounds>>

(* Only the stage's own inputs are compared, not those of the preparation. *)
Unchanged(c) == Inputs(c, kind[c]) = key[c].inputs

Record(c) ==
  {r \in records : r.key # key[c]} \cup
    {[key |-> key[c], outputs |-> made[c], read |-> took[c], quiet |-> quiet[c] /\ sound[c]]}

(* With the inputs as they were, what was made is recorded, or cannot be. *)
After(c) ==
  /\ pc[c] = "after"
  /\ Listed(c)
  /\ \/ /\ c \in Remembered /\ Unchanged(c)
        /\ records' = Record(c)
     \/ /\ ~(c \in Remembered /\ Unchanged(c)) \/ Disk
        /\ UNCHANGED records
  /\ Proceed(c)
  /\ UNCHANGED <<treeVars, listing, ghosts, bounds>>

-----------------------------------------------------------------------------
(* Outsiders. *)

Bounded == changes < MaxChanges /\ changes' = changes + 1

Disturb == quiet' = [c \in Checks |-> quiet[c] /\ c \notin inside]

(* Somebody edits inputs of ks; no edit restores an earlier version. *)
Edit(ks) ==
  /\ Bounded
  /\ src' = [k \in Kinds |-> IF k \in ks THEN src[k] + 1 ELSE src[k]]
  /\ Disturb
  /\ UNCHANGED <<out, ignored, listing, pc, locals, inside, records, sound, turns>>

(* Somebody removes what a stage made. *)
Clean(k) ==
  /\ Bounded
  /\ out[k] # Absent
  /\ out' = [out EXCEPT ![k] = Absent]
  /\ Disturb
  /\ UNCHANGED <<src, ignored, listing, pc, locals, inside, records, sound, turns>>

(* A process dies, or has ended, and the next one starts. *)
Restart(s) ==
  LET mine == {c \in Checks : SessionOf[c] = s}
      Drop(f) == [c \in Checks |-> IF c \in mine THEN Absent ELSE f[c]]
  IN  /\ Bounded
      /\ listing' = [listing EXCEPT ![s] = Absent]
      /\ pc' = [c \in Checks |-> IF c \in mine THEN "idle" ELSE pc[c]]
      /\ inside' = inside \ mine
      /\ key' = Drop(key) /\ took' = Drop(took) /\ made' = Drop(made)
      /\ UNCHANGED <<treeVars, kind, records, ghosts, turns>>

Ended == (\A c \in Checks : pc[c] = "idle") /\ turns = MaxTurns /\ UNCHANGED vars

Next ==
  \/ \E c \in Checks :
       \/ Begin(c) \/ List(c) \/ Enter(c) \/ Command(c)
       \/ TakeKey(c) \/ TakeDependency(c) \/ Reuse(c)
       \/ Run(c) \/ Read(c) \/ Finish(c) \/ Fail(c)
       \/ TakeOutputs(c) \/ After(c)
  \/ \E ks \in SUBSET Kinds \ {{}} : Edit(ks)
  \/ \E k \in Kinds : Clean(k)
  \/ \E s \in Sessions : Restart(s)
  \/ Ended

Spec == Init /\ [][Next]_vars

-----------------------------------------------------------------------------
Keys ==
  [kind : Kinds, definition : {PreparationOf[c] : c \in Checks} \cup {"build"},
   inputs : [src : Nat, generated : Generated \cup {Absent, Partial, Unlisted}],
   dependency : [definition : {PreparationOf[c] : c \in Checks}, src : Nat] \cup {Absent}]

Recorded == [key : Keys, outputs : Generated \cup Built \cup {Partial},
             read : Reads, quiet : BOOLEAN]

TypeOK ==
  /\ src \in [Kinds -> Nat]
  /\ out \in Made
  /\ ignored \in BOOLEAN
  /\ listing \in [Sessions -> [generated : BOOLEAN] \cup {Absent}]
  /\ pc \in [Checks -> {"idle", "waiting", "key", "dependency", "look", "run", "read",
                        "made", "after", "command"}]
  /\ kind \in [Checks -> Kinds]
  /\ inside = {c \in Checks : pc[c] \notin {"idle", "waiting"}}
  /\ Cardinality(inside) <= 1
  /\ key \in [Checks -> Keys \cup {Absent}]
  /\ took \in [Checks -> Reads \cup {Absent}]
  /\ made \in [Checks -> Generated \cup Built \cup {Partial, Absent}]
  /\ records \subseteq Recorded
  /\ \A r, s \in records : r.key = s.key => r = s
  /\ quiet \in [Checks -> BOOLEAN]
  /\ sound \in [Checks -> BOOLEAN]
  /\ changes \in 0..MaxChanges /\ turns \in 0..MaxTurns

(***************************************************************************)
(* stages.go:109-111: a stage is recorded under the inputs its command     *)
(* read, whoever edits them in between.  stages.go:47-54: unless somebody  *)
(* edited the tree meanwhile, a build is also recorded under the inputs of *)
(* the preparation as they were.  discovery.go:86-88: and if git lists     *)
(* what the preparation generated, under that, never under a view that     *)
(* could not see it, however old the listing that first named the stage.   *)
(***************************************************************************)
RecordNamesItsInputs ==
  \A r \in records :
    /\ r.key.inputs.src = r.read.src[r.key.kind]
    /\ r.key.kind = "build" /\ r.quiet =>
         /\ r.key.dependency.src = r.read.src["preparation"]
         /\ ~ignored => r.key.inputs.generated = r.read.generated

(***************************************************************************)
(* native.go:46: when a check's command runs, both stages' outputs are     *)
(* what they would make now, of this check's own preparation and inputs,   *)
(* reused or not, unless somebody outside changed the tree while a check   *)
(* that made them was in it.                                               *)
(***************************************************************************)
ConsumesItsOwn ==
  \A c \in Checks :
    pc[c] = "command" /\ quiet[c] /\ sound[c] =>
      /\ out["preparation"] = Product(c, "preparation", Now)
      /\ out["build"] = Product(c, "build", Now)

(***************************************************************************)
(* docs/architecture.md:133-135: a build's key is derived from the         *)
(* preparation it depends on.  So a build that is reused was made from     *)
(* what its preparation generated, if nobody changed the tree meanwhile.   *)
(***************************************************************************)
ReusedBuildIsOfItsPreparation ==
  [][\A c \in Checks :
       pc[c] = "look" /\ kind[c] = "build" /\ pc'[c] = "command" /\ quiet[c] =>
         out["build"].generated = out["preparation"]]_vars
===============================================================================
