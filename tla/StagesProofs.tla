----------------------------- MODULE StagesProofs ------------------------------
(***************************************************************************)
(* The stages of command checks for any checks, preparations, processes    *)
(* and sources, whoever edits, removes and kills in between: a record      *)
(* names what was read, and a check consumes its own stages.               *)
(***************************************************************************)
EXTENDS Stages, FiniteSetTheorems, TLAPS

USE StagesAssumption, AbsentAssumption

Preparations == {PreparationOf[c] : c \in Checks}
Dependencies == [definition : Preparations, src : Nat]

Phases == {"idle", "waiting", "key", "dependency", "look", "run", "read", "made", "after",
           "command"}
Looking == {"look", "run", "read", "made", "after"}
Stepping == Looking \cup {"dependency"}
Within(c) == pc[c] \notin {"idle", "waiting"}

TreeTypes ==
  /\ src \in [Kinds -> Nat] /\ ignored \in BOOLEAN /\ out \in Made
  /\ out["preparation"] \in Generated \cup {Absent, Partial}
  /\ out["build"] \in Built \cup {Absent, Partial}
  /\ listing \in [Sessions -> [generated : BOOLEAN] \cup {Absent}]
  /\ changes \in 0..MaxChanges /\ turns \in 0..MaxTurns

LocalTypes ==
  /\ pc \in [Checks -> Phases] /\ kind \in [Checks -> Kinds]
  /\ key \in [Checks -> Keys \cup {Absent}]
  /\ took \in [Checks -> Reads \cup {Absent}]
  /\ made \in [Checks -> Generated \cup Built \cup {Partial, Absent}]
  /\ quiet \in [Checks -> BOOLEAN] /\ sound \in [Checks -> BOOLEAN]

(* The working tree is one check's at a time. *)
Alone ==
  /\ inside = {c \in Checks : Within(c)}
  /\ \A c, d \in Checks : Within(c) /\ Within(d) => c = d

(* What the check in the tree has seen, in the order in which it saw it. *)
Keyed(c) ==
  pc[c] \in Stepping =>
    /\ key[c] \in Keys /\ key[c].kind = kind[c]
    /\ key[c].definition = IF kind[c] = "preparation" THEN PreparationOf[c] ELSE "build"
    /\ key[c].inputs.src <= src[kind[c]]
    /\ quiet[c] => key[c].inputs.src = src[kind[c]]

Depends(c) ==
  pc[c] \in Looking /\ kind[c] = "build" =>
    /\ key[c].dependency \in Dependencies
    /\ quiet[c] =>
         key[c].dependency = [definition |-> PreparationOf[c], src |-> src["preparation"]]

Took(c) ==
  pc[c] \in {"read", "made", "after"} =>
    /\ took[c] \in Reads
    /\ key[c].inputs.src <= took[c].src[kind[c]] /\ took[c].src[kind[c]] <= src[kind[c]]
    /\ quiet[c] => took[c].src = src
    /\ quiet[c] /\ kind[c] = "build" => took[c].generated = out["preparation"]

Produced(c) ==
  /\ pc[c] \in {"made", "after"} =>
       /\ MayPass(kind[c], took[c])
       /\ quiet[c] => out[kind[c]] = Product(c, kind[c], took[c])
       /\ quiet[c] /\ kind[c] = "build" /\ Listed(c) =>
            listing[SessionOf[c]].generated = ~ignored
  /\ pc[c] = "after" =>
       /\ made[c] \in Generated \cup Built \cup {Partial}
       /\ quiet[c] => made[c] = out[kind[c]]

Prepared(c) ==
  /\ Within(c) /\ kind[c] = "build" /\ quiet[c] /\ sound[c] =>
       out["preparation"] = [definition |-> PreparationOf[c], src |-> src["preparation"]]
  /\ pc[c] = "command" =>
       /\ kind[c] = "build"
       /\ quiet[c] /\ sound[c] =>
            out["build"] = [src |-> src["build"], generated |-> out["preparation"]]

Own(c) == Keyed(c) /\ Depends(c) /\ Took(c) /\ Produced(c) /\ Prepared(c)

(* What is recorded. *)
True(r) ==
  /\ r \in Recorded
  /\ r.key.inputs.src = r.read.src[r.key.kind]
  /\ r.key.kind = "build" /\ r.quiet =>
       /\ r.key.dependency.src = r.read.src["preparation"]
       /\ ~ignored => r.key.inputs.generated = r.read.generated
  /\ r.quiet =>
       r.outputs = IF r.key.kind = "preparation"
                   THEN [definition |-> r.key.definition, src |-> r.key.inputs.src]
                   ELSE [src |-> r.key.inputs.src, generated |-> r.key.dependency]

Recordings ==
  /\ \A r \in records : True(r)
  /\ \A r, s \in records : r.key = s.key => r = s

StagesInv ==
  TreeTypes /\ LocalTypes /\ Alone /\ Recordings /\ \A c \in Checks : Own(c)

-----------------------------------------------------------------------------
(* Types of what is read, made and looked up. *)
LEMMA NowTyped == ASSUME TreeTypes PROVE Now \in Reads /\ Now.src = src
  BY DEF TreeTypes, Now, Reads

(* A key names the sources as they are. *)
LEMMA KeyTyped ==
  ASSUME TreeTypes, LocalTypes, NEW c \in Checks, Listed(c)
  PROVE  /\ Key(c) \in Keys /\ Key(c).kind = kind[c] /\ Key(c).inputs.src = src[kind[c]]
         /\ Key(c).definition = IF kind[c] = "preparation" THEN PreparationOf[c] ELSE "build"
<1>1. listing[SessionOf[c]] \in [generated : BOOLEAN]
  BY DEF Listed, TreeTypes
<1>2. Inputs(c, kind[c]) \in [src : Nat, generated : Generated \cup {Absent, Partial, Unlisted}]
  BY <1>1 DEF Inputs, TreeTypes, LocalTypes
<1>3. kind[c] \in Kinds
  BY DEF LocalTypes
<1>4. Inputs(c, kind[c]).src = src[kind[c]]
  BY DEF Inputs
<1> QED BY <1>2, <1>3, <1>4 DEF Key, Keys

(* So does a build's dependency. *)
LEMMA DependencyTyped ==
  ASSUME TreeTypes, NEW c \in Checks, NEW k \in Keys
  PROVE  /\ [k EXCEPT !.dependency = Dependency(c)] \in Keys
         /\ Dependency(c) \in Dependencies
  BY DEF TreeTypes, Keys, Kinds, Dependency, Dependencies, Preparations

(* What passes makes what its stage can make. *)
LEMMA ProductTyped ==
  ASSUME NEW c \in Checks, NEW k \in Kinds, NEW r \in Reads, MayPass(k, r)
  PROVE  Product(c, k, r) \in IF k = "preparation" THEN Generated ELSE Built
  BY DEF Product, MayPass, Reads, Generated, Built, Kinds

-----------------------------------------------------------------------------
(* A check outside the tree has nothing to keep. *)
LEMMA OutsideOwn == ASSUME NEW c \in Checks, ~Within(c)' PROVE Own(c)'
  BY DEF Own, Keyed, Depends, Took, Produced, Prepared, Within, Stepping, Looking

(* Whoever steps in the tree is the only one there. *)
LEMMA OneSteps ==
  ASSUME StagesInv, NEW c \in Checks, Within(c),
         \A d \in Checks \ {c} : pc'[d] = pc[d],
         inside' = IF Within(c)' THEN inside ELSE inside \ {c},
         TreeTypes', LocalTypes', Recordings', Own(c)'
  PROVE  StagesInv'
<1>1. \A d \in Checks \ {c} : ~Within(d) /\ ~Within(d)'
  BY DEF StagesInv, Alone, Within
<1>2. \A d \in Checks : Own(d)'
  BY <1>1, OutsideOwn
<1>3. Alone'
  BY <1>1 DEF StagesInv, Alone
<1> QED BY <1>2, <1>3 DEF StagesInv

(* Records stay true while none is made. *)
LEMMA SameRecords == ASSUME StagesInv, records' = records, ignored' = ignored PROVE Recordings'
  BY DEF StagesInv, Recordings, True

-----------------------------------------------------------------------------
(* A stage's key, and that of what it depends on. *)
LEMMA KeySteps ==
  ASSUME StagesInv, NEW c \in Checks, TakeKey(c) \/ TakeDependency(c) PROVE StagesInv'
<1> TreeTypes /\ LocalTypes /\ Own(c)
  BY DEF StagesInv
<1> USE DEF treeVars, ghosts, bounds
<1>1. /\ UNCHANGED <<src, out, ignored, listing, kind, took, made, inside, records, quiet, sound,
                     changes, turns>>
      /\ Within(c)
  BY DEF TakeKey, TakeDependency, Within
<1>2. TreeTypes' /\ Recordings'
  BY <1>1, SameRecords DEF TreeTypes
<1>3. CASE TakeKey(c)
  <2>1. /\ key' = [key EXCEPT ![c] = Key(c)] /\ Listed(c)
        /\ Goto(c, IF kind[c] = "build" THEN "dependency" ELSE "look")
    BY <1>3 DEF TakeKey
  <2>2. LocalTypes'
    BY <1>1, <2>1, KeyTyped DEF LocalTypes, Goto, Phases
  <2>3. key'[c] = Key(c) /\ pc'[c] = IF kind[c] = "build" THEN "dependency" ELSE "look"
    BY <2>1 DEF LocalTypes, Goto
  <2>4. Keyed(c)'
    BY <1>1, <2>1, <2>3, KeyTyped DEF Keyed, TreeTypes, LocalTypes
  <2>5. Own(c)'
    BY <1>1, <2>3, <2>4 DEF Own, Depends, Took, Produced, Prepared, Looking, Within
  <2>6. Within(c)' /\ \A d \in Checks \ {c} : pc'[d] = pc[d]
    BY <2>1, <2>3 DEF Within, Goto, LocalTypes
  <2> QED BY <1>1, <1>2, <2>2, <2>5, <2>6, OneSteps
<1>4. CASE TakeDependency(c)
  <2>1. /\ key' = [key EXCEPT ![c].dependency = Dependency(c)]
        /\ Goto(c, "look") /\ pc[c] = "dependency"
    BY <1>4 DEF TakeDependency
  <2>2. key[c] \in Keys
    BY <2>1 DEF Own, Keyed, Stepping
  <2>3. key'[c] = [key[c] EXCEPT !.dependency = Dependency(c)] /\ pc'[c] = "look"
    BY <2>1 DEF LocalTypes, Goto
  <2>4. key'[c] \in Keys
    BY <2>2, <2>3, DependencyTyped
  <2>5. LocalTypes'
    BY <1>1, <2>1, <2>4 DEF LocalTypes, Goto, Phases
  <2>6. /\ key'[c].dependency = Dependency(c) /\ key'[c].kind = key[c].kind
        /\ key'[c].definition = key[c].definition /\ key'[c].inputs = key[c].inputs
    BY <2>2, <2>3 DEF Keys
  <2>7. Keyed(c)'
    BY <1>1, <2>1, <2>4, <2>6 DEF Own, Keyed, Stepping
  <2>8. Depends(c)'
    <3>1. Dependency(c) \in Dependencies
      BY <2>2, DependencyTyped
    <3>2. /\ key'[c].dependency = Dependency(c) /\ src' = src
          /\ Dependency(c) = [definition |-> PreparationOf[c], src |-> src["preparation"]]
      BY <1>1, <2>6 DEF Dependency
    <3> QED BY <3>1, <3>2 DEF Depends
  <2>9. Own(c)'
    BY <1>1, <2>1, <2>3, <2>7, <2>8 DEF Own, Took, Produced, Prepared, Looking, Within
  <2>10. Within(c)' /\ \A d \in Checks \ {c} : pc'[d] = pc[d]
    BY <2>1, <2>3 DEF Within, Goto, LocalTypes
  <2> QED BY <1>1, <1>2, <2>5, <2>9, <2>10, OneSteps
<1> QED BY <1>3, <1>4

(* What is recorded of the stage was made by what made it. *)
LEMMA ReuseStep == ASSUME StagesInv, NEW c \in Checks, Reuse(c) PROVE StagesInv'
<1> TreeTypes /\ LocalTypes /\ Own(c) /\ Recordings
  BY DEF StagesInv
<1> PICK r \in records : Matches(c, r) /\ sound' = [sound EXCEPT ![c] = @ /\ r.quiet]
  BY DEF Reuse
<1>1. /\ UNCHANGED <<src, out, ignored, listing, records, quiet, changes, turns>>
      /\ pc[c] = "look" /\ Proceed(c) /\ inside' = inside
  BY DEF Reuse, Proceed, treeVars, bounds
<1>2. TreeTypes' /\ Recordings'
  BY <1>1, SameRecords DEF TreeTypes
<1>3. /\ True(r) /\ r.quiet \in BOOLEAN
      /\ sound'[c] = (sound[c] /\ r.quiet)
  <2>1. True(r) /\ r \in Recorded
    BY DEF Recordings, True
  <2> QED BY <2>1 DEF Recorded, LocalTypes
<1>4. LocalTypes'
  <2>1. sound' \in [Checks -> BOOLEAN]
    BY <1>3 DEF LocalTypes
  <2> QED BY <1>1, <2>1 DEF LocalTypes, Proceed, Rest, Goto, Phases, Kinds
<1>5. /\ key[c].kind = kind[c]
      /\ quiet[c] => key[c].inputs.src = src[kind[c]]
      /\ key[c].definition = IF kind[c] = "preparation" THEN PreparationOf[c] ELSE "build"
      /\ kind[c] = "build" /\ quiet[c] =>
           key[c].dependency = [definition |-> PreparationOf[c], src |-> src["preparation"]]
  BY <1>1 DEF Own, Keyed, Depends, Stepping, Looking
<1>6. r.key = key[c] /\ out[kind[c]] = r.outputs
  BY DEF Matches
<1>7. CASE kind[c] = "preparation"
  <2>1. pc'[c] = "key" /\ kind'[c] = "build"
    BY <1>1, <1>7 DEF Proceed, Goto, LocalTypes
  <2>2. r.quiet /\ quiet[c] =>
          out["preparation"] = [definition |-> PreparationOf[c], src |-> src["preparation"]]
    <3>1. /\ r.key.kind = "preparation" /\ r.key.definition = PreparationOf[c]
          /\ quiet[c] => r.key.inputs.src = src["preparation"]
      BY <1>5, <1>6, <1>7
    <3>2. r.quiet => r.outputs = [definition |-> r.key.definition, src |-> r.key.inputs.src]
      BY <1>3, <3>1 DEF True
    <3>3. out["preparation"] = r.outputs
      BY <1>6, <1>7
    <3> QED BY <3>1, <3>2, <3>3
  <2>3. Own(c)'
    <3>1. Keyed(c)' /\ Depends(c)' /\ Took(c)' /\ Produced(c)'
      BY <2>1 DEF Keyed, Depends, Took, Produced, Stepping, Looking
    <3>2. quiet'[c] /\ sound'[c] =>
            out'["preparation"] = [definition |-> PreparationOf[c], src |-> src'["preparation"]]
      BY <1>1, <1>3, <2>2
    <3>3. Prepared(c)'
      BY <2>1, <3>2 DEF Prepared
    <3> QED BY <3>1, <3>3 DEF Own
  <2>4. Within(c) /\ Within(c)' /\ \A d \in Checks \ {c} : pc'[d] = pc[d]
    BY <1>1, <1>7, <2>1 DEF Within, Proceed, Goto, LocalTypes
  <2> QED BY <1>1, <1>2, <1>4, <2>3, <2>4, OneSteps
<1>8. CASE kind[c] = "build"
  <2>1. pc'[c] = "command" /\ kind'[c] = "build"
    BY <1>1, <1>8 DEF Proceed, Goto, LocalTypes
  <2>2. sound[c] /\ quiet[c] =>
          out["preparation"] = [definition |-> PreparationOf[c], src |-> src["preparation"]]
    BY <1>1, <1>8 DEF Own, Prepared, Within
  <2>3. r.quiet /\ quiet[c] =>
          out["build"] = [src |-> src["build"], generated |->
                            [definition |-> PreparationOf[c], src |-> src["preparation"]]]
    <3>1. /\ r.key.kind = "build"
          /\ quiet[c] => r.key.inputs.src = src["build"]
          /\ quiet[c] =>
               r.key.dependency = [definition |-> PreparationOf[c], src |-> src["preparation"]]
      BY <1>5, <1>6, <1>8
    <3>2. r.quiet => r.outputs = [src |-> r.key.inputs.src, generated |-> r.key.dependency]
      BY <1>3, <3>1 DEF True
    <3>3. out["build"] = r.outputs
      BY <1>6, <1>8
    <3> QED BY <3>1, <3>2, <3>3
  <2>4. Own(c)'
    <3>1. Keyed(c)' /\ Depends(c)' /\ Took(c)' /\ Produced(c)'
      BY <2>1 DEF Keyed, Depends, Took, Produced, Stepping, Looking
    <3>2. quiet'[c] /\ sound'[c] =>
            out'["preparation"] = [definition |-> PreparationOf[c], src |-> src'["preparation"]]
      BY <1>1, <1>3, <2>2
    <3>3. quiet'[c] /\ sound'[c] =>
            out'["build"] = [src |-> src'["build"], generated |-> out'["preparation"]]
      BY <1>1, <1>3, <2>2, <2>3
    <3>4. Prepared(c)'
      BY <2>1, <3>2, <3>3 DEF Prepared
    <3> QED BY <3>1, <3>4 DEF Own
  <2>5. Within(c) /\ Within(c)' /\ \A d \in Checks \ {c} : pc'[d] = pc[d]
    BY <1>1, <1>8, <2>1 DEF Within, Proceed, Goto, LocalTypes
  <2> QED BY <1>1, <1>2, <1>4, <2>4, <2>5, OneSteps
<1> QED BY <1>7, <1>8 DEF LocalTypes, Kinds

-----------------------------------------------------------------------------
(* The stage's command: it starts, reads, and passes or fails. *)
LEMMA RunStep == ASSUME StagesInv, NEW c \in Checks, Run(c) PROVE StagesInv'
<1> TreeTypes /\ LocalTypes /\ Own(c)
  BY DEF StagesInv
<1>1. /\ UNCHANGED <<src, ignored, listing, kind, key, took, made, inside, records, quiet, sound,
                     changes, turns>>
      /\ pc[c] = "look" /\ Goto(c, "run")
  BY DEF Run, locals, ghosts, bounds
<1>2. PICK o \in {out[kind[c]], Partial} : out' = [out EXCEPT ![kind[c]] = o]
  BY DEF Run
<1>3. TreeTypes' /\ Recordings'
  <2>1. out' \in Made
    BY <1>2 DEF TreeTypes, LocalTypes, Made
  <2>2. out'["preparation"] \in {out["preparation"], Partial}
        /\ out'["build"] \in {out["build"], Partial}
    BY <1>2 DEF TreeTypes, LocalTypes, Made, Kinds
  <2> QED BY <1>1, <2>1, <2>2, SameRecords DEF TreeTypes
<1>4. LocalTypes'
  BY <1>1 DEF LocalTypes, Goto, Phases
<1>5. pc'[c] = "run" /\ Within(c) /\ Within(c)' /\ \A d \in Checks \ {c} : pc'[d] = pc[d]
  BY <1>1 DEF Goto, LocalTypes, Within
<1>6. kind[c] = "build" => out'["preparation"] = out["preparation"]
  BY <1>2 DEF TreeTypes, Made, Kinds
<1>7. Own(c)'
  BY <1>1, <1>5, <1>6 DEF Own, Keyed, Depends, Took, Produced, Prepared, Stepping, Looking, Within
<1> QED BY <1>1, <1>3, <1>4, <1>5, <1>7, OneSteps

(* What the command reads is what the key named, or newer. *)
LEMMA ReadStep == ASSUME StagesInv, NEW c \in Checks, Read(c) PROVE StagesInv'
<1> TreeTypes /\ LocalTypes /\ Own(c)
  BY DEF StagesInv
<1>1. /\ UNCHANGED <<src, out, ignored, listing, kind, key, made, inside, records, quiet, sound,
                     changes, turns>>
      /\ pc[c] = "run" /\ Goto(c, "read") /\ took' = [took EXCEPT ![c] = Now]
  BY DEF Read, treeVars, ghosts, bounds
<1>2. TreeTypes' /\ Recordings'
  BY <1>1, SameRecords DEF TreeTypes
<1>3. LocalTypes'
  BY <1>1, NowTyped DEF LocalTypes, Goto, Phases
<1>4. /\ pc'[c] = "read" /\ Within(c) /\ Within(c)' /\ took'[c] = Now
      /\ \A d \in Checks \ {c} : pc'[d] = pc[d]
  BY <1>1 DEF Goto, LocalTypes, Within
<1>5. Now.generated = out["preparation"] /\ src[kind[c]] <= src[kind[c]]
  BY DEF Now, TreeTypes, LocalTypes
<1>6. key[c].inputs.src <= src[kind[c]]
  BY <1>1 DEF Own, Keyed, Depends, Stepping, Looking
<1>7. Took(c)'
  BY <1>1, <1>4, <1>5, <1>6, NowTyped DEF Took
<1>8. Own(c)'
  BY <1>1, <1>4, <1>7 DEF Own, Keyed, Depends, Produced, Prepared, Stepping, Looking, Within
<1> QED BY <1>1, <1>2, <1>3, <1>4, <1>8, OneSteps

(* A command that passes puts its outputs in place and drops the listing. *)
LEMMA FinishStep == ASSUME StagesInv, NEW c \in Checks, Finish(c) PROVE StagesInv'
<1> TreeTypes /\ LocalTypes /\ Own(c)
  BY DEF StagesInv
<1>1. /\ UNCHANGED <<src, ignored, kind, key, took, made, inside, records, quiet, sound,
                     changes, turns>>
      /\ pc[c] = "read" /\ Goto(c, "made") /\ Relist(c) /\ MayPass(kind[c], took[c])
      /\ out' = [out EXCEPT ![kind[c]] = Product(c, kind[c], took[c])]
  BY DEF Finish, locals, ghosts, bounds
<1>2. kind[c] \in Kinds /\ took[c] \in Reads
  BY <1>1 DEF LocalTypes, Own, Took
<1>3. Product(c, kind[c], took[c]) \in IF kind[c] = "preparation" THEN Generated ELSE Built
  BY <1>1, <1>2, ProductTyped
<1>4. /\ out'[kind[c]] = Product(c, kind[c], took[c])
      /\ kind[c] = "build" => out'["preparation"] = out["preparation"]
      /\ kind[c] = "preparation" => out'["build"] = out["build"]
  BY <1>1, <1>2 DEF TreeTypes, Made, Kinds
<1>5. TreeTypes' /\ Recordings'
  <2>1. out' \in Made
    BY <1>1, <1>2, <1>3 DEF TreeTypes, Made
  <2>2. listing' \in [Sessions -> [generated : BOOLEAN] \cup {Absent}]
    BY <1>1 DEF Relist, TreeTypes
  <2> QED BY <1>1, <1>2, <1>3, <1>4, <2>1, <2>2, SameRecords DEF TreeTypes, Kinds
<1>6. LocalTypes'
  BY <1>1 DEF LocalTypes, Goto, Phases
<1>7. pc'[c] = "made" /\ Within(c) /\ Within(c)' /\ \A d \in Checks \ {c} : pc'[d] = pc[d]
  BY <1>1 DEF Goto, LocalTypes, Within
<1>8. ~Listed(c)'
  BY <1>1 DEF Relist, Listed, TreeTypes
<1>9. Produced(c)'
  BY <1>1, <1>4, <1>7, <1>8 DEF Produced, MayPass, Product
<1>10. Keyed(c)' /\ Depends(c)'
  BY <1>1, <1>7 DEF Own, Keyed, Depends, Stepping, Looking
<1>11. Took(c)'
  BY <1>1, <1>4, <1>7 DEF Own, Took
<1>12. Prepared(c)'
  BY <1>1, <1>4, <1>7 DEF Own, Prepared
<1> QED BY <1>1, <1>5, <1>6, <1>7, <1>9, <1>10, <1>11, <1>12, OneSteps DEF Own

(* The end of a check, at its command or before. *)
LEMMA LeaveStep ==
  ASSUME StagesInv, NEW c \in Checks, Within(c), Leave(c), TreeTypes',
         UNCHANGED <<ignored, records, quiet, sound>>
  PROVE  StagesInv'
<1> TreeTypes /\ LocalTypes
  BY DEF StagesInv
<1>1. pc'[c] = "idle" /\ ~Within(c)' /\ \A d \in Checks \ {c} : pc'[d] = pc[d]
  BY DEF Leave, Goto, LocalTypes, Within
<1>2. LocalTypes'
  BY DEF Leave, Rest, Goto, LocalTypes, Phases
<1>3. inside' = inside \ {c} /\ Recordings'
  BY SameRecords DEF Leave
<1> QED BY <1>1, <1>2, <1>3, OutsideOwn, OneSteps

(* A stage fails, or the check's own command has run. *)
LEMMA FailStep ==
  ASSUME StagesInv, NEW c \in Checks, Fail(c) \/ Command(c) PROVE StagesInv'
<1>1. /\ Leave(c) /\ Within(c) /\ Rest(c) /\ UNCHANGED <<ignored, records, quiet, sound>>
      /\ UNCHANGED listing \/ Relist(c)
      /\ UNCHANGED <<src, out, changes, turns>>
  BY DEF Fail, Command, Leave, Within, treeVars, ghosts, bounds
<1>2. TreeTypes'
  BY <1>1 DEF StagesInv, TreeTypes, Relist
<1> QED BY <1>1, <1>2, LeaveStep

-----------------------------------------------------------------------------
(* The outputs are snapshotted, compared and recorded. *)
LEMMA OutputsStep == ASSUME StagesInv, NEW c \in Checks, TakeOutputs(c) PROVE StagesInv'
<1> TreeTypes /\ LocalTypes /\ Own(c)
  BY DEF StagesInv
<1>1. UNCHANGED <<src, out, ignored, listing, records, quiet, sound, changes, turns>>
      /\ pc[c] = "made" /\ Within(c)
  BY DEF TakeOutputs, treeVars, ghosts, bounds, Within
<1>2. TreeTypes' /\ Recordings'
  BY <1>1, SameRecords DEF TreeTypes
<1>3. CASE out[kind[c]] = Absent
  BY <1>1, <1>2, <1>3, LeaveStep DEF TakeOutputs
<1>4. CASE out[kind[c]] # Absent
  <2>1. /\ made' = [made EXCEPT ![c] = out[kind[c]]] /\ Goto(c, "after")
        /\ UNCHANGED <<kind, key, took, inside>>
    BY <1>4 DEF TakeOutputs
  <2>2. out[kind[c]] \in Generated \cup Built \cup {Partial}
    BY <1>4 DEF TreeTypes, LocalTypes, Made
  <2>3. LocalTypes'
    BY <1>1, <2>1, <2>2 DEF LocalTypes, Goto, Phases
  <2>4. /\ pc'[c] = "after" /\ Within(c)' /\ made'[c] = out[kind[c]]
        /\ \A d \in Checks \ {c} : pc'[d] = pc[d]
    BY <2>1 DEF Goto, LocalTypes, Within
  <2>5. Keyed(c)' /\ Depends(c)' /\ Took(c)'
    BY <1>1, <2>1, <2>4 DEF Own, Keyed, Depends, Took, Stepping, Looking
  <2>6. Produced(c)'
    BY <1>1, <2>1, <2>2, <2>4 DEF Own, Produced, MayPass, Product, Listed
  <2>7. Prepared(c)'
    BY <1>1, <2>1, <2>4 DEF Own, Prepared
  <2> QED BY <1>1, <1>2, <2>1, <2>3, <2>4, <2>5, <2>6, <2>7, OneSteps DEF Own
<1> QED BY <1>3, <1>4

(* What is recorded of inputs that are as they were is what was read. *)
LEMMA RecordTrue ==
  ASSUME StagesInv, NEW c \in Checks, pc[c] = "after", Listed(c), Unchanged(c)
  PROVE  True([key |-> key[c], outputs |-> made[c], read |-> took[c],
               quiet |-> quiet[c] /\ sound[c]])
<1> DEFINE r == [key |-> key[c], outputs |-> made[c], read |-> took[c],
                 quiet |-> quiet[c] /\ sound[c]]
<1> TreeTypes /\ LocalTypes /\ Own(c)
  BY DEF StagesInv
<1>1. /\ r.key = key[c] /\ r.outputs = made[c] /\ r.read = took[c]
      /\ r.quiet <=> quiet[c] /\ sound[c]
  OBVIOUS
<1>2. /\ key[c] \in Keys /\ key[c].kind = kind[c] /\ key[c].inputs.src \in Nat
      /\ key[c].definition = IF kind[c] = "preparation" THEN PreparationOf[c] ELSE "build"
      /\ took[c] \in Reads /\ took[c].src[kind[c]] \in Nat
      /\ key[c].inputs.src <= took[c].src[kind[c]] /\ took[c].src[kind[c]] <= src[kind[c]]
      /\ quiet[c] => took[c].src = src
  BY DEF Own, Keyed, Took, Stepping, Looking, Keys, Reads, LocalTypes
<1>3. made[c] \in Generated \cup Built \cup {Partial} /\ r.quiet \in BOOLEAN
  BY DEF Own, Produced, LocalTypes
<1>4. r \in Recorded
  BY <1>2, <1>3 DEF Recorded
<1>5. Inputs(c, kind[c]) = key[c].inputs /\ key[c].inputs.src = src[kind[c]]
  BY DEF Unchanged, Inputs
<1>6. took[c].src[kind[c]] = src[kind[c]]
  BY <1>2, <1>5 DEF TreeTypes, LocalTypes
<1>7. kind[c] = "build" /\ quiet[c] =>
        key[c].dependency = [definition |-> PreparationOf[c], src |-> src["preparation"]]
  BY DEF Own, Depends, Looking
<1>8. ASSUME kind[c] = "build", ~ignored, quiet[c]
      PROVE  key[c].inputs.generated = took[c].generated
  <2>1. listing[SessionOf[c]].generated = ~ignored /\ took[c].generated = out["preparation"]
    BY <1>8 DEF Own, Took, Produced
  <2>2. Inputs(c, kind[c]).generated = out["preparation"]
    BY <1>8, <2>1 DEF Inputs
  <2> QED BY <1>5, <2>1, <2>2
<1>9. ASSUME quiet[c], sound[c]
      PROVE  made[c] = IF kind[c] = "preparation"
                       THEN [definition |-> key[c].definition, src |-> key[c].inputs.src]
                       ELSE [src |-> key[c].inputs.src, generated |-> key[c].dependency]
  <2>1. made[c] = Product(c, kind[c], took[c])
    BY <1>9 DEF Own, Produced
  <2>2. CASE kind[c] = "preparation"
    BY <1>2, <1>5, <1>6, <2>1, <2>2 DEF Product
  <2>3. CASE kind[c] = "build"
    <3>1. took[c].generated = out["preparation"]
          /\ out["preparation"] = [definition |-> PreparationOf[c], src |-> src["preparation"]]
      BY <1>9, <2>3 DEF Own, Took, Prepared, Within
    <3> QED BY <1>5, <1>6, <1>7, <1>9, <2>1, <2>3, <3>1 DEF Product
  <2> QED BY <2>2, <2>3 DEF LocalTypes, Kinds
<1> HIDE DEF r
<1>10. True(r)
  BY <1>1, <1>2, <1>4, <1>5, <1>6, <1>7, <1>8, <1>9 DEF True
<1> QED BY <1>10 DEF r

(* What was made is recorded, or not, and the check goes on. *)
LEMMA AfterStep == ASSUME StagesInv, NEW c \in Checks, After(c) PROVE StagesInv'
<1> TreeTypes /\ LocalTypes /\ Own(c)
  BY DEF StagesInv
<1>1. /\ UNCHANGED <<src, out, ignored, listing, quiet, sound, changes, turns>>
      /\ pc[c] = "after" /\ Listed(c) /\ Proceed(c) /\ inside' = inside
  BY DEF After, Proceed, treeVars, ghosts, bounds
<1>2. TreeTypes'
  BY <1>1 DEF TreeTypes
<1>3. LocalTypes'
  BY <1>1 DEF LocalTypes, Proceed, Rest, Goto, Phases, Kinds
<1>4. Recordings'
  <2>1. CASE Unchanged(c) /\ records' = Record(c)
    <3> DEFINE new == [key |-> key[c], outputs |-> made[c], read |-> took[c],
                       quiet |-> quiet[c] /\ sound[c]]
    <3>1. True(new) /\ new.key = key[c]
      BY <1>1, <2>1, RecordTrue
    <3>2. records' = {r \in records : r.key # key[c]} \cup {new}
      BY <2>1 DEF Record
    <3> HIDE DEF new
    <3>3. \A r \in records' : True(r)
      BY <3>1, <3>2 DEF StagesInv, Recordings
    <3>4. \A r, s \in records' : r.key = s.key => r = s
      BY <3>1, <3>2 DEF StagesInv, Recordings
    <3> QED BY <1>1, <3>3, <3>4 DEF Recordings, True
  <2>2. CASE UNCHANGED records
    BY <1>1, <2>2, SameRecords
  <2> QED BY <2>1, <2>2 DEF After
<1>5. CASE kind[c] = "preparation"
  <2>1. pc'[c] = "key" /\ kind'[c] = "build"
    BY <1>1, <1>5 DEF Proceed, Goto, LocalTypes
  <2>2. quiet[c] =>
          out["preparation"] = [definition |-> PreparationOf[c], src |-> src["preparation"]]
    BY <1>1, <1>5 DEF Own, Took, Produced, Product
  <2>3. Own(c)'
    <3>1. Keyed(c)' /\ Depends(c)' /\ Took(c)' /\ Produced(c)'
      BY <2>1 DEF Keyed, Depends, Took, Produced, Stepping, Looking
    <3>2. Prepared(c)'
      BY <1>1, <2>1, <2>2 DEF Prepared
    <3> QED BY <3>1, <3>2 DEF Own
  <2>4. Within(c) /\ Within(c)' /\ \A d \in Checks \ {c} : pc'[d] = pc[d]
    BY <1>1, <1>5, <2>1 DEF Within, Proceed, Goto, LocalTypes
  <2> QED BY <1>1, <1>2, <1>3, <1>4, <2>3, <2>4, OneSteps
<1>6. CASE kind[c] = "build"
  <2>1. pc'[c] = "command" /\ kind'[c] = "build"
    BY <1>1, <1>6 DEF Proceed, Goto, LocalTypes
  <2>2. /\ quiet[c] => out["build"] = [src |-> src["build"], generated |-> out["preparation"]]
        /\ quiet[c] /\ sound[c] =>
             out["preparation"] = [definition |-> PreparationOf[c], src |-> src["preparation"]]
    BY <1>1, <1>6 DEF Own, Took, Produced, Prepared, Product, Within
  <2>3. Own(c)'
    <3>1. Keyed(c)' /\ Depends(c)' /\ Took(c)' /\ Produced(c)'
      BY <2>1 DEF Keyed, Depends, Took, Produced, Stepping, Looking
    <3>2. Prepared(c)'
      BY <1>1, <2>1, <2>2 DEF Prepared
    <3> QED BY <3>1, <3>2 DEF Own
  <2>4. Within(c) /\ Within(c)' /\ \A d \in Checks \ {c} : pc'[d] = pc[d]
    BY <1>1, <1>6, <2>1 DEF Within, Proceed, Goto, LocalTypes
  <2> QED BY <1>1, <1>2, <1>3, <1>4, <2>3, <2>4, OneSteps
<1> QED BY <1>5, <1>6 DEF LocalTypes, Kinds

-----------------------------------------------------------------------------
(* What happens around the check in the tree. *)
LEMMA BeginStep == ASSUME StagesInv, NEW c \in Checks, Begin(c) PROVE StagesInv'
<1> TreeTypes /\ LocalTypes
  BY DEF StagesInv
<1>1. /\ UNCHANGED <<src, out, ignored, listing, kind, key, took, made, inside, records, quiet,
                     sound, changes>>
      /\ pc[c] = "idle" /\ Goto(c, "waiting") /\ turns < MaxTurns /\ turns' = turns + 1
  BY DEF Begin, treeVars, locals, ghosts
<1>2. TreeTypes' /\ LocalTypes' /\ Recordings'
  <2>1. TreeTypes'
    BY <1>1 DEF TreeTypes
  <2>2. LocalTypes'
    BY <1>1 DEF LocalTypes, Goto, Phases
  <2> QED BY <1>1, <2>1, <2>2, SameRecords
<1>3. /\ ~Within(c) /\ ~Within(c)'
      /\ \A d \in Checks \ {c} : pc'[d] = pc[d]
  BY <1>1 DEF LocalTypes, Goto, Within
<1>4. Alone'
  BY <1>1, <1>3 DEF StagesInv, Alone, Within
<1>5. ASSUME NEW d \in Checks PROVE Own(d)'
  <2>1. CASE d = c
    BY <1>3, <2>1, OutsideOwn
  <2>2. CASE d # c
    BY <1>1, <1>3, <2>2 DEF StagesInv, Own, Keyed, Depends, Took, Produced, Prepared, Within,
                            Stepping, Looking, Listed
  <2> QED BY <2>1, <2>2
<1> QED BY <1>2, <1>4, <1>5 DEF StagesInv

(* A listing shows what a finished preparation generated, unless ignored. *)
LEMMA ListStep == ASSUME StagesInv, NEW c \in Checks, List(c) PROVE StagesInv'
<1> TreeTypes /\ LocalTypes
  BY DEF StagesInv
<1>1. /\ UNCHANGED <<src, out, ignored, pc, kind, key, took, made, inside, records, quiet, sound,
                     changes, turns>>
      /\ listing' = [listing EXCEPT ![SessionOf[c]] =
                       [generated |-> ~ignored /\ out["preparation"] # Absent]]
  BY DEF List, treeVars, locals, ghosts, bounds
<1>2. TreeTypes'
  BY <1>1 DEF TreeTypes
<1>3. LocalTypes' /\ Alone' /\ Recordings'
  BY <1>1, SameRecords DEF LocalTypes, StagesInv, Alone, Within
<1>4. ASSUME NEW d \in Checks PROVE Own(d)'
  <2>1. Own(d)
    BY DEF StagesInv
  <2>2. Keyed(d)' /\ Depends(d)' /\ Took(d)' /\ Prepared(d)'
    BY <1>1, <2>1 DEF Own, Keyed, Depends, Took, Prepared, Within
  <2>3. ASSUME pc[d] \in {"made", "after"}, quiet[d], kind[d] = "build", Listed(d)'
        PROVE  listing'[SessionOf[d]].generated = ~ignored
    <3>1. out["preparation"] \in Generated
      BY <2>1, <2>3 DEF Own, Took, Produced, MayPass
    <3>2. out["preparation"] # Absent /\ ignored \in BOOLEAN
      BY <3>1 DEF TreeTypes
    <3>3. CASE SessionOf[d] = SessionOf[c]
      BY <1>1, <3>2, <3>3 DEF TreeTypes
    <3>4. CASE SessionOf[d] # SessionOf[c]
      <4>1. listing'[SessionOf[d]] = listing[SessionOf[d]] /\ Listed(d)
        BY <1>1, <2>3, <3>4 DEF TreeTypes, Listed
      <4> QED BY <2>1, <2>3, <4>1 DEF Own, Produced
    <3> QED BY <3>3, <3>4
  <2>4. Produced(d)'
    BY <1>1, <2>1, <2>3 DEF Own, Produced
  <2> QED BY <2>2, <2>4 DEF Own
<1> QED BY <1>2, <1>3, <1>4 DEF StagesInv

(* A check enters an empty tree, with nothing seen yet. *)
LEMMA EnterStep == ASSUME StagesInv, NEW c \in Checks, Enter(c) PROVE StagesInv'
<1> TreeTypes /\ LocalTypes
  BY DEF StagesInv
<1>1. /\ UNCHANGED <<src, out, ignored, listing, key, took, made, records, changes, turns>>
      /\ inside = {} /\ inside' = inside \cup {c} /\ Goto(c, "key")
      /\ kind' = [kind EXCEPT ![c] = "preparation"]
      /\ quiet' = [quiet EXCEPT ![c] = TRUE] /\ sound' = [sound EXCEPT ![c] = TRUE]
  BY DEF Enter, treeVars, bounds
<1>2. TreeTypes' /\ Recordings'
  BY <1>1, SameRecords DEF TreeTypes
<1>3. LocalTypes'
  BY <1>1 DEF LocalTypes, Goto, Phases, Kinds
<1>4. /\ \A d \in Checks \ {c} : ~Within(d) /\ ~Within(d)'
      /\ pc'[c] = "key" /\ kind'[c] = "preparation" /\ Within(c)'
  BY <1>1 DEF StagesInv, Alone, LocalTypes, Goto, Within
<1>5. Alone'
  BY <1>1, <1>4 DEF Alone
<1>6. Own(c)'
  BY <1>4 DEF Own, Keyed, Depends, Took, Produced, Prepared, Stepping, Looking
<1>7. \A d \in Checks : Own(d)'
  BY <1>4, <1>6, OutsideOwn
<1> QED BY <1>2, <1>3, <1>5, <1>7 DEF StagesInv

(* An outsider makes what the check in the tree has seen no promise. *)
LEMMA DisturbStep ==
  ASSUME StagesInv, (\E ks \in SUBSET Kinds \ {{}} : Edit(ks)) \/ \E k \in Kinds : Clean(k)
  PROVE  StagesInv'
<1> TreeTypes /\ LocalTypes
  BY DEF StagesInv
<1>1. /\ UNCHANGED <<ignored, listing, pc, kind, key, took, made, inside, records, sound, turns>>
      /\ Disturb /\ changes < MaxChanges /\ changes' = changes + 1
      /\ \/ /\ UNCHANGED out
            /\ \E ks \in SUBSET Kinds \ {{}} :
                 src' = [k \in Kinds |-> IF k \in ks THEN src[k] + 1 ELSE src[k]]
         \/ UNCHANGED src /\ \E k \in Kinds : out' = [out EXCEPT ![k] = Absent]
  BY DEF Edit, Clean, Bounded, locals
<1>2. src' \in [Kinds -> Nat] /\ \A k \in Kinds : src[k] \in Nat /\ src[k] <= src'[k]
  BY <1>1 DEF TreeTypes
<1>3. TreeTypes'
  <2>1. out' \in Made
    BY <1>1 DEF TreeTypes, Made
  <2>2. /\ out'["preparation"] \in {out["preparation"], Absent}
        /\ out'["build"] \in {out["build"], Absent}
    BY <1>1 DEF TreeTypes, Made, Kinds
  <2> QED BY <1>1, <1>2, <2>1, <2>2 DEF TreeTypes
<1>4. LocalTypes'
  <2>1. quiet' \in [Checks -> BOOLEAN]
    BY <1>1 DEF Disturb, LocalTypes
  <2> QED BY <1>1, <2>1 DEF LocalTypes
<1>5. Alone' /\ Recordings'
  BY <1>1, SameRecords DEF StagesInv, Alone, Within
<1>6. ASSUME NEW c \in Checks PROVE Own(c)'
  <2>1. CASE Within(c)
    <3>1. ~quiet'[c] /\ Own(c)
      BY <1>1, <2>1 DEF Disturb, StagesInv, Alone
    <3>2. Keyed(c)'
      <4> SUFFICES ASSUME pc[c] \in Stepping PROVE key[c].inputs.src <= src'[kind[c]]
        BY <1>1, <3>1 DEF Own, Keyed
      <4>1. key[c] \in Keys /\ key[c].inputs.src <= src[kind[c]]
        BY <3>1 DEF Own, Keyed
      <4>2. key[c].inputs.src \in Nat
        BY <4>1 DEF Keys
      <4> QED BY <1>2, <4>1, <4>2 DEF LocalTypes
    <3>3. Depends(c)'
      BY <1>1, <3>1 DEF Own, Depends
    <3>4. Took(c)'
      <4> SUFFICES ASSUME pc[c] \in {"read", "made", "after"}
                   PROVE  took[c].src[kind[c]] <= src'[kind[c]]
        BY <1>1, <3>1 DEF Own, Took
      <4>1. took[c] \in Reads /\ took[c].src[kind[c]] <= src[kind[c]]
        BY <3>1 DEF Own, Took
      <4>2. took[c].src[kind[c]] \in Nat
        BY <4>1 DEF Reads, LocalTypes
      <4> QED BY <1>2, <4>1, <4>2 DEF LocalTypes
    <3>5. Produced(c)'
      BY <1>1, <3>1 DEF Own, Produced
    <3>6. Prepared(c)'
      BY <1>1, <3>1 DEF Own, Prepared
    <3> QED BY <3>2, <3>3, <3>4, <3>5, <3>6 DEF Own
  <2>2. CASE ~Within(c)
    BY <1>1, <2>2, OutsideOwn DEF Within
  <2> QED BY <2>1, <2>2
<1> QED BY <1>3, <1>4, <1>5, <1>6 DEF StagesInv

(* A process that dies takes its checks and its listing with it. *)
LEMMA RestartStep == ASSUME StagesInv, NEW s \in Sessions, Restart(s) PROVE StagesInv'
<1> TreeTypes /\ LocalTypes
  BY DEF StagesInv
<1> DEFINE mine == {c \in Checks : SessionOf[c] = s}
<1>1. /\ UNCHANGED <<src, out, ignored, kind, records, quiet, sound, turns>>
      /\ changes < MaxChanges /\ changes' = changes + 1
      /\ listing' = [listing EXCEPT ![s] = Absent]
      /\ pc' = [c \in Checks |-> IF c \in mine THEN "idle" ELSE pc[c]]
      /\ inside' = inside \ mine
      /\ key' = [c \in Checks |-> IF c \in mine THEN Absent ELSE key[c]]
      /\ took' = [c \in Checks |-> IF c \in mine THEN Absent ELSE took[c]]
      /\ made' = [c \in Checks |-> IF c \in mine THEN Absent ELSE made[c]]
  BY DEF Restart, Bounded, treeVars, ghosts
<1>2. TreeTypes'
  BY <1>1 DEF TreeTypes
<1>3. LocalTypes'
  BY <1>1 DEF LocalTypes, Phases
<1>4. Recordings'
  BY <1>1, SameRecords
<1>5. Alone'
  BY <1>1 DEF StagesInv, Alone, Within
<1>6. ASSUME NEW c \in Checks PROVE Own(c)'
  <2>1. CASE c \in mine
    BY <1>1, <2>1, OutsideOwn DEF Within
  <2>2. CASE c \notin mine
    <3>1. /\ pc'[c] = pc[c] /\ key'[c] = key[c] /\ took'[c] = took[c] /\ made'[c] = made[c]
          /\ listing'[SessionOf[c]] = listing[SessionOf[c]]
      BY <1>1, <2>2 DEF TreeTypes
    <3> QED
      BY <1>1, <3>1 DEF StagesInv, Own, Keyed, Depends, Took, Produced, Prepared, Within, Listed
  <2> QED BY <2>1, <2>2
<1> QED BY <1>2, <1>3, <1>4, <1>5, <1>6 DEF StagesInv

(* A stutter changes nothing. *)
LEMMA SameStep == ASSUME StagesInv, UNCHANGED vars PROVE StagesInv'
  BY DEF vars, treeVars, locals, ghosts, bounds, StagesInv, TreeTypes, LocalTypes, Alone, Within,
         Recordings, True, Own, Keyed, Depends, Took, Produced, Prepared, Listed

(* Initially nobody is in the tree and nothing is recorded. *)
LEMMA StagesInit == Init => StagesInv
<1> SUFFICES ASSUME Init PROVE StagesInv
  OBVIOUS
<1>1. TreeTypes
  BY DEF Init, TreeTypes, Made, Kinds
<1>2. LocalTypes
  BY DEF Init, LocalTypes, Phases, Kinds
<1>3. Alone /\ Recordings
  BY DEF Init, Alone, Recordings, Within
<1>4. \A c \in Checks : Own(c)
  BY DEF Init, Own, Keyed, Depends, Took, Produced, Prepared, Within, Stepping, Looking
<1> QED BY <1>1, <1>2, <1>3, <1>4 DEF StagesInv

(* Every step keeps the invariant. *)
LEMMA StagesStep == StagesInv /\ [Next]_vars => StagesInv'
<1> SUFFICES ASSUME StagesInv, [Next]_vars PROVE StagesInv'
  OBVIOUS
<1>1. ASSUME NEW c \in Checks,
             \/ Begin(c) \/ List(c) \/ Enter(c) \/ Command(c)
             \/ TakeKey(c) \/ TakeDependency(c) \/ Reuse(c)
             \/ Run(c) \/ Read(c) \/ Finish(c) \/ Fail(c)
             \/ TakeOutputs(c) \/ After(c)
      PROVE  StagesInv'
  BY <1>1, BeginStep, ListStep, EnterStep, FailStep, KeySteps, ReuseStep, RunStep, ReadStep,
     FinishStep, OutputsStep, AfterStep
<1>2. ASSUME NEW s \in Sessions, Restart(s) PROVE StagesInv'
  BY <1>2, RestartStep
<1> QED BY <1>1, <1>2, DisturbStep, SameStep DEF Next, Ended

(* The invariant holds throughout. *)
LEMMA StagesAlways == Spec => []StagesInv
  BY StagesInit, StagesStep, PTL DEF Spec

-----------------------------------------------------------------------------
(***************************************************************************)
(* What the variables of the stages range over, and that one check at most *)
(* is in the working tree.                                                 *)
(***************************************************************************)
THEOREM StagesTypeCorrect == Spec => []TypeOK
<1>1. StagesInv => TypeOK
  <2> SUFFICES ASSUME StagesInv PROVE TypeOK
    OBVIOUS
  <2>1. Cardinality(inside) <= 1
    <3>1. CASE inside = {}
      BY <3>1, FS_EmptySet
    <3>2. ASSUME NEW c \in inside PROVE Cardinality(inside) <= 1
      <4>1. inside = {c}
        BY <3>2 DEF StagesInv, Alone
      <4> QED BY <4>1, FS_Singleton
    <3> QED BY <3>1, <3>2
  <2>2. inside = {c \in Checks : pc[c] \notin {"idle", "waiting"}}
    BY DEF StagesInv, Alone, Within
  <2>3. records \subseteq Recorded /\ \A r, s \in records : r.key = s.key => r = s
    BY DEF StagesInv, Recordings, True
  <2> QED BY <2>1, <2>2, <2>3 DEF StagesInv, TreeTypes, LocalTypes, Phases, TypeOK
<1> QED BY <1>1, StagesAlways, PTL

(***************************************************************************)
(* stages.go:109-111, discovery.go:86-88: however the sources are edited   *)
(* and outputs removed, a stage is recorded under the inputs its command   *)
(* read.                                                                   *)
(***************************************************************************)
THEOREM RecordsNameTheirInputs == Spec => []RecordNamesItsInputs
<1>1. StagesInv => RecordNamesItsInputs
  BY DEF StagesInv, Recordings, True, RecordNamesItsInputs
<1> QED BY <1>1, StagesAlways, PTL

(***************************************************************************)
(* native.go:46: for any number of checks, preparations and processes, a   *)
(* check's command finds what its own preparation and build would make.    *)
(***************************************************************************)
THEOREM ChecksConsumeTheirOwn == Spec => []ConsumesItsOwn
<1>1. StagesInv => ConsumesItsOwn
  <2> SUFFICES ASSUME StagesInv, NEW c \in Checks, pc[c] = "command", quiet[c], sound[c]
               PROVE  /\ out["preparation"] = Product(c, "preparation", Now)
                      /\ out["build"] = Product(c, "build", Now)
    BY DEF ConsumesItsOwn
  <2> QED BY DEF StagesInv, Own, Prepared, Within, Product, Now
<1> QED BY <1>1, StagesAlways, PTL
===============================================================================
