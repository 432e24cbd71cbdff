------------------------------ MODULE CheckKinds ------------------------------
(***************************************************************************)
(* One check of a run, dispatched by its kind to the state machine that    *)
(* executes it: Native.Execute and Dagger.Execute, or Dagger checks that   *)
(* share a session, or to one go-lint check that is run again after edits, *)
(* or to native checks that share a cache directory, or to steps of the    *)
(* Dagger module that share an engine.  The other machines stay idle.      *)
(***************************************************************************)
EXTENDS SemanticCheck, MutationCheck, DaggerExecutor, GoLint, NativeTools, EngineCaches

CheckVars == <<semanticVars, mutationVars, daggerVars, lintVars, toolVars, engineVars>>

(* What of the machines has nothing to do. *)
NoSource == phase = "idle" /\ stage = "idle"
NoTool == LintRest /\ BeginTools({}) /\ Summon({})

CheckInit ==
  /\ SemanticRest /\ MutationRest /\ DaggerRest /\ ToolRest /\ EngineRest
  /\ \/ phase = "start" /\ stage = "idle" /\ Execute({}) /\ NoTool
     \/ phase = "idle" /\ stage = "start" /\ Execute({}) /\ NoTool
     \/ NoSource /\ NoTool /\ \E run \in Together : Execute(run)
     \/ NoSource /\ Execute({}) /\ LintInit /\ BeginTools({}) /\ Summon({})
     \/ NoSource /\ Execute({}) /\ LintRest /\ Summon({})
          /\ \E run \in Beside : BeginTools(run)
     \/ NoSource /\ Execute({}) /\ LintRest /\ BeginTools({})
          /\ \E run \in Jointly : Summon(run)

(* Only the machine of the check's kind steps. *)
CheckNext ==
  \/ phase # "idle" /\ SemanticNext
       /\ UNCHANGED <<mutationVars, daggerVars, lintVars, toolVars, engineVars>>
  \/ stage # "idle" /\ MutationNext
       /\ UNCHANGED <<semanticVars, daggerVars, lintVars, toolVars, engineVars>>
  \/ ~Execute({}) /\ DaggerNext
       /\ UNCHANGED <<semanticVars, mutationVars, lintVars, toolVars, engineVars>>
  \/ lintStep # "idle" /\ LintNext
       /\ UNCHANGED <<semanticVars, mutationVars, daggerVars, toolVars, engineVars>>
  \/ ~BeginTools({}) /\ ToolNext
       /\ UNCHANGED <<semanticVars, mutationVars, daggerVars, lintVars, engineVars>>
  \/ ~Summon({}) /\ EngineNext
       /\ UNCHANGED <<semanticVars, mutationVars, daggerVars, lintVars, toolVars>>

CheckSpec ==
  /\ CheckInit /\ [][CheckNext]_CheckVars
  /\ SemanticFairness /\ MutationFairness /\ DaggerFairness /\ ToolFairness

CheckTypeOK ==
  /\ SemanticTypeOK /\ MutationTypeOK /\ DaggerTypeOK /\ LintTypeOK /\ ToolTypeOK
  /\ EngineTypeOK

(***************************************************************************)
(* Every check ends, though requests are retried, coverage runs make       *)
(* longer limits necessary, contexts need not end and Dagger need not      *)
(* answer, and checks share a session or publish the same tool.            *)
(***************************************************************************)
CheckEnds == <>[](SemanticOver /\ MutationOver /\ DaggerOver /\ ToolsOver)
===============================================================================
