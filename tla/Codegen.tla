------------------------------- MODULE Codegen -------------------------------
(***************************************************************************)
(* The jobs of apps/codegen: the versions and workers of Firmware, and one *)
(* compile of one worker, Compiler.  The two share no state: a behaviour   *)
(* is one of them at work while the other rests.                           *)
(***************************************************************************)
EXTENDS Firmware, Compiler

VARIABLE open  \* the part at work

codegenVars == <<vars, compilerVars, open>>

\* A part at rest needs only one of its initial states.
CodegenInit ==
  /\ open \in {"jobs", "compile"}
  /\ Init /\ CompilerInit
  /\ open = "jobs" => cMode = "idf"

CodegenNext ==
  /\ UNCHANGED open
  /\ \/ open = "jobs" /\ Next /\ UNCHANGED compilerVars
     \/ open = "compile" /\ CompilerNext /\ UNCHANGED vars

CodegenFairness ==
  /\ \A w \in Workers : WF_codegenVars(open = "jobs" /\ Work(w) /\ UNCHANGED <<compilerVars, open>>)
  /\ WF_codegenVars(open = "jobs" /\ Ageing /\ UNCHANGED <<compilerVars, open>>)
  /\ WF_codegenVars(open = "compile" /\ Worker /\ UNCHANGED <<vars, open>>)
  /\ WF_codegenVars(open = "compile" /\ (Children \/ Timers) /\ UNCHANGED <<vars, open>>)

CodegenSpec == CodegenInit /\ [][CodegenNext]_codegenVars /\ CodegenFairness

\* What a worker hands on is whole: a passed version can be downloaded, whatever its workers went
\* through, and a compile publishes only what it stored completely, leaving nothing running
\* (job.ts runClaimed, compiler.ts compileProfile).
PublishedWhole == PassedIsComplete /\ PublishesWhole /\ NothingRuns

\* Work ends: every requested version ends passed or failed, and every compile settles.
WorkEnds == (open = "jobs" => JobsFinish) /\ (open = "compile" => CompileSettles)
=============================================================================
