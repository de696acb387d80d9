------------------------------ MODULE Compiler ------------------------------
(***************************************************************************)
(* One compile of one worker, between the claim and the publication of     *)
(* Firmware: compileProfile and command in apps/codegen compiler.ts, the   *)
(* uploads of job.ts and the artifact store they go to.                    *)
(*                                                                         *)
(* The worker runs child processes in groups of their own and waits for    *)
(* their pipes to close.  In Docker mode the child is only the client: the *)
(* container belongs to the daemon, which a kill of the client does not    *)
(* reach.  The lock's session may be lost at any moment (cSignal); the     *)
(* deadline may pass while a child runs.                                   *)
(***************************************************************************)
EXTENDS Naturals, FiniteSets

CONSTANT Objects \* what is put, in order: 1..Objects, 6 in the code

ASSUME CompilerAssumption == Objects \in Nat \ {0}

VARIABLES
  cMode,      \* "docker" | "idf"
  cPc,        \* where the worker is
  cSignal,    \* ownership.signal.aborted
  cChild,     \* the children of command(): running, killed, or closed with their outcome
  cContainer, \* the daemon's container of this compile
  cWorkspace, \* the directory: "none", "source", "built", "zipped", "gone", or "left" by a failing rm
  cError,     \* the try block threw
  cRemoved,   \* docker rm answered that the container is gone
  cStored,    \* objects whole under the lease's prefix
  cPut        \* the object being put; 0 when none

compilerVars == <<cMode, cPc, cSignal, cChild, cContainer, cWorkspace, cError, cRemoved, cStored, cPut>>

Commands == {"build", "bundle", "remove"}

\* workerConfiguration picks the mode; the claim was just checked.
CompilerInit ==
  /\ cMode \in {"docker", "idf"}
  /\ cPc = "begin" /\ cSignal = FALSE /\ cChild = [c \in Commands |-> "none"] /\ cContainer = "none" /\ cWorkspace = "none"
  /\ cError = FALSE /\ cRemoved = FALSE /\ cStored = {} /\ cPut = 0

Settled == cPc \in {"publish", "failed"}

\* The "error" or "end" event of the lock's session. command() kills the group of the child it
\* was given the signal for; the cleanup's child was not given it.
LoseLock ==
  /\ ~cSignal /\ ~Settled
  /\ cSignal' = TRUE
  /\ cChild' = [c \in Commands |-> IF c # "remove" /\ cChild[c] = "running" THEN "killed" ELSE cChild[c]]
  /\ UNCHANGED <<cMode, cPc, cContainer, cWorkspace, cError, cRemoved, cStored, cPut>>

\* The timer of command(): 600 s, 30 s and 15 s.
Deadline(c) ==
  /\ cChild[c] = "running"
  /\ cChild' = [cChild EXCEPT ![c] = "killed"]
  /\ UNCHANGED <<cMode, cPc, cSignal, cContainer, cWorkspace, cError, cRemoved, cStored, cPut>>

\* A throw inside the try block enters the finally block; before it, compileProfile rejects.
Throw == cError' = TRUE /\ cPc' = IF cWorkspace' = "none" THEN "failed" ELSE "cleanup"

\* command(): refused when the signal was aborted, otherwise the child runs in its own group.
Spawn(c, pc) ==
  \/ /\ c = "remove" \/ ~cSignal
     /\ cChild' = [cChild EXCEPT ![c] = "running"]
     /\ cPc' = pc
     /\ UNCHANGED cError
  \/ c # "remove" /\ cSignal /\ Throw /\ UNCHANGED cChild

(***************************************************************************)
(* compileProfile, up to the compiler.                                     *)
(***************************************************************************)

\* The directory, the template, the rendered source and the build's identity; any of the
\* writes may fail.
Prepare ==
  /\ cPc = "begin"
  /\ \/ /\ ~cSignal /\ cWorkspace' = "source"
        /\ (cPc' = "compile" /\ UNCHANGED cError) \/ Throw
     \/ cWorkspace' = cWorkspace /\ Throw
  /\ UNCHANGED <<cMode, cSignal, cChild, cContainer, cRemoved, cStored, cPut>>

StartBuild ==
  /\ cPc = "compile"
  /\ cWorkspace' = cWorkspace
  /\ Spawn("build", "building")
  /\ cContainer' = IF cMode = "docker" /\ cChild'["build"] = "running" THEN "requested" ELSE cContainer
  /\ UNCHANGED <<cMode, cSignal, cRemoved, cStored, cPut>>

(***************************************************************************)
(* The children and the Docker daemon.                                     *)
(***************************************************************************)

\* docker run sends create and, once answered, start; the daemon works through them.
DaemonCreates ==
  /\ cContainer = "requested"
  /\ cContainer' = "created"
  /\ UNCHANGED <<cMode, cPc, cSignal, cChild, cWorkspace, cError, cRemoved, cStored, cPut>>

ClientStarts ==
  /\ cContainer = "created" /\ cChild["build"] = "running"
  /\ cContainer' = "starting"
  /\ UNCHANGED <<cMode, cPc, cSignal, cChild, cWorkspace, cError, cRemoved, cStored, cPut>>

DaemonStarts ==
  /\ cContainer = "starting"
  /\ cContainer' = "running"
  /\ UNCHANGED <<cMode, cPc, cSignal, cChild, cWorkspace, cError, cRemoved, cStored, cPut>>

\* The container ends; --rm removes it. It copies its files to the directory last, when it
\* succeeded.
ContainerEnds ==
  /\ cContainer = "running"
  /\ cContainer' = "gone"
  /\ cWorkspace' \in {cWorkspace, IF cWorkspace = "source" THEN "built" ELSE cWorkspace}
  /\ UNCHANGED <<cMode, cPc, cSignal, cChild, cError, cRemoved, cStored, cPut>>

\* docker run ends with its container, or without one when the daemon refuses it.
ClientEnds ==
  /\ cMode = "docker" /\ cChild["build"] = "running"
  /\ \/ cContainer = "gone" /\ UNCHANGED cContainer
     \/ cContainer = "requested" /\ cContainer' = "none"
  /\ cChild' = [cChild EXCEPT !["build"] = IF cWorkspace = "built" THEN "done" ELSE "failed"]
  /\ UNCHANGED <<cMode, cPc, cSignal, cWorkspace, cError, cRemoved, cStored, cPut>>

\* idf.py and bundle.py do their work in the directory, or fail.
ToolEnds(c) ==
  /\ cChild[c] = "running"
  /\ c = "bundle" \/ (c = "build" /\ cMode = "idf")
  /\ \/ cWorkspace' = (IF c = "build" THEN "built" ELSE "zipped") /\ cChild' = [cChild EXCEPT ![c] = "done"]
     \/ cWorkspace' = cWorkspace /\ cChild' = [cChild EXCEPT ![c] = "failed"]
  /\ UNCHANGED <<cMode, cPc, cSignal, cContainer, cError, cRemoved, cStored, cPut>>

\* docker rm --force: the daemon removes a container it knows, running or not.
RemoveEnds ==
  /\ cChild["remove"] = "running"
  /\ \/ /\ cContainer' = IF cContainer \in {"created", "starting", "running"} THEN "gone" ELSE cContainer
        /\ cRemoved' = TRUE
        /\ cChild' = [cChild EXCEPT !["remove"] = "done"]
     \/ /\ cChild' = [cChild EXCEPT !["remove"] = "failed"]
        /\ UNCHANGED <<cContainer, cRemoved>>
  /\ UNCHANGED <<cMode, cPc, cSignal, cWorkspace, cError, cStored, cPut>>

\* A killed group is gone.
KilledCloses(c) ==
  /\ cChild[c] = "killed"
  /\ cChild' = [cChild EXCEPT ![c] = "failed"]
  /\ UNCHANGED <<cMode, cPc, cSignal, cContainer, cWorkspace, cError, cRemoved, cStored, cPut>>

(***************************************************************************)
(* compileProfile, after a child.                                          *)
(***************************************************************************)

\* Mutant: a killed child is not waited for.
Closed_Early(c) == cChild[c] \in {"killed", "done", "failed"}

\* "close": the process ended, by itself or killed, and its pipes are closed.
Closed(c) == cChild[c] \in {"done", "failed"}

\* The build resolved: the three files are read, which may fail, and the bundle is made of them.
Built ==
  /\ cPc = "building" /\ Closed("build")
  /\ cWorkspace' = cWorkspace
  /\ \/ cChild["build"] = "done" /\ ~cSignal /\ Spawn("bundle", "bundling")
     \/ Throw /\ UNCHANGED cChild
  /\ UNCHANGED <<cMode, cSignal, cContainer, cRemoved, cStored, cPut>>

\* The archive is read, unless the command or the read fails.
Bundled ==
  /\ cPc = "bundling" /\ Closed("bundle")
  /\ cWorkspace' = cWorkspace
  /\ \/ cChild["bundle"] = "done" /\ cPc' = "cleanup" /\ UNCHANGED cError
     \/ Throw
  /\ UNCHANGED <<cMode, cSignal, cChild, cContainer, cRemoved, cStored, cPut>>

\* finally: the container first, whatever the answer, then the directory.
CleanUp ==
  /\ cPc = "cleanup"
  /\ cWorkspace' = cWorkspace
  /\ IF cMode = "docker" THEN Spawn("remove", "removing") ELSE cPc' = "removed" /\ UNCHANGED <<cError, cChild>>
  /\ UNCHANGED <<cMode, cSignal, cContainer, cRemoved, cStored, cPut>>

RemovalOver ==
  /\ cPc = "removing" /\ Closed("remove")
  /\ cPc' = "removed"
  /\ UNCHANGED <<cMode, cSignal, cChild, cContainer, cWorkspace, cError, cRemoved, cStored, cPut>>

\* rm -r of the directory, which a container that still writes to it can defeat. The compile
\* settles; job.ts checks the signal and the manifest before it uploads.
RemoveWorkspace ==
  /\ cPc = "removed"
  /\ \/ cWorkspace' = "gone" /\ UNCHANGED cError
     \/ cWorkspace' = "left" /\ cError' = TRUE
  /\ cPc' = IF cError' \/ cSignal THEN "failed" ELSE "upload"
  /\ UNCHANGED <<cMode, cSignal, cChild, cContainer, cRemoved, cStored, cPut>>

(***************************************************************************)
(* The uploads.                                                            *)
(***************************************************************************)

\* In order, one at a time.
NextObject(k) == k = Cardinality(cStored) + 1

\* put(): the signal is checked before each; the key is new, so ifGenerationMatch=0 holds.
Put(k) ==
  /\ cPc = "upload" /\ cPut = 0 /\ ~cSignal /\ NextObject(k)
  /\ cPut' = k
  /\ UNCHANGED <<cMode, cPc, cSignal, cChild, cContainer, cWorkspace, cError, cRemoved, cStored>>

\* The answer: stored, refused, or timed out after or before the object landed.
PutEnds ==
  /\ cPut # 0 /\ cPc = "upload"
  /\ \/ cStored' = cStored \cup {cPut} /\ UNCHANGED <<cError, cPc>>
     \/ cStored' \in {cStored, cStored \cup {cPut}} /\ cError' = TRUE /\ cPc' = "failed"
  /\ cPut' = 0
  /\ UNCHANGED <<cMode, cSignal, cChild, cContainer, cWorkspace, cRemoved>>

\* After the last put, and wherever the signal is found aborted.
UploadEnds ==
  /\ cPc = "upload" /\ cPut = 0
  /\ cSignal \/ Cardinality(cStored) = Objects
  /\ cPc' = IF cSignal THEN "failed" ELSE "publish"
  /\ cError' = cSignal
  /\ UNCHANGED <<cMode, cSignal, cChild, cContainer, cWorkspace, cRemoved, cStored, cPut>>

Worker ==
  \/ Prepare \/ StartBuild \/ Built \/ Bundled \/ CleanUp \/ RemovalOver \/ RemoveWorkspace
  \/ \E k \in 1..Objects : Put(k)
  \/ PutEnds \/ UploadEnds

Children == ClientStarts \/ ClientEnds \/ RemoveEnds \/ \E c \in Commands : ToolEnds(c) \/ KilledCloses(c)
Timers == \E c \in Commands : Deadline(c)

CompilerNext == Worker \/ Children \/ Timers \/ LoseLock \/ DaemonCreates \/ DaemonStarts \/ ContainerEnds

(***************************************************************************)
(* Properties.                                                             *)
(***************************************************************************)

\* When a compile has settled and the daemon answered its docker rm, nothing of it runs any more
\* or will: no child, and no container, also when the client was killed while the daemon was
\* still creating or starting it. Only a directory whose removal failed can stay.
NothingRuns ==
  Settled => /\ \A c \in Commands : cChild[c] \notin {"running", "killed"}
             /\ cWorkspace \in {"none", "gone", "left"} /\ (cWorkspace = "left" => cPc = "failed")
             /\ cRemoved => cContainer \in {"none", "requested", "created", "gone"}

\* A worker goes on to publish only with every object stored from a compile that ran to its end,
\* the lock's session never having been seen lost.
PublishesWhole == cPc = "publish" => ~cError /\ cStored = 1..Objects /\ cWorkspace = "gone"

\* Every compile settles: each child has a deadline and is killed by it, and each put times out.
CompileSettles == <>Settled
=============================================================================
