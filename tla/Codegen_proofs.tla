--------------------------- MODULE Codegen_proofs ---------------------------
(***************************************************************************)
(* Proofs about the jobs of apps/codegen: a compile leaves nothing running *)
(* and publishes only what it stored whole, a published version can be     *)
(* downloaded and stays as it is, and the plans and versions of a build    *)
(* are consistent, for any number of builds, requests, workers and faults. *)
(***************************************************************************)
EXTENDS Codegen, FiniteSetTheorems, SequenceTheorems, TLAPS

(***************************************************************************)
(* One compile.                                                            *)
(***************************************************************************)
InDirectory == {"compile", "building", "bundling", "cleanup", "removing", "removed"}
Uploading == {"upload", "publish"}

CompilerTyped ==
  /\ cMode \in {"docker", "idf"} /\ cPc \in {"begin", "failed"} \cup InDirectory \cup Uploading
  /\ cSignal \in BOOLEAN /\ cChild \in [Commands -> {"none", "running", "killed", "done", "failed"}]
  /\ cContainer \in {"none", "requested", "created", "starting", "running", "gone"}
  /\ cWorkspace \in {"none", "source", "built", "zipped", "gone", "left"}
  /\ cError \in BOOLEAN /\ cRemoved \in BOOLEAN /\ cStored \subseteq 1..Objects /\ cPut \in 0..Objects

\* A child that has not closed is the one the worker waits for.
Awaited ==
  /\ cChild["build"] \in {"running", "killed"} => cPc = "building"
  /\ cChild["bundle"] \in {"running", "killed"} => cPc = "bundling"
  /\ cChild["remove"] \in {"running", "killed"} => cPc = "removing"

\* The directory is there from the first write to its removal.
DirectoryInv ==
  /\ cPc = "begin" => cWorkspace = "none"
  /\ cPc \in InDirectory => cWorkspace \in {"source", "built", "zipped"}
  /\ cPc \in Uploading => cWorkspace = "gone"
  /\ cPc = "failed" => cWorkspace \in {"none", "gone", "left"}

\* Once removed, a container runs only if the client starts it, and the client has closed.
ContainerInv ==
  cRemoved => /\ cContainer \in {"none", "requested", "created", "gone"}
              /\ cPc \in {"removing", "removed", "failed"} \cup Uploading

\* The objects stored are the first ones, and the one being put is the next.
StoredInv ==
  \E n \in 0..Objects :
    /\ cStored = 1..n
    /\ cPut # 0 => cPc = "upload" /\ cPut = n + 1
    /\ cPc \in Uploading => ~cError
    /\ cPc = "publish" => n = Objects

CompilerInv == CompilerTyped /\ Awaited /\ DirectoryInv /\ ContainerInv /\ StoredInv

LEMMA CompilerInitially ==
  ASSUME CompilerInit
  PROVE  CompilerInv
  <1>1. Objects \in Nat \ {0}
    BY CompilerAssumption
  <1>2. CompilerTyped
    <2>1. cChild \in [Commands -> {"none", "running", "killed", "done", "failed"}]
      BY DEF CompilerInit
    <2>2. cStored \subseteq 1..Objects /\ cPut \in 0..Objects
      BY <1>1 DEF CompilerInit
    <2> QED
      BY <2>1, <2>2 DEF CompilerInit, CompilerTyped
  <1>3. \A c \in Commands : cChild[c] = "none"
    BY DEF CompilerInit
  <1>4. Awaited
    BY <1>3 DEF Awaited, Commands
  <1>5. DirectoryInv /\ ContainerInv
    BY DEF CompilerInit, DirectoryInv, ContainerInv, InDirectory, Uploading
  <1>6. StoredInv
    <2>1. cStored = 1..0
      BY DEF CompilerInit
    <2> QED
      BY <1>1, <2>1 DEF CompilerInit, StoredInv, Uploading
  <1> QED
    BY <1>2, <1>4, <1>5, <1>6 DEF CompilerInv

\* A step of the worker, its children or the daemon before anything is put.
LEMMA BeforeUploads ==
  ASSUME CompilerInv, UNCHANGED <<cStored, cPut>>, cPut = 0,
         cPc' \in Uploading => ~cError', cPc' # "publish"
  PROVE  StoredInv'
  BY DEF CompilerInv, StoredInv

\* Nothing changes but children, container and directory.
LEMMA SamePlace ==
  ASSUME CompilerInv, UNCHANGED <<cPc, cError, cStored, cPut>>
  PROVE  StoredInv'
  BY DEF CompilerInv, StoredInv

LEMMA SignalStep ==
  ASSUME CompilerInv, LoseLock
  PROVE  CompilerInv'
  <1>1. UNCHANGED <<cMode, cPc, cContainer, cWorkspace, cError, cRemoved, cStored, cPut>> /\ cSignal' = TRUE
        /\ cChild' = [c \in Commands |-> IF c # "remove" /\ cChild[c] = "running" THEN "killed" ELSE cChild[c]]
    BY DEF LoseLock
  <1>2. CompilerTyped'
    BY <1>1 DEF CompilerInv, CompilerTyped
  <1>3. Awaited'
    BY <1>1 DEF CompilerInv, Awaited, Commands
  <1>4. DirectoryInv' /\ ContainerInv'
    BY <1>1 DEF CompilerInv, DirectoryInv, ContainerInv
  <1> QED
    BY <1>1, <1>2, <1>3, <1>4, SamePlace DEF CompilerInv

LEMMA TimerStep ==
  ASSUME CompilerInv, NEW c \in Commands, Deadline(c) \/ KilledCloses(c)
  PROVE  CompilerInv'
  <1>1. UNCHANGED <<cMode, cPc, cSignal, cContainer, cWorkspace, cError, cRemoved, cStored, cPut>>
    BY DEF Deadline, KilledCloses
  <1>2. \/ cChild' = [cChild EXCEPT ![c] = "killed"] /\ cChild[c] = "running"
        \/ cChild' = [cChild EXCEPT ![c] = "failed"]
    BY DEF Deadline, KilledCloses
  <1>3. CompilerTyped'
    BY <1>1, <1>2 DEF CompilerInv, CompilerTyped
  <1>4. Awaited'
    BY <1>1, <1>2 DEF CompilerInv, CompilerTyped, Awaited, Commands
  <1>5. DirectoryInv' /\ ContainerInv'
    BY <1>1 DEF CompilerInv, DirectoryInv, ContainerInv
  <1> QED
    BY <1>1, <1>3, <1>4, <1>5, SamePlace DEF CompilerInv

LEMMA DaemonStep ==
  ASSUME CompilerInv, DaemonCreates \/ ClientStarts \/ DaemonStarts \/ ContainerEnds
  PROVE  CompilerInv'
  <1>1. UNCHANGED <<cMode, cPc, cSignal, cChild, cError, cRemoved, cStored, cPut>>
    BY DEF DaemonCreates, ClientStarts, DaemonStarts, ContainerEnds
  <1>2. cWorkspace' = cWorkspace \/ (cWorkspace = "source" /\ cWorkspace' = "built")
    BY DEF DaemonCreates, ClientStarts, DaemonStarts, ContainerEnds
  <1>3. CompilerTyped'
    BY <1>1, <1>2 DEF CompilerInv, CompilerTyped, DaemonCreates, ClientStarts, DaemonStarts, ContainerEnds
  <1>4. Awaited'
    BY <1>1 DEF CompilerInv, Awaited
  <1>5. DirectoryInv'
    BY <1>1, <1>2 DEF CompilerInv, CompilerTyped, DirectoryInv, InDirectory, Uploading
  <1>6. ContainerInv'
    <2>1. CASE ClientStarts
      <3>1. cPc = "building"
        BY <2>1 DEF ClientStarts, CompilerInv, Awaited
      <3>2. ~cRemoved
        BY <3>1 DEF CompilerInv, ContainerInv, Uploading
      <3> QED
        BY <1>1, <3>2 DEF ContainerInv
    <2>2. CASE DaemonCreates \/ DaemonStarts \/ ContainerEnds
      BY <1>1, <2>2 DEF CompilerInv, ContainerInv, DaemonCreates, DaemonStarts, ContainerEnds
    <2> QED
      BY <2>1, <2>2
  <1> QED
    BY <1>1, <1>3, <1>4, <1>5, <1>6, SamePlace DEF CompilerInv

LEMMA ChildStep ==
  ASSUME CompilerInv, ClientEnds \/ RemoveEnds \/ \E c \in Commands : ToolEnds(c)
  PROVE  CompilerInv'
  <1>1. UNCHANGED <<cMode, cPc, cSignal, cError, cStored, cPut>>
    BY DEF ClientEnds, RemoveEnds, ToolEnds
  <1>2. CASE ClientEnds
    <2>1. PICK o \in {"done", "failed"} : cChild' = [cChild EXCEPT !["build"] = o]
      BY <1>2 DEF ClientEnds
    <2>2. UNCHANGED <<cWorkspace, cRemoved>> /\ cChild["build"] = "running"
          /\ (UNCHANGED cContainer \/ cContainer' = "none")
      BY <1>2 DEF ClientEnds
    <2>3. CompilerTyped'
      BY <1>1, <2>1, <2>2 DEF CompilerInv, CompilerTyped
    <2>4. Awaited'
      BY <1>1, <2>1 DEF CompilerInv, CompilerTyped, Awaited, Commands
    <2>5. DirectoryInv' /\ ContainerInv'
      BY <1>1, <2>2 DEF CompilerInv, DirectoryInv, ContainerInv
    <2> QED
      BY <1>1, <2>3, <2>4, <2>5, SamePlace DEF CompilerInv
  <1>3. CASE RemoveEnds
    <2>1. PICK o \in {"done", "failed"} : cChild' = [cChild EXCEPT !["remove"] = o]
      BY <1>3 DEF RemoveEnds
    <2>2. UNCHANGED cWorkspace /\ cChild["remove"] = "running"
      BY <1>3 DEF RemoveEnds
    <2>3. cPc = "removing"
      BY <2>2 DEF CompilerInv, Awaited
    <2>4. \/ UNCHANGED <<cContainer, cRemoved>>
          \/ /\ cContainer' = IF cContainer \in {"created", "starting", "running"} THEN "gone" ELSE cContainer
             /\ cRemoved' = TRUE
      BY <1>3 DEF RemoveEnds
    <2>5. CompilerTyped'
      <3>1. cContainer' \in {"none", "requested", "created", "starting", "running", "gone"} /\ cRemoved' \in BOOLEAN
        BY <2>4 DEF CompilerInv, CompilerTyped
      <3>2. cChild' \in [Commands -> {"none", "running", "killed", "done", "failed"}]
        BY <2>1 DEF CompilerInv, CompilerTyped
      <3> QED
        BY <1>1, <2>2, <3>1, <3>2 DEF CompilerInv, CompilerTyped
    <2>6. Awaited'
      BY <1>1, <2>1 DEF CompilerInv, CompilerTyped, Awaited, Commands
    <2>7. DirectoryInv'
      BY <1>1, <2>2 DEF CompilerInv, DirectoryInv
    <2>8. ContainerInv'
      BY <1>1, <2>3, <2>4 DEF CompilerInv, CompilerTyped, ContainerInv
    <2> QED
      BY <1>1, <2>5, <2>6, <2>7, <2>8, SamePlace DEF CompilerInv
  <1>4. ASSUME NEW c \in Commands, ToolEnds(c)
        PROVE  CompilerInv'
    <2>1. PICK o \in {"done", "failed"} : cChild' = [cChild EXCEPT ![c] = o]
      BY <1>4 DEF ToolEnds
    <2>2. UNCHANGED <<cContainer, cRemoved>> /\ cWorkspace' \in {cWorkspace, "built", "zipped"}
          /\ cChild[c] = "running" /\ c \in {"build", "bundle"}
      BY <1>4 DEF ToolEnds
    <2>3. cPc \in {"building", "bundling"}
      BY <2>2 DEF CompilerInv, Awaited
    <2>4. CompilerTyped'
      BY <1>1, <2>1, <2>2 DEF CompilerInv, CompilerTyped
    <2>5. Awaited'
      BY <1>1, <2>1 DEF CompilerInv, CompilerTyped, Awaited, Commands
    <2>6. DirectoryInv' /\ ContainerInv'
      BY <1>1, <2>2, <2>3 DEF CompilerInv, DirectoryInv, ContainerInv, InDirectory, Uploading
    <2> QED
      BY <1>1, <2>4, <2>5, <2>6, SamePlace DEF CompilerInv
  <1> QED
    BY <1>2, <1>3, <1>4

\* Where a throw leads: out, or to the cleanup if there is a directory.
LEMMA ThrowLeads ==
  ASSUME Throw
  PROVE  /\ cError' = TRUE
         /\ cWorkspace' = "none" => cPc' = "failed"
         /\ cWorkspace' # "none" => cPc' = "cleanup"
  BY DEF Throw

LEMMA PrepareStep ==
  ASSUME CompilerInv, Prepare
  PROVE  CompilerInv'
  <1>1. UNCHANGED <<cMode, cSignal, cChild, cContainer, cRemoved, cStored, cPut>> /\ cPc = "begin"
    BY DEF Prepare
  <1>2. cWorkspace = "none" /\ ~cRemoved /\ cPut = 0
    BY <1>1 DEF CompilerInv, DirectoryInv, ContainerInv, StoredInv, Uploading
  <1>3. \/ cWorkspace' = "source" /\ cPc' = "compile" /\ UNCHANGED cError
        \/ cWorkspace' = "source" /\ cPc' = "cleanup" /\ cError' = TRUE
        \/ cWorkspace' = "none" /\ cPc' = "failed" /\ cError' = TRUE
    BY <1>2, ThrowLeads DEF Prepare
  <1>4. CompilerTyped'
    BY <1>1, <1>3 DEF CompilerInv, CompilerTyped, InDirectory
  <1>5. Awaited'
    BY <1>1 DEF CompilerInv, Awaited
  <1>6. DirectoryInv' /\ ContainerInv'
    BY <1>1, <1>2, <1>3 DEF CompilerInv, DirectoryInv, ContainerInv, InDirectory, Uploading
  <1>7. StoredInv'
    BY <1>1, <1>2, <1>3, BeforeUploads DEF Uploading
  <1> QED
    BY <1>4, <1>5, <1>6, <1>7 DEF CompilerInv

\* The worker goes from one place in the directory to another, perhaps starting a child there.
LEMMA InsideStep ==
  ASSUME CompilerInv, cPc \in InDirectory, cPc' \in InDirectory, cError' \in BOOLEAN,
         UNCHANGED <<cMode, cSignal, cWorkspace, cRemoved, cStored, cPut>>,
         cContainer' = cContainer \/ (cContainer' = "requested" /\ ~cRemoved),
         cPc \in {"removing", "removed"} => cPc' \in {"removing", "removed"},
         NEW c \in Commands, NEW s, s = cChild[c] \/ s = "running", cChild' = [cChild EXCEPT ![c] = s],
         \A d \in Commands : cChild'[d] \in {"running", "killed"} =>
           \/ d = "build" /\ cPc' = "building"
           \/ d = "bundle" /\ cPc' = "bundling"
           \/ d = "remove" /\ cPc' = "removing"
  PROVE  CompilerInv'
  <1>1. cPut = 0
    BY DEF CompilerInv, StoredInv, InDirectory
  <1>2. CompilerTyped'
    <2>1. cChild' \in [Commands -> {"none", "running", "killed", "done", "failed"}]
      BY DEF CompilerInv, CompilerTyped
    <2>2. cContainer' \in {"none", "requested", "created", "starting", "running", "gone"}
      BY DEF CompilerInv, CompilerTyped
    <2> QED
      BY <2>1, <2>2 DEF CompilerInv, CompilerTyped
  <1>3. Awaited'
    BY DEF Awaited, Commands
  <1>4. DirectoryInv'
    BY DEF CompilerInv, DirectoryInv, InDirectory, Uploading
  <1>5. ContainerInv'
    BY DEF CompilerInv, ContainerInv, InDirectory, Uploading
  <1>6. StoredInv'
    BY <1>1, BeforeUploads DEF InDirectory, Uploading
  <1> QED
    BY <1>2, <1>3, <1>4, <1>5, <1>6 DEF CompilerInv

\* No child is left when the one the worker waited for has closed.
LEMMA NobodyElse ==
  ASSUME CompilerInv, cPc \in InDirectory, cPc = "building" => Closed("build"),
         cPc = "bundling" => Closed("bundle"), cPc = "removing" => Closed("remove")
  PROVE  \A d \in Commands : cChild[d] \notin {"running", "killed"}
  BY DEF CompilerInv, Awaited, Closed, Commands

LEMMA StartBuildStep ==
  ASSUME CompilerInv, StartBuild
  PROVE  CompilerInv'
  <1>1. cPc = "compile" /\ UNCHANGED <<cMode, cSignal, cWorkspace, cRemoved, cStored, cPut>>
    BY DEF StartBuild
  <1>2. cWorkspace # "none" /\ ~cRemoved /\ \A d \in Commands : cChild[d] \notin {"running", "killed"}
    BY <1>1, NobodyElse DEF CompilerInv, DirectoryInv, ContainerInv, InDirectory, Uploading
  <1>3. cContainer' = cContainer \/ cContainer' = "requested"
    BY DEF StartBuild
  <1>4. \/ cChild' = [cChild EXCEPT !["build"] = "running"] /\ cPc' = "building" /\ UNCHANGED cError
        \/ cChild' = cChild /\ cPc' = "cleanup" /\ cError' = TRUE
    BY <1>1, <1>2, ThrowLeads DEF StartBuild, Spawn
  <1>5. cError' \in BOOLEAN /\ cChild \in [Commands -> {"none", "running", "killed", "done", "failed"}]
    BY <1>4 DEF CompilerInv, CompilerTyped
  <1>6. PICK s : (s = cChild["build"] \/ s = "running") /\ cChild' = [cChild EXCEPT !["build"] = s]
                 /\ (s = "running" => cPc' = "building") /\ cPc' \in {"building", "cleanup"}
    BY <1>2, <1>4, <1>5 DEF Commands
  <1>7. \A d \in Commands : cChild'[d] \in {"running", "killed"} => d = "build" /\ cPc' = "building"
    BY <1>2, <1>5, <1>6
  <1> QED
    BY <1>1, <1>2, <1>3, <1>5, <1>6, <1>7, InsideStep DEF InDirectory, Commands

LEMMA BuiltStep ==
  ASSUME CompilerInv, Built
  PROVE  CompilerInv'
  <1>1. cPc = "building" /\ Closed("build") /\ UNCHANGED <<cMode, cSignal, cWorkspace, cContainer, cRemoved, cStored, cPut>>
    BY DEF Built
  <1>2. cWorkspace # "none" /\ \A d \in Commands : cChild[d] \notin {"running", "killed"}
    BY <1>1, NobodyElse DEF CompilerInv, DirectoryInv, InDirectory
  <1>3. \/ cChild' = [cChild EXCEPT !["bundle"] = "running"] /\ cPc' = "bundling" /\ UNCHANGED cError
        \/ cChild' = cChild /\ cPc' = "cleanup" /\ cError' = TRUE
    BY <1>1, <1>2, ThrowLeads DEF Built, Spawn
  <1>4. cError' \in BOOLEAN /\ cChild \in [Commands -> {"none", "running", "killed", "done", "failed"}]
    BY <1>3 DEF CompilerInv, CompilerTyped
  <1>5. PICK s : (s = cChild["bundle"] \/ s = "running") /\ cChild' = [cChild EXCEPT !["bundle"] = s]
                 /\ (s = "running" => cPc' = "bundling") /\ cPc' \in {"bundling", "cleanup"}
    BY <1>2, <1>3, <1>4 DEF Commands
  <1>6. \A d \in Commands : cChild'[d] \in {"running", "killed"} => d = "bundle" /\ cPc' = "bundling"
    BY <1>2, <1>4, <1>5
  <1> QED
    BY <1>1, <1>4, <1>5, <1>6, InsideStep DEF InDirectory, Commands

LEMMA BundledStep ==
  ASSUME CompilerInv, Bundled
  PROVE  CompilerInv'
  <1>1. cPc = "bundling" /\ Closed("bundle")
        /\ UNCHANGED <<cMode, cSignal, cChild, cWorkspace, cContainer, cRemoved, cStored, cPut>>
    BY DEF Bundled
  <1>2. cWorkspace # "none" /\ \A d \in Commands : cChild[d] \notin {"running", "killed"}
    BY <1>1, NobodyElse DEF CompilerInv, DirectoryInv, InDirectory
  <1>3. cPc' = "cleanup" /\ (UNCHANGED cError \/ cError' = TRUE)
    BY <1>1, <1>2, ThrowLeads DEF Bundled
  <1>4. cError' \in BOOLEAN /\ cChild' = [cChild EXCEPT !["bundle"] = cChild["bundle"]]
    BY <1>1, <1>3 DEF CompilerInv, CompilerTyped
  <1> QED
    BY <1>1, <1>2, <1>3, <1>4, InsideStep DEF InDirectory, Commands

LEMMA CleanUpStep ==
  ASSUME CompilerInv, CleanUp \/ RemovalOver
  PROVE  CompilerInv'
  <1>1. cPc \in {"cleanup", "removing"} /\ (cPc = "removing" => Closed("remove"))
        /\ UNCHANGED <<cMode, cSignal, cWorkspace, cContainer, cRemoved, cStored, cPut>>
    BY DEF CleanUp, RemovalOver
  <1>2. \A d \in Commands : cChild[d] \notin {"running", "killed"}
    BY <1>1, NobodyElse DEF InDirectory
  <1>3. \/ cChild' = [cChild EXCEPT !["remove"] = "running"] /\ cPc' = "removing" /\ UNCHANGED cError
        \/ cChild' = cChild /\ cPc' = "removed" /\ UNCHANGED cError
    BY <1>1 DEF CleanUp, RemovalOver, Spawn
  <1>4. cError' \in BOOLEAN /\ cChild \in [Commands -> {"none", "running", "killed", "done", "failed"}]
    BY <1>3 DEF CompilerInv, CompilerTyped
  <1>5. PICK s : (s = cChild["remove"] \/ s = "running") /\ cChild' = [cChild EXCEPT !["remove"] = s]
                 /\ (s = "running" => cPc' = "removing") /\ cPc' \in {"removing", "removed"}
    BY <1>2, <1>3, <1>4 DEF Commands
  <1>6. \A d \in Commands : cChild'[d] \in {"running", "killed"} => d = "remove" /\ cPc' = "removing"
    BY <1>2, <1>4, <1>5
  <1> QED
    BY <1>1, <1>4, <1>5, <1>6, InsideStep DEF InDirectory, Commands

LEMMA RemoveWorkspaceStep ==
  ASSUME CompilerInv, RemoveWorkspace
  PROVE  CompilerInv'
  <1>1. cPc = "removed" /\ UNCHANGED <<cMode, cSignal, cChild, cContainer, cRemoved, cStored, cPut>>
    BY DEF RemoveWorkspace
  <1>2. cPut = 0 /\ cPc' \in {"failed", "upload"} /\ (cPc' = "upload" => ~cError' /\ cWorkspace' = "gone")
        /\ cWorkspace' \in {"gone", "left"} /\ cError' \in BOOLEAN
    BY <1>1 DEF RemoveWorkspace, CompilerInv, CompilerTyped, StoredInv
  <1>3. CompilerTyped'
    BY <1>1, <1>2 DEF CompilerInv, CompilerTyped, Uploading
  <1>4. Awaited'
    BY <1>1 DEF CompilerInv, Awaited
  <1>5. DirectoryInv' /\ ContainerInv'
    BY <1>1, <1>2 DEF CompilerInv, DirectoryInv, ContainerInv, InDirectory, Uploading
  <1>6. StoredInv'
    BY <1>1, <1>2, BeforeUploads DEF Uploading
  <1> QED
    BY <1>3, <1>4, <1>5, <1>6 DEF CompilerInv

\* The first objects, counted.
LEMMA FirstObjects ==
  ASSUME NEW n \in Nat
  PROVE  Cardinality(1..n) = n
  <1>1. Cardinality(1..n) = IF 1 > n THEN 0 ELSE n - 1 + 1
    BY FS_Interval
  <1> QED
    BY <1>1

LEMMA UploadingStep ==
  ASSUME CompilerInv, cPc = "upload", cPc' \in {"upload", "publish", "failed"}, cError' \in BOOLEAN,
         UNCHANGED <<cMode, cSignal, cChild, cContainer, cWorkspace, cRemoved>>,
         cStored' \subseteq 1..Objects, cPut' \in 0..Objects, StoredInv'
  PROVE  CompilerInv'
  <1>1. CompilerTyped'
    BY DEF CompilerInv, CompilerTyped, Uploading
  <1>2. Awaited' /\ DirectoryInv' /\ ContainerInv'
    BY DEF CompilerInv, Awaited, DirectoryInv, ContainerInv, InDirectory, Uploading
  <1> QED
    BY <1>1, <1>2 DEF CompilerInv

LEMMA PutStep ==
  ASSUME CompilerInv, NEW k \in 1..Objects, Put(k)
  PROVE  CompilerInv'
  <1>1. cPc = "upload" /\ cPut' = k /\ k = Cardinality(cStored) + 1
        /\ UNCHANGED <<cMode, cPc, cSignal, cChild, cContainer, cWorkspace, cError, cRemoved, cStored>>
    BY DEF Put, NextObject
  <1>2. Objects \in Nat \ {0}
    BY CompilerAssumption
  <1>3. PICK n \in 0..Objects : cStored = 1..n /\ (cPc \in Uploading => ~cError) /\ (cPc = "publish" => n = Objects)
    BY DEF CompilerInv, StoredInv
  <1>4. k = n + 1
    BY <1>1, <1>2, <1>3, FirstObjects
  <1>5. StoredInv'
    BY <1>1, <1>3, <1>4 DEF StoredInv
  <1>6. cPut' \in 0..Objects /\ cStored' \subseteq 1..Objects /\ cError' \in BOOLEAN
    BY <1>1, <1>2 DEF CompilerInv, CompilerTyped
  <1> QED
    BY <1>1, <1>5, <1>6, UploadingStep

LEMMA PutEndsStep ==
  ASSUME CompilerInv, PutEnds
  PROVE  CompilerInv'
  <1>1. cPc = "upload" /\ cPut # 0 /\ cPut' = 0
        /\ UNCHANGED <<cMode, cSignal, cChild, cContainer, cWorkspace, cRemoved>>
    BY DEF PutEnds
  <1>2. Objects \in Nat \ {0}
    BY CompilerAssumption
  <1>3. PICK n \in 0..Objects : cStored = 1..n /\ cPut = n + 1 /\ ~cError
    BY <1>1 DEF CompilerInv, StoredInv, Uploading
  <1>4. cPut \in 0..Objects
    BY DEF CompilerInv, CompilerTyped
  <1>5. n + 1 \in 0..Objects /\ cStored \cup {cPut} = 1..(n + 1)
    BY <1>2, <1>3, <1>4
  <1>6. \/ cStored' = cStored \cup {cPut} /\ UNCHANGED <<cError, cPc>>
        \/ cStored' \in {cStored, cStored \cup {cPut}} /\ cError' = TRUE /\ cPc' = "failed"
    BY DEF PutEnds
  <1>7. StoredInv'
    <2>1. CASE cStored' = cStored \cup {cPut} /\ UNCHANGED <<cError, cPc>>
      BY <1>1, <1>3, <1>5, <2>1 DEF StoredInv
    <2>2. CASE cStored' \in {cStored, cStored \cup {cPut}} /\ cError' = TRUE /\ cPc' = "failed"
      <3>1. \E m \in 0..Objects : cStored' = 1..m
        BY <1>3, <1>5, <2>2
      <3> QED
        BY <1>1, <2>2, <3>1 DEF StoredInv, Uploading
    <2> QED
      BY <1>6, <2>1, <2>2
  <1>8. cStored' \subseteq 1..Objects /\ cPut' \in 0..Objects /\ cError' \in BOOLEAN /\ cPc' \in {"upload", "failed"}
    <2>1. cError \in BOOLEAN /\ cStored \subseteq 1..Objects
      BY DEF CompilerInv, CompilerTyped
    <2>2. cStored \cup {cPut} \subseteq 1..Objects
      BY <1>2, <1>5
    <2>3. cStored' \subseteq 1..Objects /\ cPc' \in {"upload", "failed"}
      BY <1>1, <1>6, <2>1, <2>2
    <2>4. cError' = cError \/ cError' = TRUE
      BY <1>6
    <2>5. cError' \in BOOLEAN
      BY <2>1, <2>4
    <2>6. cPut' \in 0..Objects
      BY <1>1, <1>2
    <2> QED
      BY <2>3, <2>5, <2>6
  <1> QED
    BY <1>1, <1>7, <1>8, UploadingStep

LEMMA UploadEndsStep ==
  ASSUME CompilerInv, UploadEnds
  PROVE  CompilerInv'
  <1>1. cPc = "upload" /\ cPut = 0 /\ (cSignal \/ Cardinality(cStored) = Objects)
        /\ cPc' = (IF cSignal THEN "failed" ELSE "publish") /\ cError' = cSignal
        /\ UNCHANGED <<cMode, cSignal, cChild, cContainer, cWorkspace, cRemoved, cStored, cPut>>
    BY DEF UploadEnds
  <1>2. Objects \in Nat \ {0} /\ cSignal \in BOOLEAN /\ cStored \subseteq 1..Objects
    BY CompilerAssumption DEF CompilerInv, CompilerTyped
  <1>3. PICK n \in 0..Objects : cStored = 1..n
    BY DEF CompilerInv, StoredInv
  <1>4. ~cSignal => n = Objects
    BY <1>1, <1>2, <1>3, FirstObjects
  <1>5. StoredInv'
    BY <1>1, <1>2, <1>3, <1>4 DEF StoredInv, Uploading
  <1>6. cPut' \in 0..Objects
    BY <1>1, <1>2
  <1> QED
    BY <1>1, <1>2, <1>5, <1>6, UploadingStep

LEMMA CompilerStep ==
  ASSUME CompilerInv, CompilerNext \/ UNCHANGED compilerVars
  PROVE  CompilerInv'
  <1>1. CASE UNCHANGED compilerVars
    BY <1>1 DEF compilerVars, CompilerInv, CompilerTyped, Awaited, DirectoryInv, ContainerInv, StoredInv
  <1>2. CASE CompilerNext
    BY <1>2, SignalStep, TimerStep, DaemonStep, ChildStep, PrepareStep, StartBuildStep, BuiltStep, BundledStep, CleanUpStep,
       RemoveWorkspaceStep, PutStep, PutEndsStep, UploadEndsStep DEF CompilerNext, Worker, Children, Timers
  <1> QED
    BY <1>1, <1>2

LEMMA CompilerSound ==
  ASSUME CompilerInv
  PROVE  PublishesWhole /\ NothingRuns
  <1>1. PublishesWhole
    BY DEF CompilerInv, StoredInv, DirectoryInv, PublishesWhole, Uploading
  <1>2. NothingRuns
    <2> SUFFICES ASSUME Settled PROVE /\ \A c \in Commands : cChild[c] \notin {"running", "killed"}
                                      /\ cWorkspace \in {"none", "gone", "left"} /\ (cWorkspace = "left" => cPc = "failed")
                                      /\ cRemoved => cContainer \in {"none", "requested", "created", "gone"}
      BY DEF NothingRuns
    <2>1. cPc \in {"publish", "failed"}
      BY DEF Settled
    <2>2. \A c \in Commands : cChild[c] \notin {"running", "killed"}
      BY <2>1 DEF CompilerInv, Awaited, Commands
    <2>3. cWorkspace \in {"none", "gone", "left"} /\ (cWorkspace = "left" => cPc = "failed")
      BY <2>1 DEF CompilerInv, DirectoryInv, Uploading
    <2> QED
      BY <2>2, <2>3 DEF CompilerInv, ContainerInv
  <1> QED
    BY <1>1, <1>2

(***************************************************************************)
(* Plans, versions and workers.                                            *)
(***************************************************************************)
PlanRow(C) == [spec : Nat, evidence : Nat, choice : C, accepted : BOOLEAN]
CodeRow ==
  [plan : Nat, request : Requests, base : Nat, status : {"pending", "running", "passed", "failed"}, attempts : Nat,
   lease : Nat, stale : BOOLEAN, born : Nat, ref : Nat]
Unwritten == {"claimed", "compile", "upload"}
Serving == Unwritten \cup {"publish", "failing"}
WorkRow ==
  [pc : {"idle", "locked", "swept", "release"} \cup Serving, conn : {"up", "dropped", "noticed"},
   build : Builds \cup {NoWorker}, version : Nat, lease : Nat, ok : BOOLEAN]
Artifact == [lease : Nat, build : Builds, version : Nat, plan : Nat, whole : BOOLEAN]

PlansTyped ==
  /\ spec \in [Builds -> Nat] /\ evidence \in Nat /\ plans = [b \in Builds |-> plans[b]]
  /\ \A b \in Builds : \E C : plans[b] \in Seq(PlanRow(C))
PlansInv == PlansTyped /\ OneDecisionPerSpec

\* An edit starts from an earlier version that was published, of the same plan.
BasesPublished ==
  \A b \in Builds : \A v \in DOMAIN code[b] :
    LET base == code[b][v].base IN
    base # 0 => /\ base \in DOMAIN code[b] /\ base < v
                /\ code[b][base].status = "passed" /\ code[b][base].plan = code[b][v].plan

CodeTyped == code \in [Builds -> Seq(CodeRow)] /\ created \in Nat
CodeInv == CodeTyped /\ AttemptsBounded /\ OneActiveVersion /\ RequestsIdempotent /\ BasesPublished

Under(lease) == {a \in artifacts : a.lease = lease}

\* What a worker has put under its lease, by where it is.
WorkerInv(w) ==
  /\ work[w].lease <= claims
  /\ work[w].pc \in Serving => /\ work[w].build \in Builds /\ work[w].version \in DOMAIN code[work[w].build]
                               /\ work[w].lease # 0
  /\ work[w].pc \in Unwritten => Under(work[w].lease) = {}
  /\ work[w].pc = "publish" => Under(work[w].lease) = {Written(w, TRUE)}

LeasesApart == \A w, x \in Workers : w # x /\ work[w].lease # 0 => work[w].lease # work[x].lease

\* A published version has the files of one lease, and nobody writes under it any more.
PassedInv(b, v) ==
  code[b][v].status = "passed" =>
    /\ code[b][v].ref \in 1..claims /\ Under(code[b][v].ref) = {Recorded(b, v)}
    /\ \A w \in Workers : work[w].lease = code[b][v].ref => work[w].pc \in {"failing", "release"}

JobTyped == claims \in Nat /\ work \in [Workers -> WorkRow] /\ artifacts \subseteq Artifact
JobInv ==
  /\ JobTyped /\ LeasesApart /\ \A a \in artifacts : a.lease <= claims
  /\ \A w \in Workers : WorkerInv(w)
  /\ \A b \in Builds : \A v \in DOMAIN code[b] : PassedInv(b, v)

FirmwareInv == PlansInv /\ CodeInv /\ JobInv

LEMMA RestingTyped == Resting \in WorkRow /\ Resting.lease = 0 /\ Resting.pc = "idle"
  BY DEF Resting, WorkRow

LEMMA FirmwareInitially ==
  ASSUME Init
  PROVE  FirmwareInv
  <1>1. code = [b \in Builds |-> <<>>] /\ plans = [b \in Builds |-> <<>>] /\ spec = [b \in Builds |-> 1] /\ evidence = 1
        /\ created = 0 /\ work = [w \in Workers |-> Resting] /\ claims = 0 /\ artifacts = {}
    BY DEF Init
  <1>2. \A b \in Builds : DOMAIN code[b] = {} /\ DOMAIN plans[b] = {}
    BY <1>1
  <1>3. PlansInv
    <2>1. \A b \in Builds : plans[b] \in Seq(PlanRow({}))
      BY <1>1, EmptySeq
    <2> QED
      BY <1>1, <1>2, <2>1 DEF PlansInv, PlansTyped, OneDecisionPerSpec
  <1>4. CodeInv
    <2>1. \A b \in Builds : code[b] \in Seq(CodeRow)
      BY <1>1, EmptySeq
    <2>2. CodeTyped
      BY <1>1, <2>1 DEF CodeTyped
    <2> QED
      BY <1>2, <2>2 DEF CodeInv, AttemptsBounded, OneActiveVersion, RequestsIdempotent, BasesPublished
  <1>5. JobInv
    <2>1. JobTyped
      BY <1>1, RestingTyped DEF JobTyped
    <2>2. \A w \in Workers : work[w].lease = 0 /\ work[w].pc = "idle"
      BY <1>1, RestingTyped
    <2>3. ASSUME NEW w \in Workers PROVE WorkerInv(w)
      <3>1. work[w].pc \notin Serving /\ work[w].pc \notin Unwritten /\ work[w].pc # "publish"
        BY <2>2 DEF Serving, Unwritten
      <3>2. work[w].lease <= claims
        BY <1>1, <2>2
      <3> QED
        BY <3>1, <3>2 DEF WorkerInv
    <2> QED
      BY <1>1, <1>2, <2>1, <2>2, <2>3 DEF JobInv, LeasesApart
  <1> QED
    BY <1>3, <1>4, <1>5 DEF FirmwareInv

(***************************************************************************)
(* Rows.                                                                   *)
(***************************************************************************)
LEMMA CodeAt ==
  ASSUME CodeTyped, NEW b \in Builds
  PROVE  /\ code[b] \in Seq(CodeRow) /\ DOMAIN code[b] = 1..Len(code[b]) /\ Len(code[b]) \in Nat
         /\ \A v \in DOMAIN code[b] : code[b][v] \in CodeRow /\ v \in Nat \ {0}
  <1>1. code[b] \in Seq(CodeRow)
    BY DEF CodeTyped
  <1>2. DOMAIN code[b] = 1..Len(code[b]) /\ Len(code[b]) \in Nat
    BY <1>1, LenProperties
  <1>3. \A v \in DOMAIN code[b] : code[b][v] \in CodeRow
    BY <1>1, <1>2, ElementOfSeq
  <1> QED
    BY <1>1, <1>2, <1>3

LEMMA RowSet ==
  ASSUME CodeTyped, NEW b \in Builds, NEW v \in DOMAIN code[b], NEW r \in CodeRow, code' = [code EXCEPT ![b][v] = r]
  PROVE  /\ code' \in [Builds -> Seq(CodeRow)]
         /\ \A c \in Builds : /\ DOMAIN code'[c] = DOMAIN code[c]
                              /\ \A x \in DOMAIN code[c] : code'[c][x] = IF c = b /\ x = v THEN r ELSE code[c][x]
  <1>1. code \in [Builds -> Seq(CodeRow)] /\ code[b] \in Seq(CodeRow) /\ v \in 1..Len(code[b])
    BY CodeAt DEF CodeTyped
  <1>2. PICK s : s = [code[b] EXCEPT ![v] = r]
    OBVIOUS
  <1>3. s \in Seq(CodeRow)
    BY <1>1, <1>2, ExceptSeq
  <1>4. DOMAIN s = DOMAIN code[b] /\ \A x \in DOMAIN code[b] : s[x] = IF x = v THEN r ELSE code[b][x]
    BY <1>2
  <1>5. code' = [code EXCEPT ![b] = s]
    BY <1>2
  <1> QED
    BY <1>1, <1>3, <1>4, <1>5

\* What a step may do to a row.
RowMoves(r, s) ==
  /\ s.plan = r.plan /\ s.request = r.request /\ s.base = r.base
  /\ r.status = "passed" => s = r
  /\ s.attempts = r.attempts \/ s.attempts <= MaxAttempts
  /\ r.status = "running" /\ s.status = "failed" =>
       Exhausted(r) \/ \E w \in Workers : work[w].pc = "failing" /\ work[w].lease = r.lease

LEMMA CodeMoves ==
  ASSUME CodeInv, code' \in [Builds -> Seq(CodeRow)], created' \in Nat, OneActiveVersion',
         \A b \in Builds : /\ DOMAIN code'[b] = DOMAIN code[b]
                           /\ \A v \in DOMAIN code[b] : RowMoves(code[b][v], code'[b][v])
  PROVE  CodeInv' /\ OthersUntouched
  <1>1. CodeTyped'
    BY DEF CodeTyped
  <1>2. AttemptsBounded'
    BY DEF CodeInv, AttemptsBounded, RowMoves
  <1>3. RequestsIdempotent'
    BY DEF CodeInv, RequestsIdempotent, RowMoves
  <1>4. BasesPublished'
    <2> SUFFICES ASSUME NEW b \in Builds, NEW v \in DOMAIN code[b], code'[b][v].base # 0
                 PROVE  LET base == code'[b][v].base IN
                        /\ base \in DOMAIN code'[b] /\ base < v
                        /\ code'[b][base].status = "passed" /\ code'[b][base].plan = code'[b][v].plan
      BY DEF BasesPublished
    <2>1. code'[b][v].base = code[b][v].base /\ code'[b][v].plan = code[b][v].plan
      BY DEF RowMoves
    <2>2. PICK base : base = code[b][v].base
      OBVIOUS
    <2>3. base \in DOMAIN code[b] /\ base < v /\ code[b][base].status = "passed" /\ code[b][base].plan = code[b][v].plan
      BY <2>1, <2>2 DEF CodeInv, BasesPublished
    <2>4. code'[b][base] = code[b][base]
      BY <2>3 DEF RowMoves
    <2> QED
      BY <2>1, <2>2, <2>3, <2>4
  <1>5. OthersUntouched
    BY DEF OthersUntouched, RowMoves
  <1> QED
    BY <1>1, <1>2, <1>3, <1>4, <1>5 DEF CodeInv

\* Nothing becomes active that was not.
LEMMA ActiveMoves ==
  ASSUME CodeInv,
         \A b \in Builds : /\ DOMAIN code'[b] = DOMAIN code[b]
                           /\ \A v \in DOMAIN code[b] : code'[b][v].status \in Active => code[b][v].status \in Active
  PROVE  OneActiveVersion'
  BY DEF CodeInv, OneActiveVersion

LEMMA CodeRests ==
  ASSUME CodeInv, UNCHANGED <<code, created>>
  PROVE  CodeInv' /\ OthersUntouched
  <1>1. CodeInv'
    BY DEF CodeInv, CodeTyped, AttemptsBounded, OneActiveVersion, RequestsIdempotent, BasesPublished
  <1>2. OthersUntouched
    <2>1. \A b \in Builds : \A v \in DOMAIN code[b] : code'[b][v] = code[b][v]
      OBVIOUS
    <2> QED
      BY <2>1 DEF OthersUntouched
  <1> QED
    BY <1>1, <1>2

LEMMA PlansRest ==
  ASSUME PlansInv, UNCHANGED designs
  PROVE  PlansInv'
  <1>1. UNCHANGED <<spec, evidence, plans>>
    BY DEF designs
  <1>2. PlansTyped'
    BY <1>1 DEF PlansInv, PlansTyped
  <1>3. OneDecisionPerSpec'
    BY <1>1 DEF PlansInv, OneDecisionPerSpec
  <1> QED
    BY <1>2, <1>3 DEF PlansInv

(***************************************************************************)
(* Workers.                                                                *)
(***************************************************************************)

\* What a step may do to a worker that gets no new lease and writes nothing.
WorkMoves(o, r) ==
  /\ r.lease = o.lease \/ (r.lease = 0 /\ r.pc \notin Serving)
  /\ r.pc \in Serving => o.pc \in Serving /\ r.lease = o.lease /\ r.build = o.build /\ r.version = o.version
  /\ r.pc \in Unwritten => o.pc \in Unwritten
  /\ r.pc = "publish" => o.pc = "publish"
  /\ o.pc \in {"failing", "release"} => r.pc \in {"failing", "release"} \/ r.lease = 0

LEMMA JobMoves ==
  ASSUME JobInv, CodeTyped, UNCHANGED <<claims, artifacts>>, work' \in [Workers -> WorkRow],
         \A w \in Workers : WorkMoves(work[w], work'[w]),
         \A b \in Builds : /\ DOMAIN code[b] \subseteq DOMAIN code'[b]
                           /\ \A v \in DOMAIN code[b] : code'[b][v].plan = code[b][v].plan
                           /\ \A v \in DOMAIN code'[b] : \/ code'[b][v].status # "passed"
                                                         \/ v \in DOMAIN code[b] /\ code'[b][v] = code[b][v]
                                                         \/ PassedInv(b, v)'
  PROVE  JobInv'
  <1>1. JobTyped'
    BY DEF JobInv, JobTyped
  <1>2. \A w \in Workers : work[w].lease \in Nat /\ work'[w].lease \in Nat /\ work[w].pc \in {"idle", "locked", "swept", "release"} \cup Serving
    BY <1>1 DEF JobInv, JobTyped, WorkRow
  <1>3. LeasesApart'
    BY <1>2 DEF JobInv, LeasesApart, WorkMoves
  <1>4. \A l : Under(l)' = Under(l)
    BY DEF Under
  <1>5. ASSUME NEW w \in Workers PROVE WorkerInv(w)'
    <2>1. WorkMoves(work[w], work'[w]) /\ WorkerInv(w) /\ claims \in Nat
      BY DEF JobInv, JobTyped
    <2>2. work'[w].lease <= claims
      BY <1>2, <2>1 DEF WorkMoves, WorkerInv
    <2>3. ASSUME work'[w].pc \in Serving
          PROVE  /\ work'[w].build = work[w].build /\ work'[w].version = work[w].version /\ work'[w].lease = work[w].lease
                 /\ work[w].build \in Builds /\ work[w].version \in DOMAIN code[work[w].build] /\ work[w].lease # 0
      BY <2>1, <2>3 DEF WorkMoves, WorkerInv
    <2>4. work'[w].pc \in Unwritten => Under(work'[w].lease) = {}
      BY <2>1, <2>3 DEF WorkMoves, WorkerInv, Serving
    <2>5. ASSUME work'[w].pc = "publish" PROVE Under(work'[w].lease) = {Written(w, TRUE)'}
      <3>1. work[w].pc = "publish" /\ work'[w].pc \in Serving
        BY <2>1, <2>5 DEF WorkMoves, Serving
      <3>2. Under(work[w].lease) = {Written(w, TRUE)}
        BY <2>1, <3>1 DEF WorkerInv
      <3>3. PICK b \in Builds : b = work[w].build /\ work[w].version \in DOMAIN code[b]
        BY <2>3, <3>1
      <3>4. PICK v \in DOMAIN code[b] : v = work[w].version
        BY <3>3
      <3>5. code'[b][v].plan = code[b][v].plan
        OBVIOUS
      <3>6. Written(w, TRUE)' = Written(w, TRUE)
        BY <2>3, <3>1, <3>3, <3>4, <3>5 DEF Written
      <3> QED
        BY <1>4, <2>3, <3>1, <3>2, <3>6
    <2> QED
      BY <1>4, <2>2, <2>3, <2>4, <2>5 DEF WorkerInv
  <1>6. ASSUME NEW b \in Builds, NEW v \in DOMAIN code'[b], v \in DOMAIN code[b], code'[b][v] = code[b][v]
        PROVE  PassedInv(b, v)'
    <2> SUFFICES ASSUME code[b][v].status = "passed" PROVE PassedInv(b, v)'
      BY <1>6 DEF PassedInv
    <2>1. /\ code[b][v].ref \in 1..claims /\ Under(code[b][v].ref) = {Recorded(b, v)}
          /\ \A w \in Workers : work[w].lease = code[b][v].ref => work[w].pc \in {"failing", "release"}
      BY <1>6 DEF JobInv, PassedInv
    <2>2. Recorded(b, v)' = Recorded(b, v)
      BY <1>6 DEF Recorded
    <2>3. \A w \in Workers : work'[w].lease = code[b][v].ref => work'[w].pc \in {"failing", "release"}
      BY <1>2, <2>1 DEF WorkMoves, JobInv, JobTyped
    <2> QED
      BY <1>4, <1>6, <2>1, <2>2, <2>3 DEF PassedInv
  <1>7. \A b \in Builds : \A v \in DOMAIN code'[b] : PassedInv(b, v)'
    BY <1>6 DEF PassedInv
  <1>8. \A a \in artifacts' : a.lease <= claims'
    BY DEF JobInv
  <1> QED
    BY <1>1, <1>3, <1>5, <1>7, <1>8 DEF JobInv

LEMMA OneWorker ==
  ASSUME JobTyped, NEW w \in Workers, NEW r \in WorkRow, WorkMoves(work[w], r), work' = [work EXCEPT ![w] = r]
  PROVE  work' \in [Workers -> WorkRow] /\ \A x \in Workers : WorkMoves(work[x], work'[x])
  <1>1. \A o : WorkMoves(o, o)
    BY DEF WorkMoves
  <1>2. \A x \in Workers : work'[x] = IF x = w THEN r ELSE work[x]
    BY DEF JobTyped
  <1>3. \A x \in Workers : WorkMoves(work[x], work'[x])
    BY <1>1, <1>2
  <1> QED
    BY <1>3 DEF JobTyped

Places == {"idle", "locked", "swept", "release"} \cup Serving

LEMMA Advance ==
  ASSUME JobTyped, NEW w \in Workers, NEW pc \in Places, Step(w, pc),
         pc \in Serving => work[w].pc \in Serving, pc \in Unwritten => work[w].pc \in Unwritten, pc # "publish",
         work[w].pc \in {"failing", "release"} => pc = "release"
  PROVE  work' \in [Workers -> WorkRow] /\ \A x \in Workers : WorkMoves(work[x], work'[x])
  <1>1. work[w] \in WorkRow
    BY DEF JobTyped
  <1>2. PICK r : r = [work[w] EXCEPT !.pc = pc]
    OBVIOUS
  <1>3. r \in WorkRow
    BY <1>1, <1>2 DEF WorkRow, Places
  <1>4. r.pc = pc /\ r.lease = work[w].lease /\ r.build = work[w].build /\ r.version = work[w].version
    BY <1>1, <1>2 DEF WorkRow
  <1>5. WorkMoves(work[w], r)
    BY <1>4 DEF WorkMoves
  <1>6. work' = [work EXCEPT ![w] = r]
    BY <1>2 DEF Step
  <1> QED
    BY <1>3, <1>5, <1>6, OneWorker

\* A worker moves on, and the rows, leases and artifacts stay.
LEMMA LocalStep ==
  ASSUME FirmwareInv, UNCHANGED <<designs, code, created, claims, artifacts>>, work' \in [Workers -> WorkRow],
         \A w \in Workers : WorkMoves(work[w], work'[w])
  PROVE  FirmwareInv' /\ OthersUntouched
  <1>1. PlansInv' /\ CodeInv' /\ OthersUntouched
    BY PlansRest, CodeRests DEF FirmwareInv
  <1>2. JobInv /\ CodeTyped
    BY DEF FirmwareInv, CodeInv
  <1>3. \A b \in Builds : /\ DOMAIN code[b] \subseteq DOMAIN code'[b]
                          /\ \A v \in DOMAIN code[b] : code'[b][v].plan = code[b][v].plan
                          /\ \A v \in DOMAIN code'[b] : v \in DOMAIN code[b] /\ code'[b][v] = code[b][v]
    OBVIOUS
  <1>4. JobInv'
    BY <1>2, <1>3, JobMoves
  <1> QED
    BY <1>1, <1>4 DEF FirmwareInv

LEMMA PlaceTyped ==
  ASSUME JobTyped, NEW w \in Workers
  PROVE  work[w] \in WorkRow /\ work[w].pc \in Places
  BY DEF JobTyped, WorkRow, Places

LEMMA PlainSteps ==
  ASSUME FirmwareInv, NEW w \in Workers, Lock(w) \/ NoJob(w) \/ Check(w) \/ Compile(w) \/ Aborted(w)
  PROVE  FirmwareInv' /\ OthersUntouched
  <1>1. UNCHANGED <<designs, code, created, claims, artifacts>>
    BY DEF Lock, NoJob, Check, Compile, Aborted
  <1>2. PICK pc \in Places :
          /\ Step(w, pc) /\ work[w].pc \notin {"failing", "release", "publish"} /\ pc # "publish"
          /\ pc \in Serving => work[w].pc \in Serving
          /\ pc \in Unwritten => work[w].pc \in Unwritten
    <2>1. CASE Lock(w)
      BY <2>1 DEF Lock, Places, Serving, Unwritten
    <2>2. CASE NoJob(w)
      BY <2>2 DEF NoJob, Places, Serving, Unwritten
    <2>3. CASE Check(w)
      BY <2>3 DEF Check, Places, Serving, Unwritten
    <2>4. CASE Compile(w)
      BY <2>4 DEF Compile, Places, Serving, Unwritten
    <2>5. CASE Aborted(w)
      BY <2>5 DEF Aborted, Places, Serving, Unwritten
    <2> QED
      BY <2>1, <2>2, <2>3, <2>4, <2>5
  <1>3. work' \in [Workers -> WorkRow] /\ \A x \in Workers : WorkMoves(work[x], work'[x])
    BY <1>2, Advance DEF FirmwareInv, JobInv
  <1> QED
    BY <1>1, <1>3, LocalStep

\* The session ends, or the worker notices that it has.
LEMMA SessionSteps ==
  ASSUME FirmwareInv, NEW w \in Workers, PublishFails(w) \/ Drop(w) \/ Notice(w)
  PROVE  FirmwareInv' /\ OthersUntouched
  <1>1. UNCHANGED <<designs, code, created, claims, artifacts>>
    BY DEF PublishFails, Drop, Notice
  <1>2. work[w] \in WorkRow /\ work[w].pc \in Places /\ JobTyped
    BY PlaceTyped DEF FirmwareInv, JobInv
  <1>3. PICK r \in WorkRow : work' = [work EXCEPT ![w] = r] /\ WorkMoves(work[w], r)
    <2>1. CASE PublishFails(w)
      <3>1. PICK r : r = [work[w] EXCEPT !.pc = "failing", !.conn = "noticed"]
        OBVIOUS
      <3>2. r \in WorkRow /\ r.lease = work[w].lease /\ r.build = work[w].build /\ r.version = work[w].version /\ r.pc = "failing"
        BY <1>2, <3>1 DEF WorkRow, Serving
      <3>3. WorkMoves(work[w], r)
        BY <2>1, <3>2 DEF WorkMoves, PublishFails, Serving, Unwritten
      <3> QED
        BY <2>1, <3>1, <3>2, <3>3 DEF PublishFails
    <2>2. CASE Drop(w) \/ Notice(w)
      <3>1. PICK c \in {"dropped", "noticed"} : work' = [work EXCEPT ![w] = [work[w] EXCEPT !.conn = c]]
        BY <2>2 DEF Drop, Notice
      <3>2. PICK r : r = [work[w] EXCEPT !.conn = c]
        OBVIOUS
      <3>3. r \in WorkRow /\ r.lease = work[w].lease /\ r.build = work[w].build /\ r.version = work[w].version /\ r.pc = work[w].pc
        BY <1>2, <3>2 DEF WorkRow
      <3>4. WorkMoves(work[w], r)
        BY <3>3 DEF WorkMoves
      <3> QED
        BY <3>1, <3>2, <3>3, <3>4
    <2> QED
      BY <2>1, <2>2
  <1>4. work' \in [Workers -> WorkRow] /\ \A x \in Workers : WorkMoves(work[x], work'[x])
    BY <1>2, <1>3, OneWorker
  <1> QED
    BY <1>1, <1>4, LocalStep

LEMMA EndSteps ==
  ASSUME FirmwareInv, NEW w \in Workers, Release(w) \/ Crash(w)
  PROVE  FirmwareInv' /\ OthersUntouched
  <1>1. UNCHANGED <<designs, code, created, claims, artifacts>> /\ work' = [work EXCEPT ![w] = Resting]
    BY DEF Release, Crash
  <1>2. Resting \in WorkRow /\ WorkMoves(work[w], Resting)
    BY RestingTyped DEF WorkMoves, Serving, Unwritten
  <1>3. work' \in [Workers -> WorkRow] /\ \A x \in Workers : WorkMoves(work[x], work'[x])
    BY <1>1, <1>2, OneWorker DEF FirmwareInv, JobInv
  <1> QED
    BY <1>1, <1>3, LocalStep

(***************************************************************************)
(* Versions.                                                               *)
(***************************************************************************)
\* Rows change and a worker moves on; leases and artifacts stay.
LEMMA RowsStep ==
  ASSUME FirmwareInv, UNCHANGED <<designs, created, claims, artifacts>>, code' \in [Builds -> Seq(CodeRow)], OneActiveVersion',
         \A b \in Builds : /\ DOMAIN code'[b] = DOMAIN code[b]
                           /\ \A v \in DOMAIN code[b] : /\ RowMoves(code[b][v], code'[b][v])
                                                        /\ \/ code'[b][v].status # "passed"
                                                           \/ code'[b][v] = code[b][v]
                                                           \/ PassedInv(b, v)',
         work' \in [Workers -> WorkRow], \A w \in Workers : WorkMoves(work[w], work'[w])
  PROVE  FirmwareInv' /\ OthersUntouched
  <1>1. PlansInv'
    BY PlansRest DEF FirmwareInv
  <1>2. CodeInv /\ JobInv /\ CodeTyped /\ created' \in Nat
    BY DEF FirmwareInv, CodeInv, CodeTyped
  <1>3. CodeInv' /\ OthersUntouched
    BY <1>2, CodeMoves
  <1>4. \A b \in Builds : \A v \in DOMAIN code[b] : code'[b][v].plan = code[b][v].plan
    BY DEF RowMoves
  <1>5. JobInv'
    BY <1>2, <1>4, JobMoves
  <1> QED
    BY <1>1, <1>3, <1>5 DEF FirmwareInv

LEMMA WorkRests ==
  ASSUME JobTyped, UNCHANGED work
  PROVE  work' \in [Workers -> WorkRow] /\ \A x \in Workers : WorkMoves(work[x], work'[x])
  BY DEF JobTyped, WorkMoves

LEMMA RowRests ==
  ASSUME NEW r
  PROVE  RowMoves(r, r)
  BY DEF RowMoves

\* One row changes, to a state that is not published.
LEMMA OneRowStep ==
  ASSUME FirmwareInv, UNCHANGED <<designs, created, claims, artifacts>>,
         NEW b \in Builds, NEW v \in DOMAIN code[b], NEW r \in CodeRow, code' = [code EXCEPT ![b][v] = r],
         RowMoves(code[b][v], r), r.status # "passed" \/ PassedInv(b, v)', OneActiveVersion',
         work' \in [Workers -> WorkRow], \A w \in Workers : WorkMoves(work[w], work'[w])
  PROVE  FirmwareInv' /\ OthersUntouched
  <1>1. CodeTyped
    BY DEF FirmwareInv, CodeInv
  <1>2. /\ code' \in [Builds -> Seq(CodeRow)]
        /\ \A c \in Builds : /\ DOMAIN code'[c] = DOMAIN code[c]
                             /\ \A x \in DOMAIN code[c] : code'[c][x] = IF c = b /\ x = v THEN r ELSE code[c][x]
    BY <1>1, RowSet
  <1>3. ASSUME NEW c \in Builds, NEW x \in DOMAIN code[c]
        PROVE  /\ RowMoves(code[c][x], code'[c][x])
               /\ code'[c][x].status # "passed" \/ code'[c][x] = code[c][x] \/ PassedInv(c, x)'
    <2>1. CASE c = b /\ x = v
      BY <1>2, <2>1
    <2>2. CASE ~(c = b /\ x = v)
      BY <1>2, <2>2, RowRests
    <2> QED
      BY <2>1, <2>2
  <1> QED
    BY <1>2, <1>3, RowsStep

\* ... and is not newly active.
LEMMA SettlesStep ==
  ASSUME FirmwareInv, UNCHANGED <<designs, created, claims, artifacts>>,
         NEW b \in Builds, NEW v \in DOMAIN code[b], NEW r \in CodeRow, code' = [code EXCEPT ![b][v] = r],
         RowMoves(code[b][v], r), r.status # "passed" \/ PassedInv(b, v)', r.status \in Active => code[b][v].status \in Active,
         work' \in [Workers -> WorkRow], \A w \in Workers : WorkMoves(work[w], work'[w])
  PROVE  FirmwareInv' /\ OthersUntouched
  <1>1. CodeTyped /\ CodeInv
    BY DEF FirmwareInv, CodeInv
  <1>2. \A c \in Builds : /\ DOMAIN code'[c] = DOMAIN code[c]
                          /\ \A x \in DOMAIN code[c] : code'[c][x] = IF c = b /\ x = v THEN r ELSE code[c][x]
    BY <1>1, RowSet
  <1>3. OneActiveVersion'
    BY <1>1, <1>2, ActiveMoves
  <1> QED
    BY <1>3, OneRowStep

LEMMA StaleStep ==
  ASSUME FirmwareInv, NEW b \in Builds, NEW v \in DOMAIN code[b], Stale(b, v)
  PROVE  FirmwareInv' /\ OthersUntouched
  <1>1. UNCHANGED <<designs, created, work, claims, artifacts>> /\ code[b][v].status = "running"
    BY DEF Stale
  <1>2. code[b][v] \in CodeRow
    BY CodeAt DEF FirmwareInv, CodeInv
  <1>3. PICK r : r = [code[b][v] EXCEPT !.stale = TRUE]
    OBVIOUS
  <1>4. r \in CodeRow /\ r.status = "running" /\ r.attempts = code[b][v].attempts
        /\ r.plan = code[b][v].plan /\ r.request = code[b][v].request /\ r.base = code[b][v].base
    BY <1>1, <1>2, <1>3 DEF CodeRow
  <1>5. code' = [code EXCEPT ![b][v] = r]
    BY <1>3 DEF Stale
  <1>6. RowMoves(code[b][v], r)
    BY <1>1, <1>4 DEF RowMoves
  <1>7. work' \in [Workers -> WorkRow] /\ \A x \in Workers : WorkMoves(work[x], work'[x])
    BY <1>1, WorkRests DEF FirmwareInv, JobInv
  <1> QED
    BY <1>1, <1>4, <1>5, <1>6, <1>7, SettlesStep

LEMMA RetryStep ==
  ASSUME FirmwareInv, NEW b \in Builds, NEW v \in DOMAIN code[b], Retry(b, v)
  PROVE  FirmwareInv' /\ OthersUntouched
  <1>1. UNCHANGED <<designs, created, work, claims, artifacts>> /\ code[b][v].status = "failed" /\ ~Compiling(b)
    BY DEF Retry
  <1>2. code[b][v] \in CodeRow /\ CodeTyped /\ OneActiveVersion
    BY CodeAt DEF FirmwareInv, CodeInv
  <1>3. PICK r : r = [code[b][v] EXCEPT !.status = "pending", !.lease = 0]
    OBVIOUS
  <1>4. r \in CodeRow /\ r.status = "pending" /\ r.attempts = code[b][v].attempts
        /\ r.plan = code[b][v].plan /\ r.request = code[b][v].request /\ r.base = code[b][v].base
    BY <1>2, <1>3 DEF CodeRow
  <1>5. code' = [code EXCEPT ![b][v] = r]
    BY <1>3 DEF Retry
  <1>6. RowMoves(code[b][v], r)
    BY <1>1, <1>4 DEF RowMoves
  <1>7. OneActiveVersion'
    <2>1. \A c \in Builds : /\ DOMAIN code'[c] = DOMAIN code[c]
                            /\ \A x \in DOMAIN code[c] : code'[c][x] = IF c = b /\ x = v THEN r ELSE code[c][x]
      BY <1>2, <1>4, <1>5, RowSet
    <2>2. \A x \in DOMAIN code[b] : code[b][x].status \notin Active
      BY <1>1 DEF Compiling
    <2> QED
      BY <1>2, <2>1, <2>2 DEF OneActiveVersion
  <1>8. work' \in [Workers -> WorkRow] /\ \A x \in Workers : WorkMoves(work[x], work'[x])
    BY <1>1, WorkRests DEF FirmwareInv, JobInv
  <1> QED
    BY <1>1, <1>4, <1>5, <1>6, <1>7, <1>8, OneRowStep

LEMMA ExpireStep ==
  ASSUME FirmwareInv, NEW w \in Workers, ExpireStale(w)
  PROVE  FirmwareInv' /\ OthersUntouched
  <1>1. UNCHANGED <<designs, created, claims, artifacts>> /\ work[w].pc = "locked" /\ Step(w, "swept")
    BY DEF ExpireStale
  <1>2. CodeTyped /\ CodeInv /\ JobTyped
    BY DEF FirmwareInv, CodeInv, JobInv
  <1>3. \A b \in Builds : /\ DOMAIN code'[b] = DOMAIN code[b]
                          /\ \A v \in DOMAIN code[b] :
                               code'[b][v] = IF Exhausted(code[b][v]) THEN [code[b][v] EXCEPT !.status = "failed"] ELSE code[b][v]
    BY DEF ExpireStale
  <1>4. ASSUME NEW b \in Builds, NEW v \in DOMAIN code[b]
        PROVE  /\ code'[b][v] \in CodeRow /\ RowMoves(code[b][v], code'[b][v])
               /\ code'[b][v].status # "passed" \/ code'[b][v] = code[b][v]
               /\ code'[b][v].status \in Active => code[b][v].status \in Active
    <2>1. code[b][v] \in CodeRow
      BY <1>2, CodeAt
    <2>2. CASE ~Exhausted(code[b][v])
      BY <1>3, <2>1, <2>2, RowRests
    <2>3. CASE Exhausted(code[b][v])
      <3>1. PICK r : r = [code[b][v] EXCEPT !.status = "failed"]
        OBVIOUS
      <3>2. code'[b][v] = r
        BY <1>3, <2>3, <3>1
      <3>3. r \in CodeRow /\ r.status = "failed" /\ r.attempts = code[b][v].attempts
            /\ r.plan = code[b][v].plan /\ r.request = code[b][v].request /\ r.base = code[b][v].base
        BY <2>1, <3>1 DEF CodeRow
      <3>4. code[b][v].status = "running"
        BY <2>3 DEF Exhausted
      <3>5. RowMoves(code[b][v], r)
        BY <2>3, <3>3, <3>4 DEF RowMoves
      <3> QED
        BY <3>2, <3>3, <3>5 DEF Active
    <2> QED
      BY <2>2, <2>3
  <1>5. code' \in [Builds -> Seq(CodeRow)]
    <2>1. ASSUME NEW b \in Builds PROVE code'[b] \in Seq(CodeRow)
      <3>1. DOMAIN code[b] = 1..Len(code[b]) /\ Len(code[b]) \in Nat
        BY <1>2, CodeAt
      <3>2. PICK s : s = [v \in DOMAIN code[b] |->
               IF Exhausted(code[b][v]) THEN [code[b][v] EXCEPT !.status = "failed"] ELSE code[b][v]]
        OBVIOUS
      <3>3. code'[b] = s
        BY <3>2 DEF ExpireStale
      <3>4. \A v \in 1..Len(code[b]) : s[v] \in CodeRow
        BY <1>4, <3>1, <3>3
      <3>5. s = [v \in 1..Len(code[b]) |-> s[v]]
        BY <3>1, <3>2
      <3>6. s \in [1..Len(code[b]) -> CodeRow]
        BY <3>4, <3>5
      <3> QED
        BY <3>1, <3>3, <3>6, SeqDef
    <2>2. code' = [b \in Builds |-> code'[b]]
      BY DEF ExpireStale
    <2> QED
      BY <2>1, <2>2
  <1>6. OneActiveVersion'
    BY <1>2, <1>3, <1>4, ActiveMoves
  <1>7. work' \in [Workers -> WorkRow] /\ \A x \in Workers : WorkMoves(work[x], work'[x])
    BY <1>1, <1>2, Advance DEF Places, Serving, Unwritten
  <1> QED
    BY <1>1, <1>3, <1>4, <1>5, <1>6, <1>7, RowsStep

LEMMA MarkFailedStep ==
  ASSUME FirmwareInv, NEW w \in Workers, MarkFailed(w)
  PROVE  FirmwareInv' /\ OthersUntouched
  <1>1. UNCHANGED <<designs, created, claims, artifacts>> /\ work[w].pc = "failing" /\ Step(w, "release")
    BY DEF MarkFailed
  <1>2. CodeTyped /\ JobTyped
    BY DEF FirmwareInv, CodeInv, JobInv
  <1>3. work' \in [Workers -> WorkRow] /\ \A x \in Workers : WorkMoves(work[x], work'[x])
    BY <1>1, <1>2, Advance DEF Places, Serving, Unwritten
  <1>4. CASE ~Owned(w)
    <2>1. UNCHANGED code
      BY <1>4 DEF MarkFailed
    <2> QED
      BY <1>1, <1>3, <2>1, LocalStep
  <1>5. CASE Owned(w)
    <2>1. PICK b \in Builds : b = work[w].build /\ work[w].version \in DOMAIN code[b]
      BY <1>1 DEF FirmwareInv, JobInv, WorkerInv, Serving
    <2>2. PICK v \in DOMAIN code[b] : v = work[w].version
      BY <2>1
    <2>3. code[b][v].status = "running" /\ code[b][v].lease = work[w].lease
      BY <1>5, <2>1, <2>2 DEF Owned
    <2>4. code[b][v] \in CodeRow
      BY <1>2, CodeAt
    <2>5. PICK r : r = [code[b][v] EXCEPT !.status = "failed"]
      OBVIOUS
    <2>6. r \in CodeRow /\ r.status = "failed" /\ r.attempts = code[b][v].attempts
          /\ r.plan = code[b][v].plan /\ r.request = code[b][v].request /\ r.base = code[b][v].base
      BY <2>4, <2>5 DEF CodeRow
    <2>7. code' = [code EXCEPT ![b][v] = r]
      BY <1>5, <2>1, <2>2, <2>5 DEF MarkFailed
    <2>8. RowMoves(code[b][v], r)
      BY <1>1, <2>3, <2>6 DEF RowMoves
    <2>9. r.status # "passed" /\ r.status \notin Active
      BY <2>6 DEF Active
    <2> QED
      BY <1>1, <1>3, <2>6, <2>7, <2>8, <2>9, SettlesStep
  <1> QED
    BY <1>4, <1>5

\* The row is still the worker's, and its files are there: it becomes published.
LEMMA PublishedStep ==
  ASSUME FirmwareInv, NEW w \in Workers, work[w].pc = "publish", Owned(w), Published(w),
         UNCHANGED <<designs, created, claims, artifacts>>,
         work' \in [Workers -> WorkRow], \A x \in Workers : WorkMoves(work[x], work'[x]),
         work'[w].pc \in {"failing", "release"}
  PROVE  FirmwareInv' /\ OthersUntouched
  <1>1. CodeTyped /\ JobTyped /\ WorkerInv(w) /\ LeasesApart
    BY DEF FirmwareInv, CodeInv, JobInv
  <1>2. PICK b \in Builds : b = work[w].build /\ work[w].version \in DOMAIN code[b]
    BY <1>1 DEF WorkerInv, Serving
  <1>3. PICK v \in DOMAIN code[b] : v = work[w].version
    BY <1>2
  <1>4. PICK l \in Nat : l = work[w].lease /\ l # 0 /\ l \in 1..claims
    <2>1. work[w].lease \in Nat /\ claims \in Nat
      BY <1>1 DEF JobTyped, WorkRow
    <2>2. work[w].lease # 0 /\ work[w].lease <= claims
      BY <1>1 DEF WorkerInv, Serving
    <2> QED
      BY <2>1, <2>2
  <1>5. code[b][v].status = "running" /\ code[b][v].lease = l
    BY <1>2, <1>3, <1>4 DEF Owned
  <1>6. code[b][v] \in CodeRow
    BY <1>1, CodeAt
  <1>7. PICK r : r = [code[b][v] EXCEPT !.status = "passed", !.ref = l]
    OBVIOUS
  <1>8. r \in CodeRow /\ r.status = "passed" /\ r.ref = l /\ r.attempts = code[b][v].attempts
        /\ r.plan = code[b][v].plan /\ r.request = code[b][v].request /\ r.base = code[b][v].base
    BY <1>6, <1>7 DEF CodeRow
  <1>9. code' = [code EXCEPT ![b][v] = r]
    BY <1>2, <1>3, <1>4, <1>7 DEF Published
  <1>10. RowMoves(code[b][v], r)
    BY <1>5, <1>8 DEF RowMoves
  <1>11. code'[b][v] = r
    BY <1>1, <1>8, <1>9, RowSet
  <1>12. PassedInv(b, v)'
    <2>1. Under(l) = {Written(w, TRUE)}
      BY <1>1, <1>4 DEF WorkerInv
    <2>2. Under(l)' = Under(l)
      BY DEF Under
    <2>3. Written(w, TRUE) = [lease |-> l, build |-> b, version |-> v, plan |-> code[b][v].plan, whole |-> TRUE]
      BY <1>2, <1>3, <1>4 DEF Written
    <2>4. Recorded(b, v)' = [lease |-> l, build |-> b, version |-> v, plan |-> code[b][v].plan, whole |-> TRUE]
      BY <1>8, <1>11 DEF Recorded
    <2>5. \A x \in Workers : work'[x].lease = l => work'[x].pc \in {"failing", "release"}
      <3>1. \A x \in Workers : work'[x].lease = l => work[x].lease = l
        BY <1>4 DEF WorkMoves
      <3>2. \A x \in Workers : work[x].lease = l => x = w
        BY <1>1, <1>4 DEF LeasesApart
      <3> QED
        BY <3>1, <3>2
    <2> QED
      BY <1>4, <1>8, <1>11, <2>1, <2>2, <2>3, <2>4, <2>5 DEF PassedInv
  <1>13. r.status \notin Active
    BY <1>8 DEF Active
  <1> QED
    BY <1>8, <1>9, <1>10, <1>12, <1>13, SettlesStep

LEMMA PublishSteps ==
  ASSUME FirmwareInv, NEW w \in Workers, Publish(w) \/ PublishUncertain(w)
  PROVE  FirmwareInv' /\ OthersUntouched
  <1>1. work[w].pc = "publish" /\ Owned(w) /\ Published(w) /\ UNCHANGED <<designs, created, claims, artifacts>>
    BY DEF Publish, PublishUncertain, Publishable
  <1>2. work[w] \in WorkRow /\ JobTyped
    BY PlaceTyped DEF FirmwareInv, JobInv
  <1>3. PICK r \in WorkRow : work' = [work EXCEPT ![w] = r] /\ WorkMoves(work[w], r) /\ r.pc \in {"failing", "release"}
    <2>1. PICK r : work' = [work EXCEPT ![w] = r] /\ (\/ r = [work[w] EXCEPT !.pc = "release"]
                                                     \/ r = [work[w] EXCEPT !.pc = "failing", !.conn = "noticed"])
      BY DEF Publish, PublishUncertain, Step
    <2>2. r \in WorkRow /\ r.lease = work[w].lease /\ r.build = work[w].build /\ r.version = work[w].version
          /\ r.pc \in {"failing", "release"}
      BY <1>2, <2>1 DEF WorkRow, Serving
    <2>3. WorkMoves(work[w], r)
      BY <1>1, <2>2 DEF WorkMoves, Serving, Unwritten
    <2> QED
      BY <2>1, <2>2, <2>3
  <1>4. work' \in [Workers -> WorkRow] /\ (\A x \in Workers : WorkMoves(work[x], work'[x])) /\ work'[w] = r
    BY <1>2, <1>3, OneWorker DEF JobTyped
  <1> QED
    BY <1>1, <1>3, <1>4, PublishedStep

\* The files go under the worker's own lease, which no published row refers to.
LEMMA UploadStep ==
  ASSUME FirmwareInv, NEW w \in Workers, Upload(w)
  PROVE  FirmwareInv' /\ OthersUntouched
  <1>1. UNCHANGED <<designs, code, created, holder, claims>> /\ work[w].pc = "upload"
    BY DEF Upload
  <1>2. PlansInv' /\ CodeInv' /\ OthersUntouched
    BY <1>1, PlansRest, CodeRests DEF FirmwareInv
  <1>3. CodeTyped /\ JobTyped /\ WorkerInv(w) /\ LeasesApart /\ JobInv /\ work[w] \in WorkRow
    BY DEF FirmwareInv, CodeInv, JobInv, JobTyped
  <1>4. PICK whole \in BOOLEAN, pc \in {"publish", "failing"} :
          artifacts' = artifacts \cup {Written(w, whole)} /\ Step(w, pc) /\ (pc = "publish" => whole = TRUE)
    BY DEF Upload
  <1>5. PICK b \in Builds : b = work[w].build /\ work[w].version \in DOMAIN code[b]
    BY <1>1, <1>3 DEF WorkerInv, Serving, Unwritten
  <1>6. PICK v \in DOMAIN code[b] : v = work[w].version
    BY <1>5
  <1>7. PICK l \in Nat : l = work[w].lease /\ l # 0 /\ l <= claims /\ Under(l) = {}
    BY <1>1, <1>3 DEF WorkerInv, Serving, Unwritten, WorkRow
  <1>8. PICK f : f = Written(w, whole)
    OBVIOUS
  <1>9. f = [lease |-> l, build |-> b, version |-> v, plan |-> code[b][v].plan, whole |-> whole] /\ f.lease = l
    BY <1>5, <1>6, <1>7, <1>8 DEF Written
  <1>10. f \in Artifact
    <2>1. code[b][v].plan \in Nat /\ v \in Nat
      BY <1>3, CodeAt DEF CodeRow
    <2> QED
      BY <1>9, <2>1 DEF Artifact
  <1>11. \A m : m # l => Under(m)' = Under(m)
    BY <1>4, <1>8, <1>9 DEF Under
  <1>12. Under(l)' = {f}
    BY <1>4, <1>7, <1>8, <1>9 DEF Under
  <1>13. PICK r : r = [work[w] EXCEPT !.pc = pc]
    OBVIOUS
  <1>14. r \in WorkRow /\ r.pc = pc /\ r.lease = l /\ r.build = b /\ r.version = v
    BY <1>3, <1>5, <1>6, <1>7, <1>13 DEF WorkRow, Serving
  <1>15. work' \in [Workers -> WorkRow] /\ \A x \in Workers : work'[x] = IF x = w THEN r ELSE work[x]
    BY <1>3, <1>4, <1>13, <1>14 DEF Step, JobTyped
  <1>16. JobTyped'
    BY <1>1, <1>3, <1>4, <1>8, <1>10, <1>15 DEF JobTyped
  <1>17. LeasesApart'
    BY <1>3, <1>7, <1>14, <1>15 DEF LeasesApart
  <1>18. \A a \in artifacts' : a.lease <= claims'
    BY <1>1, <1>3, <1>4, <1>7, <1>8, <1>9 DEF JobInv
  <1>19. ASSUME NEW x \in Workers PROVE WorkerInv(x)'
    <2>1. CASE x = w
      <3>1. work'[x] = r
        BY <1>15, <2>1
      <3>2. Written(x, TRUE)' = [lease |-> l, build |-> b, version |-> v, plan |-> code[b][v].plan, whole |-> TRUE]
        BY <1>1, <1>14, <3>1 DEF Written
      <3>3. pc = "publish" => Under(l)' = {Written(x, TRUE)'}
        BY <1>4, <1>9, <1>12, <3>2
      <3>4. pc \notin Unwritten
        BY DEF Unwritten
      <3> QED
        BY <1>1, <1>7, <1>14, <3>1, <3>3, <3>4 DEF WorkerInv
    <2>2. CASE x # w
      <3>1. work'[x] = work[x] /\ WorkerInv(x)
        BY <1>3, <1>15, <2>2 DEF JobInv
      <3>2. work[x].lease # l
        BY <1>3, <1>7, <2>2 DEF LeasesApart
      <3>3. Under(work[x].lease)' = Under(work[x].lease)
        BY <3>1, <3>2, <1>4, <1>8, <1>9 DEF Under
      <3>4. Written(x, TRUE)' = Written(x, TRUE)
        BY <1>1, <3>1 DEF Written
      <3> QED
        BY <1>1, <3>1, <3>3, <3>4 DEF WorkerInv
    <2> QED
      BY <2>1, <2>2
  <1>20. ASSUME NEW c \in Builds, NEW x \in DOMAIN code[c], code[c][x].status = "passed" PROVE PassedInv(c, x)'
    <2>1. PICK k \in Nat : k = code[c][x].ref /\ k \in 1..claims /\ Under(k) = {Recorded(c, x)}
            /\ \A y \in Workers : work[y].lease = k => work[y].pc \in {"failing", "release"}
      BY <1>3, <1>20 DEF JobInv, PassedInv, JobTyped
    <2>2. k # l
      BY <1>1, <1>7, <2>1
    <2>3. Recorded(c, x)' = Recorded(c, x)
      BY <1>1 DEF Recorded
    <2>4. \A y \in Workers : work'[y].lease = k => work'[y].pc \in {"failing", "release"}
      BY <1>14, <1>15, <2>1, <2>2
    <2>5. Under(k)' = Under(k)
      BY <1>11, <2>2
    <2> QED
      BY <1>1, <2>1, <2>3, <2>4, <2>5 DEF PassedInv
  <1>21. \A c \in Builds : \A x \in DOMAIN code'[c] : PassedInv(c, x)'
    BY <1>1, <1>20 DEF PassedInv
  <1>22. JobInv'
    BY <1>16, <1>17, <1>18, <1>19, <1>21 DEF JobInv
  <1> QED
    BY <1>2, <1>22 DEF FirmwareInv

\* The claimed row was claimable, the worker's lease is new, and nothing is stored under it.
LEMMA ClaimStep ==
  ASSUME FirmwareInv, NEW w \in Workers, Claim(w)
  PROVE  FirmwareInv' /\ OthersUntouched
  <1>1. UNCHANGED <<designs, created, artifacts>> /\ work[w].pc = "swept" /\ claims' = claims + 1
    BY DEF Claim
  <1>2. CodeTyped /\ JobTyped /\ CodeInv /\ JobInv /\ LeasesApart /\ work[w] \in WorkRow /\ claims \in Nat
    BY DEF FirmwareInv, CodeInv, JobInv, JobTyped
  <1>3. PICK j \in Queue :
          /\ code' = [code EXCEPT ![j[1]][j[2]] =
               [code[j[1]][j[2]] EXCEPT !.status = "running", !.attempts = @ + 1, !.lease = claims + 1, !.stale = FALSE]]
          /\ work' = [work EXCEPT ![w] =
               [work[w] EXCEPT !.pc = "claimed", !.build = j[1], !.version = j[2], !.lease = claims + 1,
                               !.ok = Accepted(j[1], code[j[1]][j[2]].plan)]]
    BY DEF Claim
  <1>4. PICK b \in Builds : b = j[1] /\ j[2] \in DOMAIN code[b] /\ Claimable(code[b][j[2]])
    BY DEF Queue
  <1>5. PICK v \in DOMAIN code[b] : v = j[2]
    BY <1>4
  <1>6. code[b][v] \in CodeRow /\ v \in Nat /\ MaxAttempts \in Nat
    BY <1>2, CodeAt, FirmwareAssumption
  <1>7. code[b][v].status \in {"pending", "running"} /\ code[b][v].attempts < MaxAttempts
    BY <1>4, <1>5 DEF Claimable
  <1>8. PICK r : r = [code[b][v] EXCEPT !.status = "running", !.attempts = code[b][v].attempts + 1,
                                        !.lease = claims + 1, !.stale = FALSE]
    OBVIOUS
  <1>9. r \in CodeRow /\ r.status = "running" /\ r.attempts = code[b][v].attempts + 1
        /\ r.plan = code[b][v].plan /\ r.request = code[b][v].request /\ r.base = code[b][v].base
    <2>1. code[b][v].attempts \in Nat
      BY <1>6 DEF CodeRow
    <2>2. PICK l \in Nat, n \in Nat : l = claims + 1 /\ n = code[b][v].attempts + 1
      BY <1>2, <2>1
    <2>3. r = [code[b][v] EXCEPT !.status = "running", !.attempts = n, !.lease = l, !.stale = FALSE]
      BY <1>8, <2>2
    <2>4. r \in CodeRow /\ r.status = "running" /\ r.attempts = n
          /\ r.plan = code[b][v].plan /\ r.request = code[b][v].request /\ r.base = code[b][v].base
      BY <1>6, <2>3 DEF CodeRow
    <2> QED
      BY <2>2, <2>4
  <1>10. code' = [code EXCEPT ![b][v] = r]
    BY <1>3, <1>4, <1>5, <1>6, <1>8 DEF CodeRow
  <1>11. /\ code' \in [Builds -> Seq(CodeRow)]
         /\ \A c \in Builds : /\ DOMAIN code'[c] = DOMAIN code[c]
                              /\ \A x \in DOMAIN code[c] : code'[c][x] = IF c = b /\ x = v THEN r ELSE code[c][x]
    BY <1>2, <1>9, <1>10, RowSet
  <1>12. RowMoves(code[b][v], r)
    <2>1. code[b][v].attempts \in Nat
      BY <1>6 DEF CodeRow
    <2> QED
      BY <1>6, <1>7, <1>9, <2>1 DEF RowMoves
  <1>13. \A c \in Builds : \A x \in DOMAIN code[c] : RowMoves(code[c][x], code'[c][x])
    BY <1>11, <1>12, RowRests
  <1>14. OneActiveVersion'
    <2>1. \A c \in Builds : \A x \in DOMAIN code[c] : code'[c][x].status \in Active => code[c][x].status \in Active
      BY <1>7, <1>9, <1>11 DEF Active
    <2> QED
      BY <1>2, <1>11, <2>1, ActiveMoves
  <1>15. CodeInv' /\ OthersUntouched
    <2>1. created' \in Nat
      BY <1>1, <1>2 DEF CodeTyped
    <2> QED
      BY <1>2, <1>11, <1>13, <1>14, <2>1, CodeMoves
  <1>16. PlansInv'
    BY <1>1, PlansRest DEF FirmwareInv
  <1>17. PICK o : o = [work[w] EXCEPT !.pc = "claimed", !.build = b, !.version = v, !.lease = claims + 1,
                                      !.ok = Accepted(b, code[b][v].plan)]
    OBVIOUS
  <1>18. o \in WorkRow /\ o.pc = "claimed" /\ o.lease = claims + 1 /\ o.build = b /\ o.version = v
    <2>1. Accepted(b, code[b][v].plan) \in BOOLEAN
      <3>1. plans[b][code[b][v].plan].accepted \in BOOLEAN \/ code[b][v].plan \notin DOMAIN plans[b]
        <4>1. PICK C : plans[b] \in Seq(PlanRow(C))
          BY DEF FirmwareInv, PlansInv, PlansTyped
        <4>2. \A p \in DOMAIN plans[b] : plans[b][p] \in PlanRow(C)
          BY <4>1, LenProperties, ElementOfSeq
        <4> QED
          BY <4>2 DEF PlanRow
      <3> QED
        BY <3>1 DEF Accepted
    <2>2. PICK l \in Nat, k \in BOOLEAN : l = claims + 1 /\ k = Accepted(b, code[b][v].plan)
      BY <1>2, <2>1
    <2>3. o = [work[w] EXCEPT !.pc = "claimed", !.build = b, !.version = v, !.lease = l, !.ok = k]
      BY <1>17, <2>2
    <2>4. o \in WorkRow /\ o.pc = "claimed" /\ o.lease = l /\ o.build = b /\ o.version = v
      BY <1>2, <1>6, <2>3 DEF WorkRow, Serving, Unwritten
    <2> QED
      BY <2>2, <2>4
  <1>19. work' \in [Workers -> WorkRow] /\ \A x \in Workers : work'[x] = IF x = w THEN o ELSE work[x]
    BY <1>2, <1>3, <1>4, <1>5, <1>17, <1>18 DEF JobTyped
  <1>20. JobTyped'
    BY <1>1, <1>2, <1>19 DEF JobTyped
  <1>21. \A x \in Workers : work[x].lease \in Nat /\ work[x].lease <= claims /\ WorkerInv(x)
    BY <1>2 DEF JobInv, JobTyped, WorkerInv, WorkRow
  <1>22. LeasesApart'
    <2>1. \A x \in Workers : work[x].lease # claims + 1
      BY <1>2, <1>21
    <2> QED
      BY <1>2, <1>18, <1>19, <2>1 DEF LeasesApart
  <1>23. \A a \in artifacts : a.lease \in Nat /\ a.lease <= claims
    BY <1>2 DEF JobInv, JobTyped, Artifact
  <1>24. \A a \in artifacts' : a.lease <= claims'
    BY <1>1, <1>2, <1>23
  <1>25. \A l : Under(l)' = Under(l)
    BY <1>1 DEF Under
  <1>26. ASSUME NEW x \in Workers PROVE WorkerInv(x)'
    <2>1. CASE x = w
      <3>1. work'[x] = o
        BY <1>19, <2>1
      <3>2. Under(claims + 1) = {}
        BY <1>2, <1>23 DEF Under
      <3>3. work'[x].lease <= claims' /\ work'[x].lease # 0
        BY <1>1, <1>2, <1>18, <3>1
      <3> QED
        BY <1>11, <1>18, <1>25, <3>1, <3>2, <3>3 DEF WorkerInv
    <2>2. CASE x # w
      <3>1. work'[x] = work[x] /\ WorkerInv(x)
        BY <1>19, <1>21, <2>2
      <3>2. work[x].lease <= claims'
        BY <1>1, <1>2, <1>21
      <3>3. ASSUME work[x].pc = "publish" PROVE Under(work[x].lease) = {Written(x, TRUE)'}
        <4>1. PICK c \in Builds : c = work[x].build /\ work[x].version \in DOMAIN code[c]
          BY <3>1, <3>3 DEF WorkerInv, Serving
        <4>2. PICK y \in DOMAIN code[c] : y = work[x].version
          BY <4>1
        <4>3. code'[c][y].plan = code[c][y].plan
          BY <1>9, <1>11
        <4>4. Written(x, TRUE)' = Written(x, TRUE)
          BY <3>1, <4>1, <4>2, <4>3 DEF Written
        <4> QED
          BY <3>1, <3>3, <4>4 DEF WorkerInv
      <3>4. work[x].pc \in Serving => /\ work[x].build \in Builds /\ work[x].version \in DOMAIN code'[work[x].build]
                                     /\ work[x].lease # 0
        BY <1>11, <3>1 DEF WorkerInv
      <3>5. work[x].pc \in Unwritten => Under(work[x].lease) = {}
        BY <3>1 DEF WorkerInv
      <3> QED
        BY <1>25, <3>1, <3>2, <3>3, <3>4, <3>5 DEF WorkerInv
    <2> QED
      BY <2>1, <2>2
  <1>27. ASSUME NEW c \in Builds, NEW x \in DOMAIN code'[c], code'[c][x].status = "passed" PROVE PassedInv(c, x)'
    <2>1. x \in DOMAIN code[c] /\ code'[c][x] = code[c][x]
      BY <1>9, <1>11, <1>27
    <2>2. PICK k \in Nat : k = code[c][x].ref /\ k \in 1..claims /\ Under(k) = {Recorded(c, x)}
            /\ \A y \in Workers : work[y].lease = k => work[y].pc \in {"failing", "release"}
      BY <1>2, <1>27, <2>1 DEF JobInv, PassedInv
    <2>3. k \in 1..claims' /\ k # claims + 1
      BY <1>1, <1>2, <2>2
    <2>4. Recorded(c, x)' = Recorded(c, x)
      BY <2>1 DEF Recorded
    <2>5. \A y \in Workers : work'[y].lease = k => work'[y].pc \in {"failing", "release"}
      BY <1>18, <1>19, <2>2, <2>3
    <2> QED
      BY <1>25, <2>1, <2>2, <2>3, <2>4, <2>5 DEF PassedInv
  <1>28. \A c \in Builds : \A x \in DOMAIN code'[c] : PassedInv(c, x)'
    BY <1>27 DEF PassedInv
  <1>29. JobInv'
    BY <1>20, <1>22, <1>24, <1>26, <1>28 DEF JobInv
  <1> QED
    BY <1>15, <1>16, <1>29 DEF FirmwareInv

LEMMA Sent ==
  ASSUME CodeTyped, NEW q \in Sendable
  PROVE  q \in Requests
  <1>1. \A b \in Builds : \A v \in DOMAIN code[b] : code[b][v].request \in Requests
    BY CodeAt DEF CodeRow
  <1>2. Used \subseteq Requests
    BY <1>1 DEF Used
  <1> QED
    BY <1>2 DEF Sendable

\* The new version waits, its request is new, and what it edits is published.
LEMMA RequestStep ==
  ASSUME FirmwareInv, NEW b \in Builds, NEW q \in Sendable, NEW p \in DOMAIN plans[b],
         NEW base \in {0} \cup DOMAIN code[b], RequestCode(b, q, p, base)
  PROVE  FirmwareInv' /\ OthersUntouched
  <1>1. UNCHANGED <<designs, work, claims, artifacts>> /\ created' = created + 1
        /\ ~Repeated(b, q) /\ ~Compiling(b) /\ Editable(b, base, p)
    BY DEF RequestCode
  <1>2. CodeTyped /\ JobTyped /\ CodeInv /\ JobInv /\ created \in Nat /\ MaxAttempts \in Nat
    BY FirmwareAssumption DEF FirmwareInv, CodeInv, JobInv, CodeTyped
  <1>3. code[b] \in Seq(CodeRow) /\ DOMAIN code[b] = 1..Len(code[b]) /\ Len(code[b]) \in Nat
        /\ \A v \in DOMAIN code[b] : v \in Nat
    BY <1>2, CodeAt
  <1>4. p \in Nat
    <2>1. PICK C : plans[b] \in Seq(PlanRow(C))
      BY DEF FirmwareInv, PlansInv, PlansTyped
    <2> QED
      BY <2>1, LenProperties
  <1>5. base \in Nat /\ q \in Requests
    BY <1>2, <1>3, Sent
  <1>6. PICK r : r = [plan |-> p, request |-> q, base |-> base, status |-> "pending", attempts |-> 0,
                      lease |-> 0, stale |-> FALSE, born |-> created + 1, ref |-> 0]
    OBVIOUS
  <1>7. r \in CodeRow /\ r.plan = p /\ r.request = q /\ r.base = base /\ r.status = "pending" /\ r.attempts = 0
    BY <1>2, <1>4, <1>5, <1>6 DEF CodeRow
  <1>8. code' = [code EXCEPT ![b] = Append(code[b], r)]
    BY <1>6 DEF RequestCode
  <1>9. PICK n \in Nat : n = Len(code[b]) + 1
    BY <1>3
  <1>10. PICK s : s = Append(code[b], r)
    OBVIOUS
  <1>11. s \in Seq(CodeRow) /\ DOMAIN s = 1..n /\ s[n] = r /\ \A x \in DOMAIN code[b] : s[x] = code[b][x]
    <2>1. s \in Seq(CodeRow)
      BY <1>3, <1>7, <1>10
    <2>2. Len(s) = n /\ s[n] = r /\ \A x \in 1..Len(code[b]) : s[x] = code[b][x]
      BY <1>3, <1>7, <1>9, <1>10
    <2>3. DOMAIN s = 1..n
      BY <2>1, <2>2, LenProperties
    <2> QED
      BY <1>3, <2>1, <2>2, <2>3
  <1>12. /\ code' \in [Builds -> Seq(CodeRow)] /\ code'[b] = s /\ DOMAIN code'[b] = DOMAIN code[b] \cup {n}
         /\ n \notin DOMAIN code[b] /\ \A x \in DOMAIN code[b] : x < n
         /\ \A c \in Builds : c # b => code'[c] = code[c]
    <2>1. code' = [code EXCEPT ![b] = s]
      BY <1>8, <1>10
    <2>2. 1..n = (1..Len(code[b])) \cup {n} /\ n \notin 1..Len(code[b]) /\ \A x \in 1..Len(code[b]) : x < n
      BY <1>3, <1>9
    <2> QED
      BY <1>2, <1>3, <1>11, <2>1, <2>2 DEF CodeTyped
  <1>13. code'[b][n] = r /\ \A c \in Builds : \A x \in DOMAIN code[c] : x \in DOMAIN code'[c] /\ code'[c][x] = code[c][x]
    BY <1>11, <1>12
  <1>14. \A c \in Builds : \A x \in DOMAIN code'[c] : x \in DOMAIN code[c] \/ (c = b /\ x = n)
    BY <1>12
  <1>15. CodeTyped'
    BY <1>1, <1>2, <1>12 DEF CodeTyped
  <1>16. AttemptsBounded'
    BY <1>2, <1>7, <1>13, <1>14 DEF CodeInv, AttemptsBounded
  <1>17. OneActiveVersion'
    <2>1. \A v \in DOMAIN code[b] : code[b][v].status \notin Active
      BY <1>1 DEF Compiling
    <2> QED
      BY <1>2, <1>13, <1>14, <2>1 DEF CodeInv, OneActiveVersion
  <1>18. RequestsIdempotent'
    <2>1. \A v \in DOMAIN code[b] : code[b][v].request # q
      BY <1>1 DEF Repeated
    <2> QED
      BY <1>2, <1>7, <1>13, <1>14, <2>1 DEF CodeInv, RequestsIdempotent
  <1>19. BasesPublished'
    <2> SUFFICES ASSUME NEW c \in Builds, NEW v \in DOMAIN code'[c], NEW e, e = code'[c][v].base, e # 0
                 PROVE  /\ e \in DOMAIN code'[c] /\ e < v
                        /\ code'[c][e].status = "passed" /\ code'[c][e].plan = code'[c][v].plan
      BY DEF BasesPublished
    <2>1. CASE v \in DOMAIN code[c]
      <3>1. e \in DOMAIN code[c] /\ e < v /\ code[c][e].status = "passed" /\ code[c][e].plan = code[c][v].plan
        BY <1>2, <1>13, <2>1 DEF CodeInv, BasesPublished
      <3> QED
        BY <1>13, <2>1, <3>1
    <2>2. CASE c = b /\ v = n
      <3>1. e = base
        BY <1>7, <1>13, <2>2
      <3>2. base \in DOMAIN code[b] /\ code[b][base].plan = p /\ code[b][base].status = "passed"
        BY <1>1, <3>1 DEF Editable
      <3> QED
        BY <1>7, <1>12, <1>13, <2>2, <3>1, <3>2
    <2> QED
      BY <1>14, <2>1, <2>2
  <1>20. CodeInv'
    BY <1>15, <1>16, <1>17, <1>18, <1>19 DEF CodeInv
  <1>21. OthersUntouched
    <2>1. \A c \in Builds : \A x \in DOMAIN code[c] : code'[c][x] = code[c][x]
      BY <1>13
    <2> QED
      BY <2>1 DEF OthersUntouched
  <1>22. work' \in [Workers -> WorkRow] /\ \A x \in Workers : WorkMoves(work[x], work'[x])
    BY <1>1, <1>2, WorkRests
  <1>23. JobInv'
    <2>1. \A c \in Builds : /\ DOMAIN code[c] \subseteq DOMAIN code'[c]
                            /\ \A v \in DOMAIN code[c] : code'[c][v].plan = code[c][v].plan
      BY <1>13
    <2>2. ASSUME NEW c \in Builds, NEW v \in DOMAIN code'[c]
          PROVE  code'[c][v].status # "passed" \/ (v \in DOMAIN code[c] /\ code'[c][v] = code[c][v])
      <3>1. CASE v \in DOMAIN code[c]
        BY <1>13, <3>1
      <3>2. CASE c = b /\ v = n
        BY <1>7, <1>13, <3>2
      <3> QED
        BY <1>14, <3>1, <3>2
    <2> QED
      BY <1>1, <1>2, <1>22, <2>1, <2>2, JobMoves
  <1>24. PlansInv'
    BY <1>1, PlansRest DEF FirmwareInv
  <1> QED
    BY <1>20, <1>21, <1>23, <1>24 DEF FirmwareInv

(***************************************************************************)
(* Plans.                                                                  *)
(***************************************************************************)
LEMMA PlansAt ==
  ASSUME PlansTyped, NEW b \in Builds
  PROVE  \E C : /\ plans[b] \in Seq(PlanRow(C)) /\ DOMAIN plans[b] = 1..Len(plans[b]) /\ Len(plans[b]) \in Nat
               /\ \A p \in DOMAIN plans[b] : plans[b][p] \in PlanRow(C)
  <1>1. PICK C : plans[b] \in Seq(PlanRow(C))
    BY DEF PlansTyped
  <1>2. DOMAIN plans[b] = 1..Len(plans[b]) /\ Len(plans[b]) \in Nat
    BY <1>1, LenProperties
  <1>3. \A p \in DOMAIN plans[b] : plans[b][p] \in PlanRow(C)
    BY <1>1, <1>2, ElementOfSeq
  <1> QED
    BY <1>1, <1>2, <1>3

\* The plans change; versions, workers and artifacts do not.
LEMMA PlansStep ==
  ASSUME FirmwareInv, PlansInv', UNCHANGED <<code, created, holder, work, claims, artifacts>>
  PROVE  FirmwareInv' /\ OthersUntouched
  <1>1. CodeInv' /\ OthersUntouched
    BY CodeRests DEF FirmwareInv
  <1>2. JobInv /\ JobTyped /\ CodeTyped
    BY DEF FirmwareInv, JobInv, CodeInv
  <1>3. work' \in [Workers -> WorkRow] /\ \A x \in Workers : WorkMoves(work[x], work'[x])
    BY <1>2, WorkRests
  <1>4. \A b \in Builds : /\ DOMAIN code[b] \subseteq DOMAIN code'[b]
                          /\ \A v \in DOMAIN code[b] : code'[b][v].plan = code[b][v].plan
                          /\ \A v \in DOMAIN code'[b] : v \in DOMAIN code[b] /\ code'[b][v] = code[b][v]
    OBVIOUS
  <1>5. JobInv'
    BY <1>2, <1>3, <1>4, JobMoves
  <1> QED
    BY <1>1, <1>5 DEF FirmwareInv

LEMMA ReviseStep ==
  ASSUME FirmwareInv, NEW b \in Builds, Revise(b)
  PROVE  FirmwareInv' /\ OthersUntouched
  <1>1. UNCHANGED <<evidence, plans, code, created, holder, work, claims, artifacts>> /\ spec' = [spec EXCEPT ![b] = spec[b] + 1]
    BY DEF Revise
  <1>2. PlansTyped'
    BY <1>1 DEF FirmwareInv, PlansInv, PlansTyped
  <1>3. OneDecisionPerSpec'
    BY <1>1 DEF FirmwareInv, PlansInv, OneDecisionPerSpec
  <1> QED
    BY <1>1, <1>2, <1>3, PlansStep DEF PlansInv

LEMMA RecatalogueStep ==
  ASSUME FirmwareInv, Recatalogue
  PROVE  FirmwareInv' /\ OthersUntouched
  <1>1. UNCHANGED <<spec, plans, code, created, holder, work, claims, artifacts>> /\ evidence' = evidence + 1
    BY DEF Recatalogue
  <1>2. PlansTyped'
    BY <1>1 DEF FirmwareInv, PlansInv, PlansTyped
  <1>3. OneDecisionPerSpec'
    BY <1>1 DEF FirmwareInv, PlansInv, OneDecisionPerSpec
  <1> QED
    BY <1>1, <1>2, <1>3, PlansStep DEF PlansInv

\* A plan is accepted only for a spec that has none accepted.
LEMMA AcceptStep ==
  ASSUME FirmwareInv, NEW b \in Builds, NEW p \in DOMAIN plans[b], AcceptPlan(b, p)
  PROVE  FirmwareInv' /\ OthersUntouched
  <1>1. UNCHANGED <<spec, evidence, code, created, holder, work, claims, artifacts>> /\ plans[b][p].spec = spec[b] /\ ~SpecDecided(b)
    BY DEF AcceptPlan
  <1>2. PlansTyped /\ OneDecisionPerSpec
    BY DEF FirmwareInv, PlansInv
  <1>3. PICK C : /\ plans[b] \in Seq(PlanRow(C)) /\ DOMAIN plans[b] = 1..Len(plans[b]) /\ Len(plans[b]) \in Nat
                 /\ \A x \in DOMAIN plans[b] : plans[b][x] \in PlanRow(C)
    BY <1>2, PlansAt
  <1>4. PICK r : r = [plans[b][p] EXCEPT !.accepted = TRUE]
    OBVIOUS
  <1>5. r \in PlanRow(C) /\ r.spec = plans[b][p].spec
    BY <1>3, <1>4 DEF PlanRow
  <1>6. PICK s : s = [plans[b] EXCEPT ![p] = r]
    OBVIOUS
  <1>7. s \in Seq(PlanRow(C))
    BY <1>3, <1>5, <1>6, ExceptSeq
  <1>8. plans' = [plans EXCEPT ![b] = s]
    BY <1>4, <1>6 DEF AcceptPlan
  <1>9. plans = [c \in Builds |-> plans[c]]
    BY <1>2 DEF PlansTyped
  <1>10. plans' = [c \in Builds |-> plans'[c]] /\ \A c \in Builds : plans'[c] = IF c = b THEN s ELSE plans[c]
    BY <1>8, <1>9
  <1>11. PlansTyped'
    BY <1>1, <1>2, <1>7, <1>10 DEF PlansTyped
  <1>12. DOMAIN s = DOMAIN plans[b] /\ \A x \in DOMAIN plans[b] : s[x] = IF x = p THEN r ELSE plans[b][x]
    BY <1>6
  <1>13. \A x \in DOMAIN plans[b] : ~(plans[b][x].spec = spec[b] /\ plans[b][x].accepted)
    BY <1>1 DEF SpecDecided
  <1>14. OneDecisionPerSpec'
    BY <1>1, <1>2, <1>5, <1>10, <1>12, <1>13 DEF OneDecisionPerSpec
  <1> QED
    BY <1>1, <1>11, <1>14, PlansStep DEF PlansInv

LEMMA SolveStep ==
  ASSUME FirmwareInv, NEW b \in Builds, NEW solution \in Solutions, Solve(b, solution)
  PROVE  FirmwareInv' /\ OthersUntouched
  <1>1. UNCHANGED <<spec, evidence, code, created, holder, work, claims, artifacts>>
    BY DEF Solve
  <1>2. PlansTyped /\ OneDecisionPerSpec /\ spec[b] \in Nat /\ evidence \in Nat
    BY DEF FirmwareInv, PlansInv, PlansTyped
  <1>3. PICK C : /\ plans[b] \in Seq(PlanRow(C)) /\ DOMAIN plans[b] = 1..Len(plans[b]) /\ Len(plans[b]) \in Nat
                 /\ \A x \in DOMAIN plans[b] : plans[b][x] \in PlanRow(C)
    BY <1>2, PlansAt
  <1>4. PICK n \in Nat : n = Cardinality(Missing(b, solution))
    <2>1. PICK D : solution \in Seq(D)
      BY FirmwareAssumption
    <2>2. DOMAIN solution = 1..Len(solution) /\ Len(solution) \in Nat
      BY <2>1, LenProperties
    <2>3. IsFiniteSet(DOMAIN solution)
      BY <2>2, FS_Interval
    <2>4. IsFiniteSet(Missing(b, solution))
      BY <2>3, FS_Subset DEF Missing
    <2> QED
      BY <2>4, FS_CardinalityType
  <1>5. PICK new : new = [i \in 1..n |-> [spec |-> spec[b], evidence |-> evidence,
                                         choice |-> solution[Nth(Missing(b, solution), i)], accepted |-> FALSE]]
    OBVIOUS
  <1>6. plans' = [plans EXCEPT ![b] = plans[b] \o new]
    BY <1>4, <1>5 DEF Solve
  <1>7. PICK E : E = C \cup {new[i].choice : i \in 1..n}
    OBVIOUS
  <1>8. new \in Seq(PlanRow(E)) /\ Len(new) = n /\ \A i \in 1..n : ~new[i].accepted
    <2>1. \A i \in 1..n : new[i] = [spec |-> spec[b], evidence |-> evidence, choice |-> new[i].choice, accepted |-> FALSE]
      BY <1>5
    <2>2. \A i \in 1..n : new[i].choice \in E
      BY <1>7
    <2>3. ASSUME NEW i \in 1..n PROVE new[i] \in PlanRow(E)
      <3>1. PICK e \in E : e = new[i].choice
        BY <2>2
      <3>2. new[i] = [spec |-> spec[b], evidence |-> evidence, choice |-> e, accepted |-> FALSE]
        BY <2>1, <3>1
      <3>3. [spec |-> spec[b], evidence |-> evidence, choice |-> e, accepted |-> FALSE] \in PlanRow(E)
        BY <1>2 DEF PlanRow
      <3> QED
        BY <3>2, <3>3
    <2>4. new = [i \in 1..n |-> new[i]]
      BY <1>5
    <2>5. new \in [1..n -> PlanRow(E)]
      BY <2>3, <2>4
    <2>6. new \in Seq(PlanRow(E))
      BY <2>5, SeqDef
    <2>7. Len(new) = n
      BY <2>5, <2>6, LenProperties
    <2> QED
      BY <2>1, <2>6, <2>7
  <1>9. plans[b] \in Seq(PlanRow(E))
    <2>1. PlanRow(C) \subseteq PlanRow(E)
      BY <1>7 DEF PlanRow
    <2> QED
      BY <1>3, <2>1, SeqMonotonic
  <1>10. PICK s : s = plans[b] \o new
    OBVIOUS
  <1>11. s \in Seq(PlanRow(E)) /\ Len(s) = Len(plans[b]) + n
         /\ \A x \in 1..(Len(plans[b]) + n) : s[x] = IF x <= Len(plans[b]) THEN plans[b][x] ELSE new[x - Len(plans[b])]
    BY <1>8, <1>9, <1>10, ConcatProperties
  <1>12. DOMAIN s = 1..(Len(plans[b]) + n)
    BY <1>11, LenProperties
  <1>13. ASSUME NEW x \in DOMAIN s, s[x].accepted PROVE x \in DOMAIN plans[b] /\ s[x] = plans[b][x]
    <2>1. CASE x <= Len(plans[b])
      BY <1>3, <1>11, <1>12, <2>1
    <2>2. CASE ~(x <= Len(plans[b]))
      <3>1. PICK i \in 1..n : i = x - Len(plans[b])
        BY <1>3, <1>12, <2>2
      <3>2. s[x] = new[i]
        BY <1>11, <1>12, <2>2, <3>1
      <3> QED
        BY <1>8, <1>13, <3>2
    <2> QED
      BY <2>1, <2>2
  <1>14. plans = [c \in Builds |-> plans[c]]
    BY <1>2 DEF PlansTyped
  <1>15. plans' = [c \in Builds |-> plans'[c]] /\ \A c \in Builds : plans'[c] = IF c = b THEN s ELSE plans[c]
    BY <1>6, <1>10, <1>14
  <1>16. PlansTyped'
    BY <1>1, <1>2, <1>11, <1>15 DEF PlansTyped
  <1>17. OneDecisionPerSpec'
    BY <1>2, <1>13, <1>15 DEF OneDecisionPerSpec
  <1> QED
    BY <1>1, <1>16, <1>17, PlansStep DEF PlansInv

(***************************************************************************)
(* Every step.                                                             *)
(***************************************************************************)
LEMMA FirmwareRests ==
  ASSUME FirmwareInv, UNCHANGED vars
  PROVE  FirmwareInv' /\ OthersUntouched
  <1>1. UNCHANGED <<designs, code, created, holder, work, claims, artifacts>>
    BY DEF vars
  <1>2. PlansInv'
    BY <1>1, PlansRest DEF FirmwareInv
  <1> QED
    BY <1>1, <1>2, PlansStep

LEMMA FirmwareStep ==
  ASSUME FirmwareInv, Next
  PROVE  FirmwareInv' /\ OthersUntouched
  <1>1. CASE Design
    BY <1>1, ReviseStep, RecatalogueStep, SolveStep, AcceptStep DEF Design
  <1>2. CASE Owner
    BY <1>2, RequestStep, RetryStep DEF Owner
  <1>3. CASE Ageing
    BY <1>3, StaleStep DEF Ageing
  <1>4. ASSUME NEW w \in Workers, Work(w)
        PROVE  FirmwareInv' /\ OthersUntouched
    BY <1>4, PlainSteps, ExpireStep, ClaimStep, UploadStep, PublishSteps, SessionSteps, MarkFailedStep, EndSteps DEF Work
  <1>5. ASSUME NEW w \in Workers, Failure(w)
        PROVE  FirmwareInv' /\ OthersUntouched
    BY <1>5, PublishSteps, SessionSteps, EndSteps DEF Failure
  <1> QED
    BY <1>1, <1>2, <1>3, <1>4, <1>5 DEF Next

LEMMA FirmwareSound ==
  ASSUME FirmwareInv
  PROVE  PassedIsComplete /\ DesignsSound
  <1>1. PassedIsComplete
    <2> SUFFICES ASSUME NEW b \in Builds, NEW v \in DOMAIN code[b]
                 PROVE  code[b][v].status = "passed" <=> Download(b, v) = "sent"
      BY DEF PassedIsComplete
    <2>1. claims \in Nat /\ PassedInv(b, v)
      BY DEF FirmwareInv, JobInv, JobTyped
    <2>2. CASE code[b][v].status = "passed"
      <3>1. code[b][v].ref # 0 /\ Fetched(b, v) = {Recorded(b, v)}
        BY <2>1, <2>2 DEF PassedInv, Under, Fetched
      <3> QED
        BY <2>2, <3>1 DEF Download
    <2>3. CASE code[b][v].status # "passed"
      BY <2>3 DEF Download
    <2> QED
      BY <2>2, <2>3
  <1>2. LineageSound
    <2> SUFFICES ASSUME NEW b \in Builds, NEW v \in DOMAIN Page(b), NEW base, base = Page(b)[v].previous, base # 0
                 PROVE  /\ base < v /\ code[b][base].status = "passed"
                        /\ code[b][base].plan = code[b][v].plan /\ Page(b)[base].current = Page(b)[v].current
      BY DEF LineageSound
    <2>1. PICK listed : listed = {x \in DOMAIN code[b] : x > Len(code[b]) - PageRows}
      OBVIOUS
    <2>2. Page(b) = [x \in listed |-> [current |-> Accepted(b, code[b][x].plan),
                                      previous |-> IF code[b][x].base \in listed THEN code[b][x].base ELSE 0]]
      BY <2>1 DEF Page
    <2>3. v \in listed /\ base = code[b][v].base /\ base \in listed /\ v \in DOMAIN code[b]
      BY <2>1, <2>2
    <2>4. base < v /\ code[b][base].status = "passed" /\ code[b][base].plan = code[b][v].plan
      BY <2>3 DEF FirmwareInv, CodeInv, BasesPublished
    <2>5. Page(b)[base].current = Accepted(b, code[b][base].plan) /\ Page(b)[v].current = Accepted(b, code[b][v].plan)
      BY <2>2, <2>3
    <2> QED
      BY <2>4, <2>5
  <1> QED
    BY <1>1, <1>2 DEF FirmwareInv, PlansInv, CodeInv, DesignsSound

(***************************************************************************)
(* The jobs.                                                               *)
(***************************************************************************)
CodegenInv == FirmwareInv /\ CompilerInv

LEMMA CodegenInitially ==
  ASSUME CodegenInit
  PROVE  CodegenInv
  BY FirmwareInitially, CompilerInitially DEF CodegenInit, CodegenInv

LEMMA CodegenStep ==
  ASSUME CodegenInv, [CodegenNext]_codegenVars
  PROVE  CodegenInv' /\ OthersUntouched
  <1>1. CASE open = "jobs" /\ Next /\ UNCHANGED compilerVars
    BY <1>1, FirmwareStep, CompilerStep DEF CodegenInv
  <1>2. CASE open = "compile" /\ CompilerNext /\ UNCHANGED vars
    BY <1>2, FirmwareRests, CompilerStep DEF CodegenInv
  <1>3. CASE UNCHANGED codegenVars
    BY <1>3, FirmwareRests, CompilerStep DEF CodegenInv, codegenVars
  <1> QED
    BY <1>1, <1>2, <1>3 DEF CodegenNext

THEOREM CodegenInvariant == CodegenSpec => []CodegenInv
  <1>1. CodegenInit => CodegenInv
    BY CodegenInitially
  <1>2. CodegenInv /\ [CodegenNext]_codegenVars => CodegenInv'
    BY CodegenStep
  <1> QED
    BY <1>1, <1>2, PTL DEF CodegenSpec

\* A published version can be downloaded, whole and as recorded, whatever workers died, lost their
\* lock or came back late; and a compile that settles published only what it stored whole and
\* leaves nothing running (job.ts runClaimed and publish, compiler.ts compileProfile).
THEOREM PublishedIsWhole == CodegenSpec => []PublishedWhole
  <1>1. CodegenInv => PublishedWhole
    BY FirmwareSound, CompilerSound DEF CodegenInv, PublishedWhole
  <1> QED
    BY <1>1, CodegenInvariant, PTL

\* A spec has one accepted plan, a build one version at work, a request one version, a version
\* its attempts, and an edit a published source (build-plan-store.ts, firmware-routes.ts).
THEOREM PlansAndVersionsSound == CodegenSpec => []DesignsSound
  <1>1. CodegenInv => DesignsSound
    BY FirmwareSound DEF CodegenInv
  <1> QED
    BY <1>1, CodegenInvariant, PTL

\* No worker, however late, changes a published version or fails a version it does not own
\* (the lease in job.ts publish and markFailed).
THEOREM LateWorkersChangeNothing == CodegenSpec => LateWorkersHarmless
  <1>1. CodegenInv /\ [CodegenNext]_codegenVars => [OthersUntouched]_vars
    BY CodegenStep
  <1> QED
    BY <1>1, CodegenInvariant, PTL DEF CodegenSpec, LateWorkersHarmless

=============================================================================
