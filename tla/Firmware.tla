------------------------------ MODULE Firmware ------------------------------
(***************************************************************************)
(* From an accepted plan to published firmware: plans and code versions in *)
(* the builds schema, the gateway's plan and code routes that write them,  *)
(* and the compile workers (apps/codegen job.ts) that claim versions,      *)
(* upload artifacts and publish.                                           *)
(*                                                                         *)
(* Every gateway transaction and the publication lock the build row, so    *)
(* each is one action.  A worker owns a session advisory lock on a         *)
(* connection of its own; the server may drop that connection, and with it *)
(* the lock, some time before the worker notices.  Claims, failures and    *)
(* artifact writes do not go through that connection.                      *)
(***************************************************************************)
EXTENDS Naturals, Sequences, FiniteSets

CONSTANTS Builds,      \* builds of all tenants
          Requests,    \* request_id values clients generate
          Solutions,   \* what solve() may return: sequences of plan candidates
          Workers,     \* executions of the compile job
          NoWorker,
          MaxSpec,     \* bound: spec versions per build
          MaxEvidence, \* bound: revisions of the reviewed catalogue and registry
          MaxVersions, \* the VERSION_LIMIT of code versions per build
          PageRows,    \* versions on a page, 20 in the code
          MaxAttempts, \* compile attempts per version
          MaxEvents    \* bound: revisions, requests and retries, crashed workers, lost connections
                       \* and lost COMMIT replies, together

ASSUME FirmwareAssumption ==
  /\ IsFiniteSet(Builds)
  /\ NoWorker \notin Workers
  /\ \A s \in Solutions : s \in Seq({s[i] : i \in DOMAIN s})
  /\ MaxSpec \in Nat \ {0} /\ MaxEvidence \in Nat \ {0} /\ MaxVersions \in Nat /\ PageRows \in Nat
  /\ MaxAttempts \in Nat /\ MaxEvents \in Nat

VARIABLES
  spec,      \* latest version in builds.specs
  evidence,  \* revision of the evidence trustedInput() reads
  plans,     \* builds.plans, by version
  code,      \* builds.code_bundles, by version
  created,   \* rows of code_bundles so far, all builds: the order of created_at
  holder,    \* session holding pg_advisory_lock(284713,1)
  work,      \* the workers
  claims,    \* lease ids handed out
  artifacts, \* what was written under each lease's prefix
  events

designs == <<spec, evidence, plans>>
vars == <<designs, code, created, holder, work, claims, artifacts, events>>

Resting == [pc |-> "idle", conn |-> "up", build |-> NoWorker, version |-> 0, lease |-> 0, ok |-> FALSE]

Init ==
  /\ spec = [b \in Builds |-> 1]
  /\ evidence = 1
  /\ plans = [b \in Builds |-> <<>>]
  /\ code = [b \in Builds |-> <<>>]
  /\ created = 0
  /\ holder = NoWorker
  /\ work = [w \in Workers |-> Resting]
  /\ claims = 0
  /\ artifacts = {}
  /\ events = 0

Event == events < MaxEvents /\ events' = events + 1

(***************************************************************************)
(* Plans.                                                                  *)
(***************************************************************************)

\* The intake turn commits a new spec revision, under the build row's lock.
Revise(b) ==
  /\ Event /\ spec[b] < MaxSpec
  /\ spec' = [spec EXCEPT ![b] = @ + 1]
  /\ UNCHANGED <<evidence, plans, code, created, holder, work, claims, artifacts>>

\* Registry parts, compatibility or the reviewed catalogue change.
Recatalogue ==
  /\ Event /\ evidence < MaxEvidence
  /\ evidence' = evidence + 1
  /\ UNCHANGED <<spec, plans, code, created, holder, work, claims, artifacts>>

\* The row with this input digest: same spec, evidence and solution.
Stored(b, c) ==
  \E p \in DOMAIN plans[b] :
    plans[b][p].spec = spec[b] /\ plans[b][p].evidence = evidence /\ plans[b][p].choice = c

\* solve(): store the solver's plans that the current spec does not have yet, each once, in its order.
Missing(b, solution) ==
  {i \in DOMAIN solution : ~Stored(b, solution[i]) /\ \A k \in 1..(i - 1) : solution[k] # solution[i]}
Nth(S, n) == CHOOSE i \in S : Cardinality({k \in S : k <= i}) = n

Solve(b, solution) ==
  LET new == Missing(b, solution) IN
  /\ Event /\ new # {}
  /\ plans' = [plans EXCEPT ![b] = @ \o [n \in 1..Cardinality(new) |->
       [spec |-> spec[b], evidence |-> evidence, choice |-> solution[Nth(new, n)], accepted |-> FALSE]]]
  /\ UNCHANGED <<spec, evidence, code, created, holder, work, claims, artifacts>>

\* A plan is accepted for the current spec (plans_one_accepted_spec_idx says the same).
SpecDecided(b) ==
  \E p \in DOMAIN plans[b] : plans[b][p].spec = spec[b] /\ plans[b][p].accepted

\* accept(): for the current spec, on unchanged evidence, once.
AcceptPlan(b, p) ==
  /\ plans[b][p].spec = spec[b] /\ ~plans[b][p].accepted
  /\ plans[b][p].evidence = evidence
  /\ ~SpecDecided(b)
  /\ plans' = [plans EXCEPT ![b][p].accepted = TRUE]
  /\ UNCHANGED <<spec, evidence, code, created, holder, work, claims, artifacts, events>>

\* accepted(): an accepted plan of the latest spec.
Accepted(b, p) == p \in DOMAIN plans[b] /\ plans[b][p].accepted /\ plans[b][p].spec = spec[b]

(***************************************************************************)
(* The code routes of the gateway.                                         *)
(***************************************************************************)

Active == {"pending", "running"}

\* Mutant: only a running compile blocks the next.
Compiling_RunningOnly(b) == \E v \in DOMAIN code[b] : code[b][v].status = "running"

Compiling(b) == \E v \in DOMAIN code[b] : code[b][v].status \in Active

\* based_on names a compiled version of the same plan.
Editable(b, v, p) ==
  v = 0 \/ (v \in DOMAIN code[b] /\ code[b][v].plan = p /\ code[b][v].status = "passed")

\* The request id already has a version, which is returned without a change.
Repeated(b, q) == \E v \in DOMAIN code[b] : code[b][v].request = q

\* POST /v1/builds/:id/code
RequestCode(b, q, p, base) ==
  /\ Event /\ Accepted(b, p)
  /\ ~Repeated(b, q)
  /\ ~Compiling(b)
  /\ Len(code[b]) < MaxVersions
  /\ Editable(b, base, p)
  /\ code' = [code EXCEPT ![b] = Append(@,
       [plan |-> p, request |-> q, base |-> base, status |-> "pending", attempts |-> 0,
        lease |-> 0, stale |-> FALSE, born |-> created + 1, ref |-> 0])]
  /\ created' = created + 1
  /\ UNCHANGED <<designs, holder, work, claims, artifacts>>

\* POST /v1/builds/:id/code/:version/retry keeps the attempts already spent.
Retry(b, v) ==
  /\ Event /\ Accepted(b, code[b][v].plan)
  /\ code[b][v].status = "failed" /\ code[b][v].attempts < MaxAttempts
  /\ ~Compiling(b)
  /\ code' = [code EXCEPT ![b][v] = [@ EXCEPT !.status = "pending", !.lease = 0]]
  /\ UNCHANGED <<designs, created, holder, work, claims, artifacts>>

(***************************************************************************)
(* A compile worker.                                                       *)
(***************************************************************************)

Step(w, pc) == work' = [work EXCEPT ![w].pc = pc]

\* The lock ends with the session that took it.
Unlocked(w) == IF holder = w THEN NoWorker ELSE holder

\* runOne: pg_try_advisory_lock.
Lock(w) ==
  /\ work[w].pc = "idle" /\ holder = NoWorker
  /\ holder' = w
  /\ Step(w, "locked")
  /\ UNCHANGED <<designs, code, created, claims, artifacts, events>>

\* Rows no worker will finish: stale, with every attempt spent.
Exhausted(r) == r.status = "running" /\ r.stale /\ r.attempts >= MaxAttempts

ExpireStale(w) ==
  /\ work[w].pc = "locked" /\ work[w].conn # "noticed"
  /\ code' = [b \in Builds |-> [v \in DOMAIN code[b] |->
       IF Exhausted(code[b][v]) THEN [code[b][v] EXCEPT !.status = "failed"] ELSE code[b][v]]]
  /\ Step(w, "swept")
  /\ UNCHANGED <<designs, created, holder, claims, artifacts, events>>

\* Mutant: rows of dead workers are not picked up again.
Claimable_PendingOnly(r) == r.status = "pending" /\ r.attempts < MaxAttempts

Claimable(r) ==
  (r.status = "pending" \/ (r.status = "running" /\ r.stale)) /\ r.attempts < MaxAttempts

Queue == {j \in Builds \X (1..MaxVersions) : j[2] \in DOMAIN code[j[1]] /\ Claimable(code[j[1]][j[2]])}

\* The oldest claimable row gets this worker's lease and one more attempt; the same
\* statement reads whether its plan is accepted and current.
Claim(w) ==
  /\ work[w].pc = "swept" /\ work[w].conn # "noticed"
  /\ \E j \in Queue :
       LET b == j[1]
           v == j[2]
       IN /\ \A i \in Queue : code[b][v].born <= code[i[1]][i[2]].born
          /\ code' = [code EXCEPT ![b][v] =
               [code[b][v] EXCEPT !.status = "running", !.attempts = @ + 1,
                                  !.lease = claims + 1, !.stale = FALSE]]
          /\ work' = [work EXCEPT ![w] =
               [@ EXCEPT !.pc = "claimed", !.build = b, !.version = v, !.lease = claims + 1,
                         !.ok = Accepted(b, code[b][v].plan)]]
  /\ claims' = claims + 1
  /\ UNCHANGED <<designs, created, holder, artifacts, events>>

\* Nothing to do: the worker unlocks and ends.
NoJob(w) ==
  /\ work[w].pc = "swept" /\ Queue = {}
  /\ Step(w, "release")
  /\ UNCHANGED <<designs, code, created, holder, claims, artifacts, events>>

\* The claim's answer is checked; a plan that is no longer current fails the job.
Check(w) ==
  /\ work[w].pc = "claimed" /\ work[w].conn # "noticed"
  /\ Step(w, IF work[w].ok THEN "compile" ELSE "failing")
  /\ UNCHANGED <<designs, code, created, holder, claims, artifacts, events>>

\* The compiler succeeds, or fails or exceeds its deadline.
Compile(w) ==
  /\ work[w].pc = "compile" /\ work[w].conn # "noticed"
  /\ Step(w, "upload") \/ Step(w, "failing")
  /\ UNCHANGED <<designs, code, created, holder, claims, artifacts, events>>

\* What a worker puts under its lease's prefix.
Written(w, whole) ==
  [lease |-> work[w].lease, build |-> work[w].build, version |-> work[w].version,
   plan |-> code[work[w].build][work[w].version].plan, whole |-> whole]

\* Mutant: a failed put goes unnoticed.
Upload_Unchecked(w) ==
  /\ work[w].pc = "upload" /\ work[w].conn # "noticed"
  /\ \E whole \in BOOLEAN : artifacts' = artifacts \cup {Written(w, whole)}
  /\ Step(w, "publish")
  /\ UNCHANGED <<designs, code, created, holder, claims, events>>

\* The files are put one by one, create-only; a failed put leaves the others behind.
Upload(w) ==
  /\ work[w].pc = "upload" /\ work[w].conn # "noticed"
  /\ \/ artifacts' = artifacts \cup {Written(w, TRUE)} /\ Step(w, "publish")
     \/ artifacts' = artifacts \cup {Written(w, FALSE)} /\ Step(w, "failing")
  /\ UNCHANGED <<designs, code, created, holder, claims, events>>

\* Mutant: the row's lease is not compared.
Owned_AnyLease(w) == code[work[w].build][work[w].version].status = "running"

\* WHERE status='running' AND lease=mine.
Owned(w) ==
  LET r == code[work[w].build][work[w].version] IN r.status = "running" /\ r.lease = work[w].lease

Published(w) ==
  code' = [code EXCEPT ![work[w].build][work[w].version] = [@ EXCEPT !.status = "passed", !.ref = work[w].lease]]

Publishable(w) == Accepted(work[w].build, code[work[w].build][work[w].version].plan) /\ Owned(w)

\* The publication commits on the connection that holds the lock.
Publish(w) ==
  /\ work[w].pc = "publish" /\ work[w].conn = "up"
  /\ Publishable(w)
  /\ Published(w)
  /\ Step(w, "release")
  /\ UNCHANGED <<designs, created, holder, claims, artifacts, events>>

\* The publication is refused, times out, or its connection is gone: the session is
\* destroyed, and the lock with it.
PublishFails(w) ==
  /\ work[w].pc = "publish"
  /\ holder' = Unlocked(w)
  /\ work' = [work EXCEPT ![w] = [@ EXCEPT !.pc = "failing", !.conn = "noticed"]]
  /\ UNCHANGED <<designs, code, created, claims, artifacts, events>>

\* The COMMIT is applied but its reply is lost: the worker goes on to record a failure.
PublishUncertain(w) ==
  /\ work[w].pc = "publish" /\ work[w].conn = "up" /\ Event
  /\ Publishable(w)
  /\ Published(w)
  /\ holder' = Unlocked(w)
  /\ work' = [work EXCEPT ![w] = [@ EXCEPT !.pc = "failing", !.conn = "noticed"]]
  /\ UNCHANGED <<designs, created, claims, artifacts>>

\* The failure is recorded if the row is still this worker's.
MarkFailed(w) ==
  /\ work[w].pc = "failing"
  /\ code' = IF Owned(w) THEN [code EXCEPT ![work[w].build][work[w].version].status = "failed"] ELSE code
  /\ Step(w, "release")
  /\ UNCHANGED <<designs, created, holder, claims, artifacts, events>>

\* The finally block of runOne: unlock unless the session is gone.
Release(w) ==
  /\ work[w].pc = "release"
  /\ holder' = Unlocked(w)
  /\ work' = [work EXCEPT ![w] = Resting]
  /\ UNCHANGED <<designs, code, created, claims, artifacts, events>>

\* throwIfAborted: before the claim is answered the worker just ends, leaving a row it may
\* have claimed; after it, the job fails.
Aborted(w) ==
  /\ work[w].conn = "noticed"
  /\ \/ work[w].pc \in {"locked", "swept", "claimed"} /\ Step(w, "release")
     \/ work[w].pc \in {"compile", "upload"} /\ Step(w, "failing")
  /\ UNCHANGED <<designs, code, created, holder, claims, artifacts, events>>

\* The server drops the session; the worker's client notices later.
Drop(w) ==
  /\ Event
  /\ holder = w
  /\ holder' = NoWorker
  /\ work' = [work EXCEPT ![w] = [@ EXCEPT !.conn = "dropped"]]
  /\ UNCHANGED <<designs, code, created, claims, artifacts>>

\* The "error" or "end" event: lost() aborts the work.
Notice(w) ==
  /\ work[w].conn = "dropped" /\ work[w].pc # "idle"
  /\ work' = [work EXCEPT ![w] = [@ EXCEPT !.conn = "noticed"]]
  /\ UNCHANGED <<designs, code, created, holder, claims, artifacts, events>>

\* The execution dies; its sessions end.
Crash(w) ==
  /\ Event
  /\ work[w].pc # "idle"
  /\ holder' = Unlocked(w)
  /\ work' = [work EXCEPT ![w] = Resting]
  /\ UNCHANGED <<designs, code, created, claims, artifacts>>

\* updated_at is more than 15 minutes ago; nothing renews it during a compile.
Stale(b, v) ==
  /\ code[b][v].status = "running" /\ ~code[b][v].stale
  /\ code' = [code EXCEPT ![b][v].stale = TRUE]
  /\ UNCHANGED <<designs, created, holder, work, claims, artifacts, events>>

(***************************************************************************)
(* Reads.                                                                  *)
(***************************************************************************)

\* What compile_log and its manifest say about the files under storage_ref.
Recorded(b, v) ==
  [lease |-> code[b][v].ref, build |-> b, version |-> v, plan |-> code[b][v].plan, whole |-> TRUE]

\* What the gateway's store returns for the keys under storage_ref, as they are now.
Fetched(b, v) == {a \in artifacts : a.lease = code[b][v].ref}

\* GET /v1/builds/:id/code/:version/files/:file verifies the digest of what it sends.
Download(b, v) ==
  IF code[b][v].status # "passed" \/ code[b][v].ref = 0 THEN "not_found"
  ELSE IF Fetched(b, v) = {Recorded(b, v)} THEN "sent" ELSE "unavailable"

\* GET /v1/builds/:id/code: the newest versions, which of them belong to the plan accepted for
\* the current spec, and the source each was edited from, if that is on the page too.
Page(b) ==
  LET listed == {v \in DOMAIN code[b] : v > Len(code[b]) - PageRows} IN
  [v \in listed |-> [current |-> Accepted(b, code[b][v].plan),
                     previous |-> IF code[b][v].base \in listed THEN code[b][v].base ELSE 0]]

Design ==
  \/ Recatalogue
  \/ \E b \in Builds : \/ Revise(b)
                      \/ \E s \in Solutions : Solve(b, s)
                      \/ \E p \in DOMAIN plans[b] : AcceptPlan(b, p)

\* Request ids are generated at random: one that was used before, or any other.
Used == UNION {{code[b][v].request : v \in DOMAIN code[b]} : b \in Builds}
Sendable == Used \cup (IF Requests \subseteq Used THEN {} ELSE {CHOOSE q \in Requests : q \notin Used})

Owner ==
  \E b \in Builds :
    \/ \E q \in Sendable, p \in DOMAIN plans[b], base \in {0} \cup DOMAIN code[b] : RequestCode(b, q, p, base)
    \/ \E v \in DOMAIN code[b] : Retry(b, v)

Work(w) ==
  \/ Lock(w) \/ ExpireStale(w) \/ Claim(w) \/ NoJob(w) \/ Check(w) \/ Compile(w) \/ Upload(w)
  \/ Publish(w) \/ PublishFails(w) \/ MarkFailed(w) \/ Release(w) \/ Aborted(w) \/ Notice(w)

Failure(w) == PublishUncertain(w) \/ Drop(w) \/ Crash(w)

Ageing == \E b \in Builds : \E v \in DOMAIN code[b] : Stale(b, v)

Next ==
  \/ Design \/ Owner \/ Ageing
  \/ \E w \in Workers : Work(w) \/ Failure(w)

\* The job is dispatched after every request and by a schedule, its steps have
\* deadlines, and time passes.
Fairness == (\A w \in Workers : WF_vars(Work(w))) /\ WF_vars(Ageing)

Spec == Init /\ [][Next]_vars
FairSpec == Spec /\ Fairness

(***************************************************************************)
(* Properties.                                                             *)
(***************************************************************************)

\* A spec revision has at most one accepted plan, however accepts, solves and
\* revisions interleave (PLAN_ALREADY_ACCEPTED in build-plan-store.ts).
OneDecisionPerSpec ==
  \A b \in Builds : \A p, q \in DOMAIN plans[b] :
    plans[b][p].accepted /\ plans[b][q].accepted /\ plans[b][p].spec = plans[b][q].spec => p = q

\* A build has one version pending or running at a time, retries included
\* (COMPILE_PENDING in firmware-routes.ts).
OneActiveVersion ==
  \A b \in Builds : \A v, x \in DOMAIN code[b] :
    code[b][v].status \in Active /\ code[b][x].status \in Active => v = x

\* A passed version can be downloaded: its storage_ref holds all files of one compile of
\* exactly that version and plan, and no other, whatever workers died, lost their lock or came
\* back late; its record is never contradicted by what is stored.
PassedIsComplete ==
  \A b \in Builds : \A v \in DOMAIN code[b] : code[b][v].status = "passed" <=> Download(b, v) = "sent"

\* A request id names at most one version, however often the client repeats it.
RequestsIdempotent ==
  \A b \in Builds : \A v, x \in DOMAIN code[b] : code[b][v].request = code[b][x].request => v = x

\* Every edit starts from an earlier, published version of the same plan: that is what the page
\* shows as its previous source, and versions of one plan are current together.
LineageSound ==
  \A b \in Builds : \A v \in DOMAIN Page(b) :
    LET base == Page(b)[v].previous IN
    base # 0 => /\ base < v /\ code[b][base].status = "passed"
                /\ code[b][base].plan = code[b][v].plan /\ Page(b)[base].current = Page(b)[v].current

\* No version spends more than its attempts, retries and takeovers included.
AttemptsBounded == \A b \in Builds : \A v \in DOMAIN code[b] : code[b][v].attempts <= MaxAttempts

\* What one build's plans and versions promise, however accepts, solves, revisions, requests,
\* repeats, retries and takeovers interleave.
DesignsSound == AttemptsBounded /\ OneDecisionPerSpec /\ OneActiveVersion /\ RequestsIdempotent /\ LineageSound

\* A late worker changes nothing that is not its own: a published version stays as it is ("Older
\* artifact versions remain immutable"), and a running one turns failed only when its own lease
\* holder gives up, or when it went stale with its attempts spent.
OthersUntouched ==
  \A b \in Builds : \A v \in DOMAIN code[b] :
    /\ code[b][v].status = "passed" => code'[b][v] = code[b][v]
    /\ code[b][v].status = "running" /\ code'[b][v].status = "failed" =>
         \/ Exhausted(code[b][v])
         \/ \E w \in Workers : work[w].pc = "failing" /\ work[w].lease = code[b][v].lease
LateWorkersHarmless == [][OthersUntouched]_vars

\* Every requested version ends passed or failed: no crash or lost lock leaves one pending or
\* running for ever.
JobsFinish == []<>(\A b \in Builds : ~Compiling(b))
=============================================================================
