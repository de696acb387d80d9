# Albus Forge: a TLA+ model of the platform's protocols

Albus Forge turns a question into a device: a conversation becomes a spec, the spec a plan of real
parts, the plan compiled firmware, and the finished device sends telemetry and camera images back.
The parts of it that a unit test reaches badly are the ones this project models: several processes
(browser, gateway instances, intake, compile jobs, cloudlink, the hourly maintenance sweep, a device
that loses power) that share PostgreSQL rows, advisory locks and a bucket, and that time out, retry,
crash and answer late.

## 1. The system

| Part (source) | State it keeps | Operations | Interacts with |
|---|---|---|---|
| `apps/gateway`: chat and builds (`chat-store.ts`, `build-routes.ts`, `intake.ts`) | `builds`, `build_messages`; per instance a map of running turns and of recovery checks | create a build, post a message, list with recovery of a lost turn, schedule turns | calls intake over HTTP with deadline and one retry |
| `apps/intake` (`handler.ts`, `decide.ts`, `turn.ts`) | `specs`, assistant messages; a session advisory lock per build | answer the newest message until nothing is left, decide questions and settling | the model provider; the same tables as the gateway |
| `apps/gateway`: event stream, fleet and history reads (`sse.ts`, `telemetry-read.ts`) | one lease per stream | poll from a cursor, reauthorize; read windows and pages | the tables others write |
| `apps/gateway`: plans and firmware (`build-plan-store.ts`, `firmware-routes.ts`) | `plans`, `code_bundles` | solve, accept, request code, retry | matcher (in process); codegen through rows |
| `apps/codegen` (`job.ts`, `artifacts.ts`, `compiler.ts`) | a session advisory lock, leases in `code_bundles`, artifacts in the bucket | claim, check, compile, upload, publish, fail | the same rows and bucket |
| `apps/cloudlink`: observations (`observations.ts`, `admission.ts`) | `observation_receipts`, `_images`, `_usage`, presence; in-memory admission slots | reserve, store object, finalize, reply | bucket through `packages/storage`, sweep |
| `apps/observation-maintain` (`maintain.ts`) | `observation_deletion_intents`, leases on receipts | settle lost reservations, expire, delete media, scan orphans | the same rows and bucket |
| `apps/cloudlink`: telemetry (`routes.ts`) | packets, readings, latest, usage, presence | accept, replay or refuse a packet | devices, gateway reads |
| `apps/gateway`: accounts (`auth-store.ts`, `session.ts`, `authorized-write.ts`) | codes, sessions, families, memberships | issue and verify codes, switch tenant, revoke, fence writes | every route of the gateway |
| `apps/gateway`: provisioning (`device-provisioning-store.ts`) | devices, credentials, handoffs | claim, download, reissue, revoke | cloudlink checks the credential; the device carries it |
| `firmware/esp32s3-camera` (`observation_spool.c`, `observation_owner.c`, `observation_policy.c`, `camera_runtime.c`) | files on the card: spool, owner marker, quarantine | capture, scan and evict, upload, act on the reply | cloudlink |
| `apps/ask`, `packages/llm` | conversations, usage metering | answer questions under a ceiling | gateway, provider |
| `apps/matcher` | none | solve a spec against the registry | called by the gateway |
| `apps/web` | browser state, cookies | pages, server actions, event stream | gateway |
| `packages/db`, `packages/schema`, `packages/storage` | schema, pool, object store client | transactions, migrations, partitions | everything |
| `registry`, `infra`, `docker`, `.github`, `spikes`, `hardware` | data and configuration | | |

What is hard, and where it bites, is listed line by line under `hazards` in `PROJECT.json`. In short:

* **writes that no transaction spans**: an object is created or deleted between two transactions, and
  a storage worker killed by its deadline may still have its call applied later;
* **ownership that ends unnoticed**: advisory locks live on connections the server can drop, leases
  lapse while their owner is still working;
* **late effects**: a COMMIT whose reply is lost, a call that is retried while the first one runs;
* **messages that arrive while somebody is already answering**: who makes sure they get a turn?
* **the lifecycle of a device or account in the middle of a request**: credentials replaced,
  capability disabled, device deleted, session revoked;
* **limits**: quotas, attempts, rounds, passes.

## 2. The modules

Each component has one module with its state, one action per transaction or external step, and its
properties at the end; `MC*.tla` names the model values and symmetry, and a `.cfg` gives one instance.
`*_proofs.tla` holds theorems. A definition named `X_Something` before `X` is a faulty variant of `X`,
used to show that a property notices the fault; no specification refers to it.

**`Observations`** models the image pipeline of one device: `observations.ts` (the upload handler),
`maintain.ts` (the sweep), `packages/storage` (the bucket between them) and the lifecycle events of a
device. `receipt`, `image`, `intent` and the usage counters are the tables; `up` holds one record per
request with its program counter; `sweep` is the maintenance job; the bucket keeps one object per
observation and the calls that were sent but not applied yet. Every transaction locks the device row
and is one action. A storage call is three: sent, applied, answered. A worker killed by its deadline
leaves the sent call behind, which may still be applied. Time appears as the comparisons the code
makes (lease live, capture within its window, intent older than the grace period), each changed by an
action of its own, so no two clocks are assumed to agree. The byte quota is the same test as the
count quota and is folded into it; page cursors, `LIMIT` and `SKIP LOCKED` only choose which row is
next, which the model leaves open. **`Receiver`** is what a camera may rely on, and what
`Observations` implements: an observation is taken at most once, stays as taken until it is retired,
and never comes back.

**`ObservationReads`** extends it with a viewer of the gallery: the content route of
`observation-read.ts`. `Ask` is the first snapshot (session family, membership, source and row, in one
repeatable-read transaction), `Fetch` the object read by key and generation outside any transaction,
`Recheck` the second snapshot with the comparison of generation and digest, and `Send` the answer; every
step of uploads, sweep, bucket and lifecycle, and every change of the viewer's session, may come between
two of them, `Recheck` and `Send` included. The histories `withheld` and `entitled` remember whether the
viewer could not see the picture at some moment since the request began, and could at some moment since
the bytes were read; no guard reads them. What the code grants is exactly that window: a session that
ends after `Recheck` does not stop bytes already cleared (`SentRightly` says no more). 401, 403 and 404
are one answer, because the page shows one text for them.

**`Camera`** is the other end: the capture, upload and Wi-Fi tasks of the camera board around the
spool on its SD card (`observation_spool.c`, `observation_owner.c`, `observation_policy.c`,
`camera_runtime.c`), with power that fails inside every file operation, cards that are swapped, and
answers that are lost. Its service is the abstract `Receiver`.

**`DeviceTelemetry`** follows a reading from flash to table: claim, download, replacement and
revocation of the credential (`device-provisioning-store.ts`), the installer with its `.used` marker
(`firmware/tools/install.py`), the upload loops of the sensor board (`hsx_sdk.c`) and of the camera
board (`telemetry_task`), with NVS, power loss and failing writes, and cloudlink's ingest handler
(`routes.ts`). `board`, chosen at the start, says which loop runs. Requests the device has given up
on stay in `stray` and may be handled at any later time. A packet carries one reading of one channel;
replies that make the firmware do the same are one (503 for every failed or refused attempt to be
retried).

**`Firmware`** models plans and code versions: `build-plan-store.ts` (solve, accept),
`firmware-routes.ts` (request code, retry, pages, download) and the compile job `job.ts` with its
artifacts. The gateway's transactions lock the build row and are single actions. A worker holds its
advisory lock on a connection of its own, which the server may drop before the worker notices; claims,
failures and uploads do not go through that connection. Failures: the lock session is lost, a worker
dies, a COMMIT is applied but its reply lost, the lease grows stale. What the solver returns
(`Solutions`) and what the compiler says are inputs. **`Compiler`** opens one compile of one worker:
`compileProfile` and `command` of `compiler.ts` and the uploads of `job.ts`, in IDF and in Docker mode,
with children whose pipes stay open, a deadline, a signal from the lost lock, and a container the kill
of its client does not reach. The Docker daemon is external: a container it creates after the client
was killed and after the cleanup's `docker rm` stays created and never runs. A failed removal of the
workspace leaves it and fails the job. Object keys are new for each lease, so a late upload meets no
other worker's object. **`Codegen`** has the two side by side, one at work at a time.

**`Registry`**, **`Matcher`** and **`Planner`** are the way from a part's definition to a device.
`Registry` states the checks of the parts folder (`part.ts`, `rules.ts`, `power.ts`, `semver.ts`);
`Matcher` is the search with its step budget, constraints, power budget and ranking, next to a
definition of what a plan is; `Planner` puts them into the life of a registry: commits, load jobs that
stop between their two transactions, solving and accepting (`build-plan-store.ts`), the compiler's
candidate (`candidate.ts`) and the firmware admitted for a device (`provisioning-authority.ts`).

**`IntakeTurns`** models one build's conversation: posting (`chat-store.ts`), the gateway's scheduler
with one turn at a time per instance, coalescing, one retry and a deadline (`intake.ts`), recovery
when the transcript is fetched (`build-routes.ts`), intake's handler with its session lock, passes and
budget (`handler.ts`), and the decision about rounds, questions and settling (`decide.ts`). A call
that runs out of budget destroys its connection: the server ends the session later, and a COMMIT it
had received may still apply. The model's answers are reduced to what `decide.ts` tests (are there
known capabilities, is there a question). **`Events`** is the browser's side of it: sends with a client
message id, the event stream the gateway serves by polling from a cursor (`sse.ts`), reconnects,
refreshes and the watchdog that chases a reply (`useEventStream.ts`, `conversation.ts`).

**`ModelCalls`** covers every path on which the product pays for a language model: sensor questions
and device chat of the ask service, reached through the gateway's proxies, and intake's structured
calls under a build's token ceiling, with their allowances, ledgers, tool loops, retries, metering and
deadlines.

**`History`**, **`Fleet`**, **`Connections`** and **`AppRole`** share the run `monitoring`, composed by
`Monitoring`. `History` is what the cloud keeps of a channel: raw readings in daily partitions, rollups
recomputed by a worker, retention, and the reads of the gateway and of the ask service. `Fleet` is what
the portal tells about devices while they upload: statuses, set-up, pages of devices and of pictures.
`Connections` is the pool and the fenced handles (`createClientDb`, `managedTransaction`,
`withSession`, the handle of an intake turn) with statements that are cancelled, time out or are
abandoned. `AppRole` is the migration job with the role the services log in with (`migrate.ts`).
In `Fleet` a page is one statement at one clock, `CURRENT_TIMESTAMP` and `statement_timestamp` agree
for a page, `Grace` abstracts the intervals after which a source is late, and which capabilities a
device has is fixed; the search by name is left out. In `Connections` the wire is first-in-first-out, so
draining before ROLLBACK is not what safety rests on; it bounds the wait. In `AppRole` rights granted
after the last check are excused, and a NOLOGIN that itself fails leaves the role as it was.

**`Accounts`** models codes and attempts, sign-in with the claim of anonymous builds and calls,
sign-out, tenant switching and the write lease (`auth-store.ts`, `authorized-write.ts`), the owner a
build request resolves before it writes (`build-routes.ts`, `chat-store.ts`) and the meter that
records model calls (`packages/llm/src/meter.ts`). Statements of a claim and of the meter are separate
steps under READ COMMITTED with explicit row locks, because that is where they interleave. A session
family is a single session: nothing in the source creates a child session. Changes of membership are
made by operators outside the code and are marked external. **`EmailSignIn`** is the card in the
browser, its server actions, the mails and the rate limits: the tabs of one browser share cookies and
address, `issueCode` and `verifyCode` are single steps (their statements are in `Accounts`), a failed
mail leaves the old code replaced, mails of two requests may arrive in either order (so "use the most
recent email" can point at a replaced code, the exception `SentIsUsable` makes), the answer to a
sign-out deletes whatever session cookie is there, and a lost answer to a verification leaves a live
session nobody can reach until it expires. **`PortalCalls`** is for whom the portal's server speaks
when it calls the gateway: identity token and its cache, headers, cookies there and back, and what the
gateway makes of them. Only the auth routes resolve the visitor's address; the metadata server, the
load balancer and `verifyIdToken` are external; a call takes at most `Patience`; an unreadable expiry
counts as a trouble of the token; answers are passed on at once; paths always resolve to the gateway,
so `gatewayUrl`'s refusal, redirects and configuration errors are left out, and the clocks of the two
services agree (`Skew = 0` in the run). Cookies are name and value pairs; a session or an anonymous
owner token is whole or torn.

**`Workspace`**, **`DevicePage`**, **`RuleCard`** and **`LiveView`** are the state machines of the web
portal, composed by `Portal`: the tabs of a browser that share a session while its workspace is
switched, the device's name, the rules card, and the live dashboard and fleet tile. The
services that store rules and publish readings are not in the repository and are modelled from their
clients; the three live components are not mounted by a page yet. Of rules without a version nothing
is claimed (`NewestShown` speaks of versions); a confirmation may be sent again after a lost answer; a
tab that mounts between the begin and the commit of a switch is put right by its next focus only;
snapshots without `status_at` or `value_at` are not modelled.

## 3. The runs

All bounds are constants. A bound is chosen as the smallest at which every action fires and the case
the property is about occurs; for each property a faulty variant of the code's rule is kept that
violates it within the same bounds.

| Run | Instance | Checks | What it shows |
|---|---|---|---|
| `observations` | 2 observations, 2 uploads, 2 contents, quota 1, 2 days, 2 lifecycle events, 1 fault, in four scenes that use part of these each | `MediaSafe`, `QuotaExact`, `ReadsHonest`, `AcceptedUnderItsCredential`, `ImplementsReceiver`, `NothingLeftBehind` | Two uploads of one observation, equal or different, race the sweep, late storage calls and one lifecycle event, fault or midnight; two uploads compete for a daily quota of one across a midnight; one upload runs to its end under two lifecycle events and a fault; a viewer asks for the picture while two different uploads, the sweep, late storage calls and a device deletion, a fault or a change of the viewer's session go on. Acknowledged media stays intact, the quota is exact, nothing is accepted under a replaced credential, the pipeline implements Receiver, what the gallery tells its viewer is true, and nothing unsettled or unreferenced stays behind. |
| `firmware` | 1 build, 2 specs, 2 evidence revisions, 2 plans, 2 requests, 2 versions of 2 attempts, 2 workers, 4 events; besides 1 compile with 3 objects | `PublishedWhole`, `DesignsSound`, `LateWorkersHarmless`, `WorkEnds` | One build with two spec and evidence revisions, two plans per solution, two requests, two versions of two attempts and two compile workers with lost lock sessions, lost COMMIT replies, crashes, stale leases, retries and takeovers, any four of these events: published versions can be downloaded whole, late workers touch nothing, the build's plans and versions stay consistent, and with fair workers every requested version ends passed or failed. Besides, one compile in either mode, with three objects, a lost lock, deadlines and failures at every step: it settles, leaves nothing running and publishes only what it stored whole. |
| `turns` | 2 messages, 2 gateways, 2 calls of 2 passes, 1 round, 1 fault, a clock that may step, in three scenes | `TurnsSound`, `SpecsInSequence`, `NoQuestionLeft` | Two gateways and two intake calls answer two messages while one call is lost, times out, breaks or runs out of budget, late commits included; the same without faults under a clock that steps and with nobody refetching; and one gateway with a slow, transiently failing provider, every kind of answer and an owner who refetches: one reply per message, in order, specs in sequence, no leaked lock, and no question left without a turn. |
| `model_calls` | 2 calls, 2 actors, allowances of 1 and 2, 2 tool rounds, ceiling 2, 1 fault | `AllowanceHeld`, `SpendSound`, `CallsEnd` | Two requests of two users, among sensor questions, chat turns and intake turns, with a repeated delivery, a failing provider, a lost insert, a member leaving or a sign-up in between: allowances, ledgers and the build's ceiling stay true to what was paid and every call ends. |
| `events` | 2 messages, 2 sends, 1 stream, 1 fault, a lookback of 1 | `TranscriptInOrder`, `SentOnce`, `StreamsSound`, `NeverSilentlyBehind` | A page that sends two messages and follows its build through a polled event stream, refreshes and a watchdog, with one lost answer, lost turn, cut stream, failed read, hidden tab or lost session: the transcript is in order, no text is stored twice, nothing later than the loss of access reaches the page, and the page never stays behind in silence. |
| `monitoring` | 2 readings over 4 days of 2 hours; 3 devices; 1 connection with 2 users; 2 migration runs, 2 grants | `KeptSound`, `RetentionCatchesUp`, `FleetSound`, `DatabaseSafe` | Two readings, on time or late, over four days with uploads, the rollup worker, partition maintenance and a history read as interleaved transactions, one of which may roll back: no rollup loses a reading, nothing is dropped before it is rolled up, no answer is silently incomplete, and retention catches up. Three devices that are claimed, upload packets and pictures and are revoked while somebody follows the pages of the fleet or of the pictures, or reads a device page. Users of one database connection that fail, time out or give up. And two runs of the migration job against somebody who grants the role more rights. |
| `planner` | histories of 2 commits, 8 requests, 7 parts, 100 search steps | `OfferedStaysAcceptable`, `HardwareVouched`, `AnswersExact` | A hundred histories of two registry commits against eight requests, the load job running or stopping half way at any time: the search agrees with the definition of a plan, a refusal names a minimal conflict, offers stay acceptable, validation vouches for what the matcher checks, and the provisioned interval keeps the accepted budget. |
| `planner_freenove` | the shipped Freenove profile and its parts | `ReviewedBusCompiles` (violated) | The shipped Freenove catalogue: the matcher stores a port's pins in text order, the compiler's allow-list compares them in SDA-first order, so no accepted Freenove plan can be compiled. |
| `portal` | 2 tabs, 2 accounts, 2 workspaces, 2 edits, 1 rule of 3 versions, 2 channels of 3 samples | `ActsWhereShown`, `NoNameLost`, `ShownIsCurrent` | The web portal's client state machines against a gateway other tabs and people use at the same time: two tabs of one browser whose session is switched, signed out and in; a device name edited in two tabs with lost answers and refreshes in between; the rules card with lost, refused and late writes; the live dashboard and fleet tile over a breaking stream. Each part is explored with the others at rest. |
| `accounts` | 1 user, 2 tenants, 1 cookie, 1 build, 1 code of 1 attempt, 2 requests; 2 tabs; 2 visits, 2 tokens | `AccountsSound`, `RequestsFenced`, `SignInHonest`, `SpeaksForVisitor` | A sign-in that claims an anonymous build races another request (a second guess, creating, posting, metering, writing, signing out) while memberships and expiry change: the rows stay sound and no guess, message or write gets through that is no longer allowed. And two tabs sign in by emailed code while answers, mails and limits go wrong: what the cards say is true and the anonymous build is never out of reach. And two visits call the gateway through the portal or directly while identity tokens age, are refreshed and remembered: limits are charged to the visitor who asked and the gateway acts on the credentials the browser holds. |
| `boards` | both boards, 2 credentials, 3 samples, 2 clock readings; besides 4 frames, 2 cards, a spool of 2, 1 fault | `TablesTruthful`, `StoredOnce`, `CardSound`, `SequencesKept`, `NothingLostSilently`, `PicturesDrain` | Readings: either board loses power, replies and NVS writes while its credential is replaced, downloaded and flashed; the sensor board never reuses a taken sequence, acknowledged packets are stored, nothing is counted twice and the latest reading is the newest. Pictures: the camera's tasks around its SD card, with a power loss, a swapped card, a failing call or a lost reply at any point; limits hold, foreign cards are left alone, no record disappears without a reason and the spool drains. |
| `telemetry_reboot` | 2 credentials, 2 samples | `NoSequenceConflict` (violated) | A camera board that restarts after an acknowledged packet numbers the next one from seq_start again and is refused with 409. |

### Findings

The runs marked *violated* each show one place where the code does not do what the repository says:

* `planner_freenove`, `apps/codegen/src/candidate.ts:208`: selectNumericCandidate requires edge.resources.join(",") to equal "GPIO47,GPIO21" (candidate.ts:113), but the matcher stores every edge with its resources sorted as text (src/apps/matcher/src/constraints.ts:112), which is GPIO21,GPIO47, so every plan solved for the Freenove profile is unsupported. src/apps/codegen/src/freenove-candidate.test.ts:16 says "compiles one or more I2C sensors on the reviewed GPIO47/GPIO21 bus", with wiring written by hand in SDA-first order.
* `telemetry_reboot`, `firmware/esp32s3-camera/main/camera_runtime.c:454`: telemetry_state_clear erases the whole telemetry_state key after an acknowledgment, next_seq with it, so telemetry_state_read starts again at seq_start after a restart; the next packet takes a sequence that is already stored, cloudlink answers 409 and the task pauses all uploads (AUTH_PAUSED). src/docs/TELEMETRY-INGEST.md:41 says "`seq` is a nonnegative JavaScript-safe integer, persisted across firmware reboots." and the sensor board (hsx_sdk.c:102-104) does keep next_seq.

More places were met while modelling where a document or comment and the code differ and no run is kept:

* `apps/intake/src/decide.ts:25` allows four clarification rounds; `docs/ASK-TO-ENCLOSURE.md:81` and
  `docs/ARCHITECTURE.md:534` say two. `TurnsSound` is stated for the code's constant.
* `decide.ts:174` says a settled spec stays settled; `settled` is recomputed from the merged
  capabilities, so an edit that drops the last known one lets the next turn ask again.
* ADR 0009 says the claim moves calls together with their builds; the two updates of
  `auth-store.ts:217` have separate snapshots, so a build created between them keeps its cookie while
  its call moves. `AccountsSound` states the direction that does hold.
* `docs/PORTAL.md:116` against `build-routes.ts:199`: POST /v1/builds resolves its owner before its
  transaction, so a build can be stored under a cookie that was claimed meanwhile.
* `device-converse.ts:84` and `answer.ts:60` speak of the answer at the deadline; a 503 leaves the
  request's row reserved. `schema/device-converse.ts:65` counts tool calls that ran; `tools.ts:106`
  counts a call before it is looked up.
* An answer that commits after the reply to a later question can lie further behind a stream's cursor
  than `lookbackMs` (5 s): attempts of 50 + 5 + 50 s against a turn considered in progress for 60 s.
  The property about streams excuses it by name (`Overtaken`).
* `converse-store.ts` says older windows return no rows; partitions whose drop waits for pending dirty
  hours still do.
* `part.ts:50` says a successor stops the matcher's selection of a deprecated part, but the load never
  updates a stored row; `load.ts:64` ignores a compatibility row that differs from the stored one;
  `productionPlanCatalogue` omits `stemma-i2c-ph-4pin-v1`, so soil designs with P-006 are never
  feasible; the LIVE set of `rules.ts` includes drafts, the matcher picks active parts only; a 25th
  active row makes planning unavailable; the matcher's `invalid_input` is answered as infeasible.

Deadlock is checked in the run `observations`. In the others a system may rest: a bounded number of
versions, messages, samples or days is used up, and a part that is not at work stands still.
Symmetry is used in `accounts` only, whose properties are invariants and action properties that treat
the two requests alike.

### Fairness

* `Observations` (scene `live`): requests, the bucket and the sweep take their next step if they can
  (weak fairness), because every request and storage call has a deadline and the sweep is a scheduled
  job; time passes. Faults, lifecycle events and new uploads are never forced.
* `Firmware` and `Compiler`: every worker keeps working and time passes: the job is dispatched after
  each request and by a schedule, each of its steps has a deadline, children end or are killed.
* `IntakeTurns`: in the scene `handover` the gateway sends and receives and intake's calls proceed;
  there is no fault and nobody refetches, so handing over a message that arrived during a turn must
  work by itself. In `recovery` a turn can be lost, and the code's remedy is the recovery check when the
  owner's browser fetches the transcript; so the browser fetches and the age limit of the check passes.
* `ModelCalls`: a call that has started takes its next step; its deadlines are such steps.
* `Events`: what goes on without the person: timers fire, sockets close, requests are answered or time
  out, turns end.
* `Monitoring`: strong fairness for the rollup worker and the partition job, because both are scheduled
  again and again and Postgres grants a lock in the order it was asked for, so a job that can get its
  lock infinitely often gets it; weak fairness for the transactions that hold one.
* `Camera`: power returns, the radio associates, the owner uses an open hotspot, the tasks and the
  service keep running. Captures and days need not go on.

Posting, signing in, retrying, capturing or any fault is never assumed to happen.

## 4. What is proved

The theorems hold for all values of the constants that satisfy the named assumptions of their
modules. These say that bounds are natural numbers, that a place holder is not a member of the set it
stands beside, that something counted is finite (messages, frames, sources of a device), that what the solver returns
is a sequence, and what the
code's own limits say (a spool, an allowance or a page admits at least one; minutes are retained for
less long than raw readings). TLC evaluates them in every run. The proofs use finite instances nowhere:
sets of requests, devices, readings, cards and tabs are arbitrary.

Most properties are not inductive. What makes them so is, in each module, the same idea: an actor that
waits between two steps has read something, and the invariant says which part of what it knows the
others cannot have changed meanwhile, and which lock, version or comparison is the reason.

**`Observations_proofs`** (the images of one device)

* `MediaIsSafe`, from `StoredMediaSafe`, `AcknowledgedMediaSafe` and `DeletionNeverAlarms`: a stored
  image has its object, with the content that was acknowledged, and the sweep's deletion never meets a
  referenced object. `Media` strengthens them with what every actor in flight knows: `RowInv` (receipt,
  image and intent rows match), `QueueInv` (every object and every deletion that is queued or sent
  belongs to an observation that can no longer become stored), `RequestInv` (what a request at each
  program counter holds) and `SweepInv` (what the sweep read is still so, or harmless). An observation's
  life only moves onward (`Onward`): once closed nothing reopens it, so a deletion that was justified
  when it was sent is justified when it is applied. `TypeCorrect` has the types under it.
* `TombstonesStay`, `CredentialFencesAcceptance`: action properties; the second from `LeaseInv`, that
  whoever holds a lease presents the credential recorded with it.
* `ReceiverImplemented`: the handlers, the sweep and the storage faults refine `Receiver`. Initial states
  map to initial states and each action is a step of `Receiver` or a stutter: `RowEffect` lists what a
  step may do to a receipt, and the gallery of the abstract receiver is a function of the receipts.
* `ViewersAreToldTheTruth`: `ReadsHonest` of `ObservationReads`. `ReadInv` says what a request relies on
  at each step: the row it found is as it was, with its generation, or expired, or gone with its device,
  and none of these is ever undone (`NextLasting`, `GenerationLasts`); so a missing object or a failed
  second snapshot means that the viewer could not see the picture, and the comparison never fails.
  `StoredMediaIntact` ties the object to the row, `RequestInv` the row to every acknowledged upload, and
  `NoLateAck` says that nothing is acknowledged for a deleted device.
* `QuotaIsExact`: a day's counter is the cardinality of the set of receipts counted on it, so each step
  is one element more, one less or the same set; the finite-set theorems do the counting.

**`Boards_proofs`**: the readings of `DeviceTelemetry` and the pictures of `Camera`.

* `SequencesCorrect`: a device with the sensor board's firmware is never refused for a taken sequence,
  and no credential is written twice. Three layers: `FileInv` (a credential is in at most one file),
  `UseInv` (until a device is flashed with the current credential, `last_seq` is below the sequence its
  configuration starts at) and `SequenceInv` (for the device that has it, `last_seq` is below its next
  sequence, and its pending packet is the only one under its sequence). On the camera board the middle
  part fails at the acknowledgment, which is what the run `telemetry_reboot` shows.
* `TablesCorrect` (`LatestCorrect`, `NothingAcknowledgedIsLost`) and `NothingStoredTwice`, on both
  boards. `SampleInv` says which packets carry a sample and under which sequence, `CountInv` that usage
  counts exactly the samples stored.
* `CardIsSound`, `NoRecordIsLostSilently`: evicting by age is counting ranks, because time and id order
  the records strictly; from that, `scan_limits` evicts exactly the excess for any directory and limits.
  Then `OursKept`, `TheirsKept`, `OnOneCard` and `CameraKnown` follow the files through power loss inside
  every file operation and through swapped cards.

**`Accounts_proofs`** (`AccountsCorrect`, `RequestsAreFenced`): the invariant is what each waiting
request still knows: the code it proved (`Proven`), the builds it found to claim (`Found`), the session
and owner it holds (`Held`). `Apart` says what the row locks keep apart: two claims for one address, two
moves of one build, and a move and a meter's insert for the same build.

`PortalSpeaksTruly` is about `PortalCalls`. The header a visit carries has each credential of the browser's
store at most once (`Carries`), so reading the first occurrence, filtering and joining give back the store's
values. A token on its way expires later than `Margin` after its call began (`CarriesToken`), because the
cache takes a readable token to expire when it does (`CacheSound`). So verification can fail only for a
token whose expiry cannot be read, and the portal's address is charged for no other reason. The argument
uses what `CallsAssumption` names: one trusted proxy, a margin shorter than a token's life, and a call
no longer than the margin with the tolerance of verification and the minute of rounding.

`SignInIsHonest` is about `EmailSignIn`. Each property is false one step before it shows: a card believes an
answer given earlier, while another tab signs out or another request replaces the code. So the
invariant speaks of calls under way. A call in its mail has a code issued for its address; one answered
"ok" has that code in the inbox; a session opened by a verification has no other mention, in the cookies or in
any other call, until the answer that brings it arrives (`FreshSession`), so nobody can have revoked it. `WhySpent`
gives each spent code its reason. For the waits, the hits of a window stand in the order of time
(`InWindow`): those that have left it are the first ones (`ExpiredFirst`), and in a full window the oldest
leaves room for one when the wait ends (`WaitOfFull`).

**`ModelCalls_proofs`** (`AllowancesHold`, `SpendIsRecorded`): per call, what its usage and its ledger row
have in common at each program counter (`Sound`); between calls, that of the deliveries of one request
at most one has come past its reservation (`Linked`, `OneCharged`). The ceiling argument needs the turns
of a build one after another (`TurnsInv`); allowances are cardinalities of sets of ledger rows
(`CountsInv`), whose finiteness is part of the invariant.

**`Monitoring_proofs`**

* `DatabaseIsSafe`: for the pool, who has a connection and what may still be sent on it (`ConnInv`); for
  the role, that the rights approved by a migration run are those granted minus those taken away while
  it was inside its lock (`RoleInv`).
* `HistoryIsKept`: raw readings are kept from a boundary between days on, a rollup holds only what was
  accepted, and a bucket whose rollup is behind is marked dirty (`StoreInv`); which lock keeps upload,
  rollup and maintenance apart; what a reader's snapshot may miss. It needs the arithmetic of minutes,
  hours and days, which are lemmas of their own.
* `FleetIsTruthful`: following pages to the end misses nothing that stayed and repeats nothing. The
  walk's invariant (`WalkInv`) speaks of the greatest row not yet shown, so that a finite set of numbers
  has a greatest member has to be proved; it is, by a minimal counterexample, because the library's
  induction theorems take an operator.

**`IntakeTurns_proofs`** (`TurnsTyped`, `TurnsCorrect`, `VersionsInSequence`): `CallInv` is what a call
knows from its read to its write. It holds the lock, the message it answers has no reply, the version it
decides on is the newest and the rounds it counted are the questions asked. All of it still holds for a
call whose connection was destroyed with a COMMIT on the way, because the lock is held until the server
ends that session; and a connection that kept the lock after the unlock has no budget left and is
destroyed, never pooled. `ChatInv` adds that messages lie at least two
microseconds apart and a reply one after its message, so no reply falls behind a later question.

**`Codegen_proofs`**

* `PublishedIsWhole`, `LateWorkersChangeNothing`: a lease is handed out once (`LeasesApart`), and what lies
  under it says how far its worker came (`WorkerInv`: nothing before the upload, all files after it). A
  published version refers to one lease, with all files of exactly that version and plan under it, and
  the worker that has that lease can only fail or end (`PassedInv`); so whoever comes back late finds a
  row that is not its own. For the compile, only the child the worker waits for can be open (`Awaited`),
  after a confirmed `docker rm` nobody is left who could start the container (`ContainerInv`), and the
  objects stored are the first ones (`StoredInv`).
* `PlansAndVersionsSound`: `BasesPublished` strengthens what the pages show of edits to all versions, on
  the page or not. `RowMoves` and `WorkMoves` say once what a step may do to a row and to a worker; each
  action is then shown to do that.

**`Portal_proofs`**

* `NamesKept`: whatever an editor, a request or a page under way says of a version is what that version
  was (`Knows`).
* `ActsAreShown`: the newest identity check of a tab was sent with the cookie that is still there, or the
  tab admits nothing (`TabInv`); a build carries the workspace its tab showed.
* `RulesNeverGoBack`: what the card was told of a rule is in the snapshot, or in a response it keeps, or
  is the creation (`ToldInv`), and a response under way is newer than everything told, but for what a
  snapshot told since (`AnswerInv`). Without the second, a late response could replace a newer one.
* `PortalIsCurrent` adds the live views, by `LiveInv`: while the stream is open and no
  other refresh is due, what the service has is shown, on its way, or in the snapshot already read
  (`Covered`, `RefreshDue`). Nothing is shown that the service does not have
  (`DashboardSound`, `TileSound`), and a view gives up nothing the service would still show, whatever
  is merged into it (`DashboardGrows`, `TileGrows`). For the series this is `KeptIsEnough`: the points
  that a window and a cap keep of a set are decided by those points alone, so dropping older ones
  earlier, or appending late ones in any order, changes nothing. `OneByOne` is the same fact for
  `appendPoint`'s loop.
* The conversation (`Events`), by one invariant of seven parts (`EventsInv`), under assumptions that only
  say which constants are natural numbers and that connections are finitely many:
  * `TextsSentOnce`: the k-th question has the text k and its own id (`LogInv`), and a text under way,
    or given back to the person, is the one stored under its id or the next to be stored (`PostInv`).
    Without the second, a retry under a known id could carry another text.
  * `ShownInOrder`: the merge sorts by milliseconds only, so equal ones keep the order in which they
    came. `BeforeIsOrder` shows that this is the database's order as long as no reply is shown or
    arrives without its question; `MergedInOrder`, by counting ranks, that the merge is then the sorted
    union. That replies never come first is `UpTo`: every question up to the cursor of the stream the
    page follows is shown or on its way (`FollowInv`), and up to the browser's last event id it is shown
    (`PageInv`), which is why a reconnection may skip what lies before it.
  * `StreamsStaySound`: once the build is lost, what is shown, on its way, or kept of a half answered
    read was stored before (`AccessInv`); every step is one of six kinds of change (`StepCases`), and
    those that could bring something newer need the credentials. The registry counts open streams.

What the proofs changed in the models: three `CASE` expressions had overlapping guards, of which TLC
takes the first and the definition does not say which (`Continued`, `Fleet`'s statuses,
`EmailSignIn`); they are disjoint now. `Connections`, `AppRole`, `Fleet` and `Camera` named no
assumption on their constants. `Fleet` started with images of devices that have no camera, which no
invariant could exclude. Some nested updates are written without `@`, which the prover does not expand. `LiveView` merges
a snapshot without a fold, point sets and channels at once; TLC found the two versions equal in every
reachable state before the first was given up. `Events` orders its
transcript by rank instead of a library sort, and keeps the optimistic copies beside it. `Solve` in
`Firmware` stored a plan twice if a solution named it twice; it stores it once, as the code's loop does.

## 5. What is only model-checked, and what is left out

* Liveness: fairness, leads-to and ENABLED are outside what the proof system handles.
* What a recursive definition computes for every input: the search of `Matcher` and what
  `Planner` says of it (`OfferedStaysAcceptable`, `HardwareVouched`, `AnswersExact`).
* Left out of the modelled components: texts (prompts, replies, mail), request parsing and size limits,
  logging, encryption of the handoff, drivers, cookie and header syntax beyond name and value.
* `apps/cloudlink`'s admission control is two counters with a release that a closure makes idempotent;
  its refusals are the 503 answers of `DeviceTelemetry` and `Observations`.
* Sequence numbers, attempts and versions are unbounded naturals up to the named bounds; the code
  refuses them at 2^53 - 1 and 2^31 - 1, far beyond any instance.
* One signer and one claim request id in the run `boards`: a second one only adds refused calls.
* `PROJECT.json` lists every component, with the reason where it is not modelled: start-up,
  configuration and logging, bench tools, infrastructure, the marketplace and example pages, the device
  console's chat box and the validation of the sign-in page's next path keep no protocol state.

## 6. Order of work

Modelled, in this order: `Observations`, `Firmware` and `IntakeTurns`; `Accounts` and `DeviceTelemetry`;
`Camera` against `Receiver`; `ModelCalls` and `Events`; `Registry`, `Matcher` and `Planner`; `History`,
`Fleet`, `Connections` and `AppRole`; the portal's modules; `Compiler`, `EmailSignIn` and `PortalCalls`.
