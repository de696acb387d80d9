---------------------------- MODULE Observations ----------------------------
(***************************************************************************)
(* The image-observation pipeline of one device: concurrent uploads to     *)
(* cloudlink's POST /ingest/v2/devices/:id/observations, the hourly        *)
(* observation-maintain sweep, the object store between them, and the      *)
(* credential and device lifecycle that races with both.                   *)
(*                                                                         *)
(* Every SQL transaction locks the device row (FOR NO KEY UPDATE), so one  *)
(* transaction is one action; object-store calls are split into the send,  *)
(* the moment the store applies them and the reply, because no transaction *)
(* spans them and an abandoned write or delete may still be applied later. *)
(*                                                                         *)
(* Time is abstracted to the comparisons the code makes: a lease is live   *)
(* or lapsed, a capture is inside its 7-day window, outside it, or past    *)
(* its 30-day expiry, an intent or object is older than the orphan grace   *)
(* or not.  Each predicate changes by an action of its own, so no relation *)
(* between the clocks of different hosts is assumed.                       *)
(***************************************************************************)
EXTENDS Naturals, FiniteSets

CONSTANTS Obs,        \* observation ids of the device; an id determines its object key
          Uploads,    \* HTTP requests, each with its own random lease id
          Prints,     \* request fingerprints: metadata, digest, size and dimensions
          NoPrint,    \* no fingerprint
          Worker,     \* the lease of the sweep that holds the advisory lock
          NoOne,      \* SQL NULL in lease_id
          MaxDaily,   \* daily image quota (maxDailyCount; the byte quota is the same test)
          MaxDay,     \* bound: calendar days a behaviour may span
          MaxAccount, \* bound: device lifecycle events (reissue, revoke, capability, delete)
          MaxFaults   \* bound: sweeps that die or storage calls of the sweep that fail

ASSUME ConstantsAssumption ==
  /\ IsFiniteSet(Obs)
  /\ NoPrint \notin Prints
  /\ Worker \notin Uploads /\ NoOne \notin Uploads /\ Worker # NoOne
  /\ MaxDaily \in Nat \ {0}
  /\ MaxDay \in Nat \ {0}
  /\ MaxAccount \in Nat
  /\ MaxFaults \in Nat

VARIABLES
  device,    \* "active" | "revoked" | "deleted"
  token,     \* version of the credential in devices.token_hash
  enabled,   \* the camera capability admits this device's images
  events,    \* lifecycle events so far
  day,       \* today, as in now().toISOString().slice(0, 10)
  age,       \* per observation: "fresh", "old" (captured > 7 days ago), "gone" (expires_at passed)
  receipt,   \* telemetry.observation_receipts
  image,     \* telemetry.observation_images
  intent,    \* telemetry.observation_deletion_intents
  usage,     \* telemetry.observation_usage.accepted_count per day
  presence,  \* telemetry.capability_presence.last_received_at, as a day
  object,    \* the bucket: the live generation of each key
  gens,      \* generations the bucket has handed out per key
  deletes,   \* generation-matched deletes on their way to the bucket
  up,        \* the upload requests
  sweep,     \* the maintenance sweep: phase, rows still to visit, current row,
             \* generations selected with them, object or generation last read
  faults     \* sweeps that died or storage calls of theirs that failed, so far

db == <<receipt, image, intent, usage, presence>>
store == <<object, gens, deletes>>
account == <<device, token, enabled, events>>
clock == <<day, age>>
worker == <<sweep, faults>>
vars == <<account, clock, db, store, up, worker>>

Days == 1..MaxDay
Leases == Uploads \cup {Worker, NoOne}

NoReceipt == [state |-> "none", fp |-> NoPrint, lease |-> NoOne, live |-> FALSE,
              day |-> 0, cred |-> 0, received |-> 0]
NoImage == [row |-> FALSE, gen |-> 0]
NoIntent == [queued |-> FALSE, gen |-> 0, due |-> FALSE]
NoObject == [gen |-> 0, fp |-> NoPrint, aged |-> FALSE]
Idle == [pc |-> "idle", todo |-> {}, at |-> NoOne, sel |-> [o \in Obs |-> 0], seen |-> NoObject]

Init ==
  /\ device = "active" /\ token = 1 /\ enabled = TRUE /\ events = 0
  /\ day = 1 /\ age = [o \in Obs |-> "fresh"]
  /\ receipt = [o \in Obs |-> NoReceipt]
  /\ image = [o \in Obs |-> NoImage]
  /\ intent = [o \in Obs |-> NoIntent]
  /\ usage = [d \in Days |-> 0]
  /\ presence = 0
  /\ object = [o \in Obs |-> NoObject]
  /\ gens = [o \in Obs |-> 0]
  /\ deletes = {}
  /\ up = [u \in Uploads |-> [pc |-> "new", obs |-> NoOne, fp |-> NoPrint, cred |-> 0,
                              day |-> 0, age |-> "fresh", put |-> "none",
                              obj |-> NoObject, resp |-> "none"]]
  /\ sweep = Idle
  /\ faults = 0

(***************************************************************************)
(* Helpers shared by the two writers.                                      *)
(***************************************************************************)

\* authorize(): the presented credential is the device's and the capability admits it.
Authorized(cred) == device = "active" /\ token = cred /\ enabled

\* Mutant: any credential of the device will do.
Allowed_AnyToken(o) == device = "active" /\ enabled

\* allowed(): the sweep re-checks the credential the reservation was made with.
Allowed(o) == device = "active" /\ token = receipt[o].cred /\ enabled

\* Reservations other than o's that hold a place in day d's quota.
ReservedOthers(o, d) ==
  {p \in Obs \ {o} : receipt[p].state = "reserved" /\ receipt[p].day = d}

QuotaOpen(o, d) == usage[d] + Cardinality(ReservedOthers(o, d)) + 1 <= MaxDaily

\* expires_at is 30 days after the capture.
Retained(o) == age[o] # "gone"

\* The finalizing transaction still holds the lease its reservation took.
LeaseHeld(o, holder) ==
  receipt[o].state = "reserved" /\ receipt[o].lease = holder /\ receipt[o].live

\* Mutant: a request crossing midnight finalizes anyway.
SameDay_Any(o) == TRUE

\* The reservation counts against today's quota.
SameDay(o) == receipt[o].day = day

\* lease_id=NULL, lease_until=NULL.
Released(r) == [r EXCEPT !.lease = NoOne, !.live = FALSE]

\* Receipt, usage and presence of an accepted image; obj is what the store returned.
Accept(o, obj) ==
  /\ image' = [image EXCEPT ![o] = [@ EXCEPT !.gen = obj.gen]]
  /\ receipt' = [receipt EXCEPT ![o] = [Released(@) EXCEPT !.state = "stored", !.received = day]]
  /\ usage' = [usage EXCEPT ![receipt[o].day] = @ + 1]
  /\ presence' = IF presence >= day THEN presence ELSE day
  /\ UNCHANGED intent

\* The BEFORE DELETE trigger on observation_images: a known generation wins.
Queued(in, gen) ==
  [queued |-> TRUE, gen |-> IF gen # 0 THEN gen ELSE in.gen,
   due |-> in.due]

\* Mutant: the receipt of a stored image is left as one whose object is missing.
Expire_Failed(o) ==
  /\ receipt' = [receipt EXCEPT ![o] = [Released(@) EXCEPT
                   !.state = IF receipt[o].state = "stored" THEN "failed" ELSE "expired"]]
  /\ image' = [image EXCEPT ![o] = NoImage]
  /\ intent' = [intent EXCEPT ![o] = Queued(@, image[o].gen)]
  /\ UNCHANGED <<usage, presence>>

\* expire(): the receipt stays as a tombstone, the image row goes and its trigger fires.
Expire(o) ==
  /\ receipt' = [receipt EXCEPT ![o] = [Released(@) EXCEPT !.state = "expired"]]
  /\ image' = [image EXCEPT ![o] = NoImage]
  /\ intent' = [intent EXCEPT ![o] = Queued(@, image[o].gen)]
  /\ UNCHANGED <<usage, presence>>

(***************************************************************************)
(* An upload request.                                                      *)
(***************************************************************************)

\* A request ends with a response code; its write may still be on its way.
Ended(r, code) ==
  [pc |-> "done", obs |-> r.obs, fp |-> r.fp, cred |-> 0, day |-> 0, age |-> "fresh", obj |-> NoObject,
   put |-> IF r.put = "sent" THEN "sent" ELSE "none",
   resp |-> IF code \in {200, 201} THEN "acked" ELSE "refused"]
Reply(u, code) == up' = [up EXCEPT ![u] = Ended(@, code)]

\* onRequest authorizes before the body is read; then admitted = now() fixes the day and
\* the age of the capture that the reservation will go by.
Arrive(u, o, f, c) ==
  /\ up[u].pc = "new"
  /\ up' = [up EXCEPT ![u] = [@ EXCEPT !.obs = o, !.fp = f,
                 !.cred = IF Authorized(c) THEN c ELSE 0,
                 !.day = IF Authorized(c) THEN day ELSE 0,
                 !.age = IF Authorized(c) THEN age[o] ELSE "fresh",
                 !.pc = IF Authorized(c) THEN "admitted" ELSE "done",
                 !.resp = IF Authorized(c) THEN "none" ELSE "refused"]]
  /\ UNCHANGED <<account, clock, db, store, worker>>

Tombstone(o, a) == receipt[o].state = "expired" \/ a = "gone"

\* The response the reservation transaction answers with at once, 0 when it reserves.
ReserveAnswer(u) ==
  LET o == up[u].obs
      r == receipt[o]
      prior == r.state # "none"
  IN IF ~Authorized(up[u].cred) THEN 401
     ELSE IF prior /\ r.fp # up[u].fp THEN 409
     ELSE IF prior /\ Tombstone(o, up[u].age) THEN 410
     ELSE IF r.state = "stored" THEN 200
     ELSE IF r.state = "reserved" /\ r.live THEN 503
     ELSE IF up[u].age # "fresh" THEN 422
     ELSE IF ~QuotaOpen(o, up[u].day) THEN 429
     ELSE IF ~prior /\ intent[o].queued THEN 410
     ELSE 0

\* The reservation row: a fresh receipt, or the same receipt with a new lease.
Reservation(r, u) ==
  [r EXCEPT !.state = "reserved", !.lease = u, !.live = TRUE, !.day = up[u].day,
            !.cred = up[u].cred, !.fp = up[u].fp]

\* The reservation transaction rejects, or finds the image stored and replays its receipt.
ReserveReject(u) ==
  /\ up[u].pc = "admitted"
  /\ ReserveAnswer(u) # 0
  /\ Reply(u, ReserveAnswer(u))
  /\ UNCHANGED <<account, clock, db, store, worker>>

\* The reservation commits and the create-only write is sent to the bucket.
Reserve(u) ==
  LET o == up[u].obs IN
  /\ up[u].pc = "admitted"
  /\ ReserveAnswer(u) = 0
  /\ receipt' = [receipt EXCEPT ![o] = Reservation(@, u)]
  /\ image' = [image EXCEPT ![o] = [@ EXCEPT !.row = TRUE]]
  /\ up' = [up EXCEPT ![u] = [@ EXCEPT !.pc = "sent", !.put = "sent"]]
  /\ UNCHANGED <<account, clock, intent, usage, presence, store, worker>>

\* The write was applied and its reply arrives.
Created(u) ==
  /\ up[u].pc = "sent" /\ up[u].put = "created"
  /\ up' = [up EXCEPT ![u] = [@ EXCEPT !.pc = "held"]]
  /\ UNCHANGED <<account, clock, db, store, worker>>

\* ifGenerationMatch=0 failed: read the object that is already there.
HeadExisting(u) ==
  /\ up[u].pc = "sent" /\ up[u].put = "exists"
  /\ LET x == object[up[u].obs] IN
     IF x.gen = 0
     THEN Reply(u, 503)
     ELSE up' = [up EXCEPT ![u] = [@ EXCEPT !.pc = "held", !.obj = x]]
  /\ UNCHANGED <<account, clock, db, store, worker>>

\* The response of the finalizing transaction, 0 when it accepts the image.
FinalizeAnswer(u) ==
  LET o == up[u].obs
      r == receipt[o]
  IN IF up[u].obj.fp # up[u].fp THEN 409
     ELSE IF ~Authorized(up[u].cred) THEN 401
     ELSE IF ~LeaseHeld(o, u) \/ r.fp # up[u].fp THEN 503
     ELSE IF ~SameDay(o) THEN 503
     ELSE 0

FinalizeReject(u) ==
  /\ up[u].pc = "held"
  /\ FinalizeAnswer(u) # 0
  /\ Reply(u, FinalizeAnswer(u))
  /\ UNCHANGED <<account, clock, db, store, worker>>

Finalize(u) ==
  /\ up[u].pc = "held"
  /\ FinalizeAnswer(u) = 0
  /\ Accept(up[u].obs, up[u].obj)
  /\ Reply(u, 201)
  /\ UNCHANGED <<account, clock, store, worker>>

\* Deadline, disconnect, storage error or a dead process: the request stops where it is.
Abort(u) ==
  /\ up[u].pc \in {"admitted", "sent", "held"}
  /\ Reply(u, 503)
  /\ UNCHANGED <<account, clock, db, store, worker>>

(***************************************************************************)
(* The bucket.  A write or delete is applied after it was sent, whether or *)
(* not its sender still waits for it, or is lost.                          *)
(***************************************************************************)

\* Only a request that still waits learns how its write ended.
Told(r, outcome, x) ==
  IF r.pc = "sent" THEN [r EXCEPT !.put = outcome, !.obj = x] ELSE [r EXCEPT !.put = "none"]

StoreCreate(u) ==
  LET o == up[u].obs
      x == [gen |-> gens[o] + 1, fp |-> up[u].fp, aged |-> FALSE]
  IN
  /\ up[u].put = "sent"
  /\ IF object[o].gen = 0
     THEN /\ object' = [object EXCEPT ![o] = x]
          /\ gens' = [gens EXCEPT ![o] = @ + 1]
          /\ up' = [up EXCEPT ![u] = Told(@, "created", x)]
     ELSE /\ up' = [up EXCEPT ![u] = Told(@, "exists", NoObject)]
          /\ UNCHANGED <<object, gens>>
  /\ UNCHANGED <<account, clock, db, deletes, worker>>

\* A write whose sender is gone may never have reached the bucket.
StoreLose(u) ==
  /\ up[u].put = "sent" /\ up[u].pc = "done"
  /\ up' = [up EXCEPT ![u] = [@ EXCEPT !.put = "none"]]
  /\ UNCHANGED <<account, clock, db, store, worker>>

StoreDelete(o, g) ==
  /\ <<o, g>> \in deletes
  /\ deletes' = deletes \ {<<o, g>>}
  /\ object' = [object EXCEPT ![o] = IF @.gen = g THEN NoObject ELSE @]
  /\ UNCHANGED <<account, clock, db, gens, up, worker>>

(***************************************************************************)
(* The maintenance sweep.                                                  *)
(***************************************************************************)

\* Mutant: the opening SELECT forgets failed reservations.
Candidates_NoFailed ==
  {o \in Obs : \/ receipt[o].state = "stored" /\ ~Retained(o)
               \/ receipt[o].state = "reserved" /\ ~receipt[o].live}

\* Rows the opening SELECT returns: a snapshot the sweep walks through.
Candidates ==
  {o \in Obs : \/ receipt[o].state = "stored" /\ ~Retained(o)
               \/ receipt[o].state = "reserved" /\ ~receipt[o].live
               \/ receipt[o].state = "failed"}

\* What the claiming transaction does with a candidate.
ClaimOutcome(o) ==
  LET r == receipt[o] IN
  IF r.state \in {"none", "expired"} THEN "skip"
  ELSE IF r.state = "stored" /\ Retained(o) THEN "skip"
  ELSE IF r.state = "stored" /\ ~Retained(o) THEN "expire"
  ELSE IF r.state = "reserved" /\ r.live THEN "skip"
  ELSE IF age[o] # "fresh" \/ ~Allowed(o) THEN "expire"
  ELSE IF ~QuotaOpen(o, day) THEN "skip"
  ELSE "claim"

\* head() returned null.
Missing == sweep.seen.gen = 0

\* What the finalizing transaction does with a claimed reservation.
SettleOutcome(o) ==
  LET r == receipt[o] IN
  IF ~LeaseHeld(o, Worker) THEN "skip"
  ELSE IF ~Retained(o) \/ ~Allowed(o) THEN "expire"
  ELSE IF Missing THEN "fail"
  ELSE IF sweep.seen.fp # r.fp THEN "expire"
  ELSE IF ~SameDay(o) \/ ~QuotaOpen(o, day) THEN "skip"
  ELSE "accept"

Begin ==
  /\ sweep.pc = "idle"
  /\ sweep' = [sweep EXCEPT !.pc = "claim", !.todo = Candidates]
  /\ UNCHANGED <<account, clock, db, store, up, faults>>

\* A candidate the claiming transaction leaves alone or expires.
Visit(o) ==
  /\ sweep.pc = "claim" /\ o \in sweep.todo
  /\ \/ ClaimOutcome(o) = "skip" /\ UNCHANGED db
     \/ ClaimOutcome(o) = "expire" /\ Expire(o)
  /\ sweep' = [sweep EXCEPT !.todo = @ \ {o}]
  /\ UNCHANGED <<account, clock, store, up, faults>>

\* The claim: a lease of the sweep's own, on today's quota, credential unchanged.
Claim(o) ==
  /\ sweep.pc = "claim" /\ o \in sweep.todo
  /\ ClaimOutcome(o) = "claim"
  /\ receipt' = [receipt EXCEPT ![o] = [@ EXCEPT !.state = "reserved", !.lease = Worker,
                                                  !.live = TRUE, !.day = day]]
  /\ sweep' = [sweep EXCEPT !.todo = @ \ {o}, !.at = o, !.pc = "head"]
  /\ UNCHANGED <<account, clock, image, intent, usage, presence, store, up, faults>>

\* store.head of the claimed key.
Head ==
  /\ sweep.pc = "head"
  /\ sweep' = [sweep EXCEPT !.pc = "settle", !.seen = object[sweep.at]]
  /\ UNCHANGED <<account, clock, db, store, up, faults>>

\* No object was written: the reservation is given back without a lease.
Fail(o) ==
  /\ receipt' = [receipt EXCEPT ![o] = [Released(@) EXCEPT !.state = "failed"]]
  /\ UNCHANGED <<image, intent, usage, presence>>

Settle ==
  LET o == sweep.at IN
  /\ sweep.pc = "settle"
  /\ \/ SettleOutcome(o) = "skip" /\ UNCHANGED db
     \/ SettleOutcome(o) = "expire" /\ Expire(o)
     \/ SettleOutcome(o) = "fail" /\ Fail(o)
     \/ SettleOutcome(o) = "accept" /\ Accept(o, sweep.seen)
  /\ sweep' = [sweep EXCEPT !.pc = "claim", !.at = NoOne, !.seen = NoObject]
  /\ UNCHANGED <<account, clock, store, up, faults>>

\* Candidates are done: select the deletion intents past the grace, with their generations.
SelectIntents ==
  /\ sweep.pc = "claim" /\ sweep.todo = {}
  /\ sweep' = [sweep EXCEPT !.pc = "delete",
                            !.todo = {o \in Obs : intent[o].queued /\ intent[o].due},
                            !.sel = [o \in Obs |-> intent[o].gen]]
  /\ UNCHANGED <<account, clock, db, store, up, faults>>

\* An image row under an intent is an alarm, and the intent is skipped.
TakeIntent(o) ==
  /\ sweep.pc = "delete" /\ o \in sweep.todo
  /\ sweep' = [sweep EXCEPT !.todo = @ \ {o},
                            !.at = IF image[o].row THEN NoOne ELSE o,
                            !.pc = IF image[o].row THEN "delete" ELSE "resolve"]
  /\ UNCHANGED <<account, clock, db, store, up, faults>>

\* The intent's generation, else the one head() finds.
Resolve ==
  /\ sweep.pc = "resolve"
  /\ LET g == IF sweep.sel[sweep.at] # 0 THEN sweep.sel[sweep.at] ELSE object[sweep.at].gen
     IN sweep' = [sweep EXCEPT !.seen = [NoObject EXCEPT !.gen = g], !.pc = IF g # 0 THEN "erase" ELSE "forget"]
  /\ UNCHANGED <<account, clock, db, store, up, faults>>

\* Send the generation-matched delete.
Erase ==
  /\ sweep.pc = "erase"
  /\ deletes' = deletes \cup {<<sweep.at, sweep.seen.gen>>}
  /\ sweep' = [sweep EXCEPT !.pc = "erasing"]
  /\ UNCHANGED <<account, clock, db, object, gens, up, faults>>

Erased ==
  /\ sweep.pc = "erasing" /\ <<sweep.at, sweep.seen.gen>> \notin deletes
  /\ sweep' = [sweep EXCEPT !.pc = "forget"]
  /\ UNCHANGED <<account, clock, db, store, up, faults>>

\* Drop the intent, unless another producer changed its generation meanwhile.
Forget ==
  LET o == sweep.at IN
  /\ sweep.pc = "forget"
  /\ intent' = [intent EXCEPT ![o] = IF @.gen = sweep.sel[o] THEN NoIntent ELSE @]
  /\ sweep' = [sweep EXCEPT !.pc = "delete", !.at = NoOne, !.seen = NoObject]
  /\ UNCHANGED <<account, clock, receipt, image, usage, presence, store, up, faults>>

\* List the objects past the orphan grace, with their generations.
List ==
  /\ sweep.pc = "delete" /\ sweep.todo = {}
  /\ sweep' = [sweep EXCEPT !.pc = "scan",
                            !.todo = {o \in Obs : object[o].gen # 0 /\ object[o].aged},
                            !.sel = [o \in Obs |-> object[o].gen]]
  /\ UNCHANGED <<account, clock, db, store, up, faults>>

\* Mutant: every listed object is taken for an orphan.
IsOrphan_Unchecked(o) == TRUE

IsOrphan(o) == ~image[o].row

\* An object without an image row is queued; an earlier intent keeps its generation.
ScanOrphan(o) ==
  /\ sweep.pc = "scan" /\ o \in sweep.todo
  /\ intent' = IF IsOrphan(o)
               THEN [intent EXCEPT ![o] = [queued |-> TRUE, due |-> @.due,
                       gen |-> IF @.gen # 0 THEN @.gen ELSE sweep.sel[o]]]
               ELSE intent
  /\ sweep' = [sweep EXCEPT !.todo = @ \ {o}]
  /\ UNCHANGED <<account, clock, receipt, image, usage, presence, store, up, faults>>

End ==
  /\ sweep.pc = "scan" /\ sweep.todo = {}
  /\ sweep' = Idle
  /\ UNCHANGED <<account, clock, db, store, up, faults>>

\* A storage call of the sweep fails or times out: count an error, go to the next row.
StorageError ==
  /\ faults < MaxFaults
  /\ faults' = faults + 1
  /\ \/ /\ sweep.pc = "head"
        /\ sweep' = [sweep EXCEPT !.pc = "claim", !.at = NoOne]
     \/ /\ sweep.pc \in {"resolve", "erase", "erasing"}
        /\ sweep' = [sweep EXCEPT !.pc = "delete", !.at = NoOne, !.seen = NoObject]
  /\ UNCHANGED <<account, clock, db, store, up>>

\* The job dies, loses its connection or throws: the advisory lock is free again.
Die ==
  /\ faults < MaxFaults
  /\ faults' = faults + 1
  /\ sweep.pc # "idle"
  /\ sweep' = Idle
  /\ UNCHANGED <<account, clock, db, store, up>>

(***************************************************************************)
(* Device lifecycle and time.                                              *)
(***************************************************************************)

Event == events < MaxAccount /\ events' = events + 1 /\ device # "deleted"

\* The owner replaces the device's configuration: a new token hash.
Reissue ==
  /\ Event /\ device = "active"
  /\ token' = token + 1
  /\ UNCHANGED <<device, enabled, clock, db, store, up, worker>>

Revoke ==
  /\ Event
  /\ device' = "revoked"
  /\ UNCHANGED <<token, enabled, clock, db, store, up, worker>>

\* An operator disables or enables the camera capability.
SetCapability ==
  /\ Event
  /\ enabled' = ~enabled
  /\ UNCHANGED <<device, token, clock, db, store, up, worker>>

\* The device row is deleted; its receipts, usage and presence cascade, and every
\* cascaded image row fires the deletion trigger.
DeleteDevice ==
  /\ Event
  /\ device' = "deleted"
  /\ receipt' = [o \in Obs |-> NoReceipt]
  /\ image' = [o \in Obs |-> NoImage]
  /\ intent' = [o \in Obs |-> IF image[o].row THEN Queued(intent[o], image[o].gen) ELSE intent[o]]
  /\ usage' = [d \in Days |-> 0]
  /\ presence' = 0
  /\ UNCHANGED <<token, enabled, clock, store, up, worker>>

NextDay ==
  /\ day < MaxDay
  /\ day' = day + 1
  /\ UNCHANGED <<account, age, db, store, up, worker>>

\* A capture leaves its 7-day window, then its 30-day retention.
Grow(o) ==
  /\ age[o] # "gone"
  /\ age' = [age EXCEPT ![o] = IF @ = "fresh" THEN "old" ELSE "gone"]
  /\ UNCHANGED <<account, day, db, store, up, worker>>

\* lease_until passes.
Lapse(o) ==
  /\ receipt[o].live
  /\ receipt' = [receipt EXCEPT ![o] = [@ EXCEPT !.live = FALSE]]
  /\ UNCHANGED <<account, clock, image, intent, usage, presence, store, up, worker>>

\* A deletion intent outlives the orphan grace.
IntentDue(o) ==
  /\ intent[o].queued /\ ~intent[o].due
  /\ intent' = [intent EXCEPT ![o] = [@ EXCEPT !.due = TRUE]]
  /\ UNCHANGED <<account, clock, receipt, image, usage, presence, store, up, worker>>

\* An object outlives the orphan grace.
ObjectAged(o) ==
  /\ object[o].gen # 0 /\ ~object[o].aged
  /\ object' = [object EXCEPT ![o] = [@ EXCEPT !.aged = TRUE]]
  /\ UNCHANGED <<account, clock, db, gens, deletes, up, worker>>

Request(u) ==
  \/ \E o \in Obs, f \in Prints, c \in 1..token : Arrive(u, o, f, c)
  \/ ReserveReject(u) \/ Reserve(u)
  \/ Created(u) \/ HeadExisting(u)
  \/ FinalizeReject(u) \/ Finalize(u)
  \/ Abort(u)

Bucket ==
  \/ \E u \in Uploads : StoreCreate(u) \/ StoreLose(u)
  \/ \E d \in deletes : StoreDelete(d[1], d[2])

SweepStep ==
  \/ Begin \/ Head \/ Settle \/ SelectIntents
  \/ \E o \in Obs : Visit(o) \/ Claim(o) \/ TakeIntent(o) \/ ScanOrphan(o)
  \/ Resolve \/ Erase \/ Erased \/ Forget \/ List \/ End

Account == Reissue \/ Revoke \/ SetCapability \/ DeleteDevice

Time == NextDay \/ \E o \in Obs : Grow(o) \/ Lapse(o) \/ IntentDue(o) \/ ObjectAged(o)

Next ==
  \/ \E u \in Uploads : Request(u)
  \/ Bucket
  \/ SweepStep \/ StorageError \/ Die
  \/ Account
  \/ Time

\* Requests are answered within their deadline, the bucket applies or drops what
\* it was sent, the hourly job keeps running and time passes.  Nothing obliges
\* an owner or an operator to act, nor a sweep or its storage calls to fail.
Fairness ==
  /\ \A u \in Uploads : WF_vars(Request(u))
  /\ WF_vars(Bucket)
  /\ WF_vars(SweepStep)
  /\ \A o \in Obs : /\ WF_vars(Grow(o)) /\ WF_vars(Lapse(o))
                    /\ WF_vars(IntentDue(o)) /\ WF_vars(ObjectAged(o))

Spec == Init /\ [][Next]_vars
FairSpec == Spec /\ Fairness

(***************************************************************************)
(* Properties.                                                             *)
(***************************************************************************)

ReceiptType ==
  [state : {"none", "reserved", "stored", "failed", "expired"},
   fp : Prints \cup {NoPrint}, lease : Leases, live : BOOLEAN,
   day : Nat, cred : Nat, received : Nat]
IntentType == [queued : BOOLEAN, gen : Nat, due : BOOLEAN]
ObjectType == [gen : Nat, fp : Prints \cup {NoPrint}, aged : BOOLEAN]
RequestType ==
  [pc : {"new", "admitted", "sent", "held", "done"},
   obs : Obs \cup {NoOne}, fp : Prints \cup {NoPrint}, cred : Nat,
   day : Nat, age : {"fresh", "old", "gone"},
   put : {"none", "sent", "created", "exists"},
   obj : ObjectType, resp : {"none", "acked", "refused"}]
SweepType ==
  [pc : {"idle", "claim", "head", "settle", "delete", "resolve", "erase", "erasing",
         "forget", "scan"},
   todo : SUBSET Obs, at : Obs \cup {NoOne}, sel : [Obs -> Nat], seen : ObjectType]

AccountOK ==
  /\ device \in {"active", "revoked", "deleted"} /\ token \in Nat \ {0}
  /\ enabled \in BOOLEAN /\ events \in 0..MaxAccount
ClockOK == day \in Days /\ age \in [Obs -> {"fresh", "old", "gone"}]
ReceiptsOK == receipt \in [Obs -> ReceiptType]
ImagesOK == image \in [Obs -> [row : BOOLEAN, gen : Nat]]
IntentsOK == intent \in [Obs -> IntentType]
CountersOK == usage \in [Days -> Nat] /\ presence \in Nat
StoreOK == object \in [Obs -> ObjectType] /\ gens \in [Obs -> Nat] /\ deletes \subseteq Obs \X Nat
RequestsOK == up \in [Uploads -> RequestType]
WorkerOK == sweep \in SweepType /\ faults \in 0..MaxFaults

\* observation_receipts_state_check and _lease_check: a transaction that broke one
\* would be refused by the database.
RowChecks ==
  \A o \in Obs :
    /\ receipt[o].state = "reserved" <=> receipt[o].lease # NoOne
    /\ receipt[o].live => receipt[o].state = "reserved"
    /\ receipt[o].state \in {"none", "reserved", "failed"} => receipt[o].received = 0
    /\ receipt[o].state = "stored" => receipt[o].received # 0

\* Every table row, object, request and sweep has the shape the code gives it, and
\* the rows satisfy the database's CHECK constraints.
TypeOK ==
  /\ AccountOK /\ ClockOK
  /\ ReceiptsOK /\ ImagesOK /\ IntentsOK /\ CountersOK /\ RowChecks
  /\ StoreOK /\ RequestsOK /\ WorkerOK

\* The image an acknowledged upload sent is readable, as sent, until the capture
\* is 30 days old or the device is deleted, whatever the sweep, late storage
\* calls and other requests do (the 200/201 acknowledgements of observations.ts).
AckedImageKept ==
  \A u \in Uploads :
    LET o == up[u].obs IN
    up[u].resp = "acked" /\ device # "deleted" /\ age[o] # "gone" =>
      /\ receipt[o].state = "stored" /\ receipt[o].fp = up[u].fp
      /\ object[o].gen # 0 /\ object[o].gen = image[o].gen /\ object[o].fp = up[u].fp

\* A stored receipt names the live generation of its object, with its content.
StoredMediaIntact ==
  \A o \in Obs : receipt[o].state = "stored" =>
    /\ image[o].row /\ image[o].gen # 0
    /\ object[o].gen = image[o].gen /\ object[o].fp = receipt[o].fp

\* maintain.ts calls an image row under a deletion intent a consistency alarm: it
\* never happens, so the sweep never skips an intent for it.
NoDeletionAlarm == \A o \in Obs : ~(intent[o].queued /\ image[o].row)

\* What was acknowledged or stored can be read, and no deletion is queued against it:
\* the guarantee observations.ts and maintain.ts give each other's rows.
MediaSafe == AckedImageKept /\ StoredMediaIntact /\ NoDeletionAlarm

\* Accepted images and outstanding reservations of a day never exceed its quota.
QuotaRespected ==
  \A d \in Days :
    usage[d] + Cardinality({o \in Obs : receipt[o].state = "reserved" /\ receipt[o].day = d})
      <= MaxDaily

\* Each accepted image is charged once, to the day it was received, however many
\* requests and sweeps tried to finalize it.
UsageExact ==
  \A d \in Days : usage[d] = Cardinality({o \in Obs : receipt[o].received = d})

\* The daily quota holds with reservations counted, and the usage it rests on is exact,
\* when requests and the sweep finalize at once or across a midnight.
QuotaExact == QuotaRespected /\ UsageExact

\* An expired receipt is a tombstone: no request or sweep revives it.
ExpiredIsFinal ==
  [][\A o \in Obs : receipt[o].state = "expired" =>
       receipt'[o] = receipt[o] \/ device' = "deleted"]_vars

\* An image is accepted only while the credential that reserved it is still the
\* device's, unrevoked, with the capability enabled.
AcceptedUnderItsCredential ==
  [][\A o \in Obs : receipt[o].state # "stored" /\ receipt'[o].state = "stored" =>
       device = "active" /\ token = receipt[o].cred /\ enabled]_vars

\* What a reader of the device's gallery is served.
Gallery ==
  [o \in Obs |-> [state |-> CASE receipt[o].state = "stored" -> "kept"
                              [] receipt[o].state = "expired" -> "retired"
                              [] OTHER -> "absent",
                  fp |-> IF receipt[o].state = "stored" THEN object[o].fp ELSE NoPrint]]

Abstract == INSTANCE Receiver WITH gallery <- Gallery, closed <- (device = "deleted")

\* Leases, retries, sweeps, late storage calls and cascades implement the Receiver a
\* camera relies on: an observation is taken once, served unchanged, retired for good.
ImplementsReceiver == Abstract!Spec

\* No reservation is open and no media is without its image row.
Clean ==
  \A o \in Obs : /\ object[o].gen # 0 => image[o].row
                 /\ receipt[o].state \notin {"reserved", "failed"}
=============================================================================
