------------------------ MODULE Observations_proofs ------------------------
(***************************************************************************)
(* Proofs about the observation pipeline, for every set of observations,   *)
(* requests and fingerprints and every value of the bounds.                *)
(***************************************************************************)
EXTENDS ObservationReads, FiniteSetTheorems, TLAPS

\* Phases in which the sweep works on the row sweep.at.
Busy == {"head", "settle", "resolve", "erase", "erasing", "forget"}

\* A request or a sweep in progress is about one of the device's observations.
RequestsAddressed ==
  \A u \in Uploads : up[u].pc # "new" \/ up[u].put # "none" => up[u].obs \in Obs
SweepAddressed == sweep.pc \in Busy => sweep.at \in Obs

DbOK == ReceiptsOK /\ RowChecks /\ ImagesOK /\ IntentsOK /\ CountersOK
RequestSide == RequestsOK /\ RequestsAddressed
SweepSide == WorkerOK /\ SweepAddressed

\* The inductive type invariant.
Shape == AccountOK /\ ClockOK /\ DbOK /\ StoreOK /\ RequestSide /\ SweepSide

LEMMA ShapeGivesTypes == Shape => TypeOK
  BY DEF Shape, TypeOK, DbOK, RequestSide, SweepSide

LEMMA InitShape == Init => Shape
  <1> SUFFICES ASSUME Init PROVE Shape
    OBVIOUS
  <1> USE ConstantsAssumption DEF Init
  <1>1. AccountOK /\ ClockOK /\ CountersOK
    BY DEF AccountOK, ClockOK, CountersOK, Days
  <1>2. ReceiptsOK /\ ImagesOK /\ IntentsOK /\ RowChecks
    BY DEF ReceiptsOK, ImagesOK, IntentsOK, RowChecks, ReceiptType, IntentType, Leases, NoReceipt, NoImage, NoIntent
  <1>3. StoreOK /\ RequestsOK /\ WorkerOK
    BY DEF StoreOK, RequestsOK, WorkerOK, ObjectType, RequestType, SweepType, NoObject, Idle
  <1>4. RequestsAddressed /\ SweepAddressed
    BY DEF RequestsAddressed, SweepAddressed, Busy, Idle
  <1> QED
    BY <1>1, <1>2, <1>3, <1>4 DEF Shape, DbOK, RequestSide, SweepSide

(***************************************************************************)
(* What a step leaves alone keeps its type.                                *)
(***************************************************************************)

LEMMA AccountFrame == AccountOK /\ UNCHANGED account => AccountOK'
  BY DEF AccountOK, account

LEMMA ClockFrame == ClockOK /\ UNCHANGED clock => ClockOK'
  BY DEF ClockOK, clock

LEMMA ReceiptFrame == ReceiptsOK /\ RowChecks /\ UNCHANGED receipt => ReceiptsOK' /\ RowChecks'
  BY DEF ReceiptsOK, RowChecks

LEMMA DbFrame == DbOK /\ UNCHANGED db => DbOK'
  BY ReceiptFrame DEF DbOK, db, ImagesOK, IntentsOK, CountersOK

LEMMA StoreFrame == StoreOK /\ UNCHANGED store => StoreOK'
  BY DEF StoreOK, store

LEMMA RequestFrame == RequestSide /\ UNCHANGED up => RequestSide'
  BY DEF RequestSide, RequestsOK, RequestsAddressed

LEMMA SweepFrame == SweepSide /\ UNCHANGED worker => SweepSide'
  BY DEF SweepSide, WorkerOK, SweepAddressed, worker

\* One request moves.
LEMMA RequestUpdate ==
  ASSUME RequestSide, NEW u \in Uploads, NEW r \in RequestType,
         r.pc # "new" \/ r.put # "none" => r.obs \in Obs,
         up' = [up EXCEPT ![u] = r]
  PROVE  RequestSide'
  BY DEF RequestSide, RequestsOK, RequestsAddressed

\* The sweep moves.
LEMMA SweepUpdate ==
  ASSUME SweepSide, sweep' \in SweepType, sweep'.pc \in Busy => sweep'.at \in Obs, UNCHANGED faults
  PROVE  SweepSide'
  BY DEF SweepSide, WorkerOK, SweepAddressed

\* One receipt changes to a row that satisfies the database's checks.
LEMMA ReceiptUpdate ==
  ASSUME ReceiptsOK, RowChecks, NEW o \in Obs, NEW r \in ReceiptType,
         r.state = "reserved" <=> r.lease # NoOne,
         r.live => r.state = "reserved",
         r.state \in {"none", "reserved", "failed"} => r.received = 0,
         r.state = "stored" => r.received # 0,
         receipt' = [receipt EXCEPT ![o] = r]
  PROVE  ReceiptsOK' /\ RowChecks'
  BY DEF ReceiptsOK, RowChecks

LEMMA NoObjectType == NoObject \in ObjectType
  BY DEF NoObject, ObjectType

LEMMA RowType ==
  ASSUME DbOK, NEW o \in Obs
  PROVE  /\ receipt[o] \in ReceiptType /\ image[o] \in [row : BOOLEAN, gen : Nat]
         /\ intent[o] \in IntentType
  BY DEF DbOK, ReceiptsOK, ImagesOK, IntentsOK

(***************************************************************************)
(* The database effects shared by the two writers.                         *)
(***************************************************************************)

LEMMA AcceptKeepsDb ==
  ASSUME DbOK, ClockOK, NEW o \in Obs, NEW obj \in ObjectType, Accept(o, obj)
  PROVE  DbOK'
  <1> DEFINE r == [Released(receipt[o]) EXCEPT !.state = "stored", !.received = day]
  <1>2. day \in Nat /\ day # 0
    BY ConstantsAssumption DEF ClockOK, Days
  <1>1. r \in ReceiptType /\ r.state = "stored" /\ r.lease = NoOne /\ r.live = FALSE /\ r.received = day
    BY <1>2, RowType DEF Released, ReceiptType, Leases
  <1>3. receipt' = [receipt EXCEPT ![o] = r]
    BY DEF Accept
  <1> HIDE DEF r
  <1>4. ReceiptsOK' /\ RowChecks'
    BY <1>1, <1>2, <1>3, ReceiptUpdate DEF DbOK
  <1>5. ImagesOK'
    <2>1. image' = [image EXCEPT ![o] = [image[o] EXCEPT !.gen = obj.gen]]
      BY DEF Accept
    <2> QED
      BY <2>1, RowType DEF DbOK, ImagesOK, ObjectType
  <1>6. CountersOK'
    <2>1. usage' = [usage EXCEPT ![receipt[o].day] = usage[receipt[o].day] + 1]
      BY DEF Accept
    <2>2. presence' = IF presence >= day THEN presence ELSE day
      BY DEF Accept
    <2>3. presence' \in Nat
      BY <2>2, <1>2 DEF DbOK, CountersOK
    <2>4. usage \in [Days -> Nat]
      BY DEF DbOK, CountersOK
    <2>5. \A d \in Days : usage'[d] \in Nat
      BY <2>1, <2>4
    <2>6. usage' \in [Days -> Nat]
      BY <2>1, <2>4, <2>5
    <2> QED
      BY <2>3, <2>6 DEF CountersOK
  <1> QED
    BY <1>4, <1>5, <1>6 DEF DbOK, Accept, IntentsOK

LEMMA QueuedType ==
  ASSUME NEW in \in IntentType, NEW g \in Nat
  PROVE  Queued(in, g) \in IntentType
  BY DEF Queued, IntentType

LEMMA ExpireKeepsDb ==
  ASSUME DbOK, NEW o \in Obs, Expire(o)
  PROVE  DbOK'
  <1> DEFINE r == [Released(receipt[o]) EXCEPT !.state = "expired"]
  <1>1. r \in ReceiptType /\ r.state = "expired" /\ r.lease = NoOne /\ r.live = FALSE
    BY RowType DEF Released, ReceiptType, Leases
  <1>2. receipt' = [receipt EXCEPT ![o] = r]
    BY DEF Expire
  <1> HIDE DEF r
  <1>3. ReceiptsOK' /\ RowChecks'
    BY <1>1, <1>2, ReceiptUpdate DEF DbOK
  <1>4. ImagesOK'
    BY DEF Expire, DbOK, ImagesOK, NoImage
  <1>5. IntentsOK'
    <2>1. Queued(intent[o], image[o].gen) \in IntentType
      BY RowType, QueuedType
    <2>2. intent' = [intent EXCEPT ![o] = Queued(intent[o], image[o].gen)]
      BY DEF Expire
    <2> QED
      BY <2>1, <2>2 DEF DbOK, IntentsOK
  <1> QED
    BY <1>3, <1>4, <1>5 DEF DbOK, Expire, CountersOK

LEMMA FailKeepsDb ==
  ASSUME DbOK, NEW o \in Obs, receipt[o].state = "reserved", Fail(o)
  PROVE  DbOK'
  <1> DEFINE r == [Released(receipt[o]) EXCEPT !.state = "failed"]
  <1>1. receipt[o].received = 0
    BY DEF DbOK, RowChecks
  <1>2. r \in ReceiptType /\ r.state = "failed" /\ r.lease = NoOne /\ r.live = FALSE /\ r.received = 0
    BY <1>1, RowType DEF Released, ReceiptType, Leases
  <1>3. receipt' = [receipt EXCEPT ![o] = r]
    BY DEF Fail
  <1> HIDE DEF r
  <1>4. ReceiptsOK' /\ RowChecks'
    BY <1>2, <1>3, ReceiptUpdate DEF DbOK
  <1> QED
    BY <1>4 DEF DbOK, Fail, ImagesOK, IntentsOK, CountersOK

(***************************************************************************)
(* Every step of a request keeps the shape.                                *)
(***************************************************************************)

LEMMA EndedType ==
  ASSUME NEW r \in RequestType, NEW code
  PROVE  Ended(r, code) \in RequestType /\ Ended(r, code).obs = r.obs /\ Ended(r, code).pc = "done"
  <1> DEFINE put == IF r.put = "sent" THEN "sent" ELSE "none"
             resp == IF code \in {200, 201} THEN "acked" ELSE "refused"
  <1>1. put \in {"none", "sent"} /\ resp \in {"acked", "refused"}
    OBVIOUS
  <1>2. Ended(r, code) = [pc |-> "done", obs |-> r.obs, fp |-> r.fp, cred |-> 0, day |-> 0, age |-> "fresh", obj |-> NoObject,
                          put |-> put, resp |-> resp]
    BY DEF Ended
  <1> HIDE DEF put, resp
  <1> QED
    BY <1>1, <1>2, NoObjectType DEF RequestType

LEMMA ReplyKeepsRequests ==
  ASSUME RequestSide, NEW u \in Uploads, NEW code, up[u].pc # "new", Reply(u, code)
  PROVE  RequestSide'
  <1>1. up[u] \in RequestType /\ up[u].obs \in Obs
    BY DEF RequestSide, RequestsOK, RequestsAddressed
  <1>2. up' = [up EXCEPT ![u] = Ended(up[u], code)]
    BY DEF Reply
  <1> QED
    BY <1>1, <1>2, EndedType, RequestUpdate

LEMMA RequestStepShape ==
  ASSUME Shape, NEW u \in Uploads, Request(u)
  PROVE  Shape'
  <1> USE DEF Shape
  <1>r. up[u] \in RequestType
    BY DEF RequestSide, RequestsOK
  <1>o. up[u].pc # "new" => up[u].obs \in Obs
    BY DEF RequestSide, RequestsAddressed
  <1>1. ASSUME NEW o \in Obs, NEW f \in Prints, NEW c \in 1..token, Arrive(u, o, f, c)
        PROVE  Shape'
    <2> DEFINE r == [up[u] EXCEPT !.obs = o, !.fp = f,
                 !.cred = IF Authorized(c) THEN c ELSE 0,
                 !.day = IF Authorized(c) THEN day ELSE 0,
                 !.age = IF Authorized(c) THEN age[o] ELSE "fresh",
                 !.pc = IF Authorized(c) THEN "admitted" ELSE "done",
                 !.resp = IF Authorized(c) THEN "none" ELSE "refused"]
    <2>1. c \in Nat /\ day \in Nat /\ age[o] \in {"fresh", "old", "gone"}
      BY ConstantsAssumption DEF AccountOK, ClockOK, Days
    <2>2. r \in RequestType /\ r.obs \in Obs
      BY <1>r, <2>1 DEF RequestType
    <2>3. up' = [up EXCEPT ![u] = r]
      BY <1>1 DEF Arrive
    <2> HIDE DEF r
    <2>4. RequestSide'
      BY <2>2, <2>3, RequestUpdate
    <2>5. UNCHANGED <<account, clock, db, store, worker>>
      BY <1>1 DEF Arrive
    <2> QED
      BY <2>4, <2>5, AccountFrame, ClockFrame, DbFrame, StoreFrame, SweepFrame
  <1>2. CASE ReserveReject(u) \/ FinalizeReject(u) \/ Abort(u)
    <2>1. up[u].pc # "new" /\ \E code : Reply(u, code)
      BY <1>2 DEF ReserveReject, FinalizeReject, Abort
    <2>2. RequestSide'
      BY <2>1, ReplyKeepsRequests
    <2>3. UNCHANGED <<account, clock, db, store, worker>>
      BY <1>2 DEF ReserveReject, FinalizeReject, Abort
    <2> QED
      BY <2>2, <2>3, AccountFrame, ClockFrame, DbFrame, StoreFrame, SweepFrame
  <1>3. CASE Reserve(u)
    <2> DEFINE o == up[u].obs
               r == Reservation(receipt[o], u)
               q == [up[u] EXCEPT !.pc = "sent", !.put = "sent"]
    <2>1. o \in Obs
      BY <1>3, <1>o DEF Reserve
    <2>2. receipt[o] \in ReceiptType /\ day \in Nat
      BY <2>1, RowType, ConstantsAssumption DEF ClockOK, Days
    <2>3. r \in ReceiptType /\ r.state = "reserved" /\ r.lease = u /\ r.received = receipt[o].received
      BY <1>r, <2>2 DEF Reservation, ReceiptType, RequestType, Leases
    <2>4. receipt[o].state \notin {"stored", "expired"}
      BY <1>3 DEF Reserve, ReserveAnswer, Tombstone
    <2>5. receipt[o].received = 0
      BY <2>1, <2>2, <2>4 DEF DbOK, RowChecks, ReceiptType
    <2>6. receipt' = [receipt EXCEPT ![o] = r]
      BY <1>3 DEF Reserve
    <2>7. image' = [image EXCEPT ![o] = [image[o] EXCEPT !.row = TRUE]]
      BY <1>3 DEF Reserve
    <2>8. q \in RequestType /\ q.obs \in Obs
      BY <1>r, <2>1 DEF RequestType
    <2>9. up' = [up EXCEPT ![u] = q]
      BY <1>3 DEF Reserve
    <2>10. UNCHANGED <<account, clock, intent, usage, presence, store, worker>>
      BY <1>3 DEF Reserve
    <2> HIDE DEF o, r, q
    <2>11. ReceiptsOK' /\ RowChecks'
      BY <2>1, <2>3, <2>5, <2>6, ReceiptUpdate, ConstantsAssumption DEF DbOK
    <2>12. ImagesOK'
      BY <2>1, <2>7, RowType DEF DbOK, ImagesOK
    <2>13. DbOK'
      BY <2>10, <2>11, <2>12 DEF DbOK, IntentsOK, CountersOK
    <2>14. RequestSide'
      BY <2>8, <2>9, RequestUpdate
    <2> QED
      BY <2>10, <2>13, <2>14, AccountFrame, ClockFrame, StoreFrame, SweepFrame
  <1>4. CASE Created(u)
    <2> DEFINE q == [up[u] EXCEPT !.pc = "held"]
    <2>1. q \in RequestType /\ q.obs = up[u].obs
      BY <1>r DEF RequestType
    <2>2. up' = [up EXCEPT ![u] = q] /\ up[u].pc # "new"
      BY <1>4 DEF Created
    <2>3. UNCHANGED <<account, clock, db, store, worker>>
      BY <1>4 DEF Created
    <2> HIDE DEF q
    <2>4. RequestSide'
      BY <1>o, <2>1, <2>2, RequestUpdate
    <2> QED
      BY <2>3, <2>4, AccountFrame, ClockFrame, DbFrame, StoreFrame, SweepFrame
  <1>5. CASE HeadExisting(u)
    <2> DEFINE q == [up[u] EXCEPT !.pc = "held", !.obj = object[up[u].obs]]
    <2>1. up[u].pc # "new" /\ up[u].obs \in Obs
      BY <1>5, <1>o DEF HeadExisting
    <2>2. q \in RequestType /\ q.obs = up[u].obs
      BY <1>r, <2>1 DEF RequestType, StoreOK
    <2>3. up' = [up EXCEPT ![u] = q] \/ Reply(u, 503)
      BY <1>5 DEF HeadExisting
    <2>4. UNCHANGED <<account, clock, db, store, worker>>
      BY <1>5 DEF HeadExisting
    <2> HIDE DEF q
    <2>5. RequestSide'
      BY <2>1, <2>2, <2>3, RequestUpdate, ReplyKeepsRequests
    <2> QED
      BY <2>4, <2>5, AccountFrame, ClockFrame, DbFrame, StoreFrame, SweepFrame
  <1>6. CASE Finalize(u)
    <2>1. up[u].pc # "new" /\ up[u].obs \in Obs /\ up[u].obj \in ObjectType
      BY <1>6, <1>r, <1>o DEF Finalize, RequestType
    <2>2. Accept(up[u].obs, up[u].obj) /\ Reply(u, 201) /\ UNCHANGED <<account, clock, store, worker>>
      BY <1>6 DEF Finalize
    <2>3. DbOK'
      BY <2>1, <2>2, AcceptKeepsDb
    <2>4. RequestSide'
      BY <2>1, <2>2, ReplyKeepsRequests
    <2> QED
      BY <2>2, <2>3, <2>4, AccountFrame, ClockFrame, StoreFrame, SweepFrame
  <1> QED
    BY <1>1, <1>2, <1>3, <1>4, <1>5, <1>6 DEF Request

(***************************************************************************)
(* The bucket.                                                             *)
(***************************************************************************)

LEMMA BucketShape ==
  ASSUME Shape, Bucket
  PROVE  Shape'
  <1> USE DEF Shape
  <1>1. ASSUME NEW u \in Uploads, StoreCreate(u)
        PROVE  Shape'
    <2> DEFINE o == up[u].obs
               x == [gen |-> gens[o] + 1, fp |-> up[u].fp, aged |-> FALSE]
    <2>1. up[u] \in RequestType /\ o \in Obs
      BY <1>1 DEF RequestSide, RequestsOK, RequestsAddressed, StoreCreate
    <2>2. gens[o] \in Nat /\ x \in ObjectType
      BY <2>1 DEF StoreOK, ObjectType, RequestType
    <2>3. \/ /\ object' = [object EXCEPT ![o] = x] /\ gens' = [gens EXCEPT ![o] = gens[o] + 1]
             /\ up' = [up EXCEPT ![u] = Told(up[u], "created", x)]
          \/ up' = [up EXCEPT ![u] = Told(up[u], "exists", NoObject)] /\ UNCHANGED <<object, gens>>
      BY <1>1 DEF StoreCreate
    <2>4. UNCHANGED <<account, clock, db, deletes, worker>>
      BY <1>1 DEF StoreCreate
    <2>5. ASSUME NEW s \in {"created", "exists"}, NEW y \in ObjectType
          PROVE  Told(up[u], s, y) \in RequestType /\ Told(up[u], s, y).obs = o
      BY <2>1 DEF Told, RequestType
    <2> HIDE DEF o, x
    <2>6. RequestSide'
      BY <2>1, <2>2, <2>3, <2>5, NoObjectType, RequestUpdate
    <2>7. StoreOK'
      BY <2>1, <2>2, <2>3, <2>4 DEF StoreOK
    <2> QED
      BY <2>4, <2>6, <2>7, AccountFrame, ClockFrame, DbFrame, SweepFrame
  <1>2. ASSUME NEW u \in Uploads, StoreLose(u)
        PROVE  Shape'
    <2> DEFINE q == [up[u] EXCEPT !.put = "none"]
    <2>1. q \in RequestType /\ q.obs = up[u].obs /\ up[u].obs \in Obs
      BY <1>2 DEF StoreLose, RequestSide, RequestsOK, RequestsAddressed, RequestType
    <2>2. up' = [up EXCEPT ![u] = q] /\ UNCHANGED <<account, clock, db, store, worker>>
      BY <1>2 DEF StoreLose
    <2> HIDE DEF q
    <2> QED
      BY <2>1, <2>2, RequestUpdate, AccountFrame, ClockFrame, DbFrame, StoreFrame, SweepFrame
  <1>3. ASSUME NEW d \in deletes, StoreDelete(d[1], d[2])
        PROVE  Shape'
    <2>1. d[1] \in Obs
      BY DEF StoreOK
    <2>2. /\ object' = [object EXCEPT ![d[1]] = IF @.gen = d[2] THEN NoObject ELSE @]
          /\ deletes' \subseteq deletes
          /\ UNCHANGED <<account, clock, db, gens, up, worker>>
      BY <1>3 DEF StoreDelete
    <2>3. StoreOK'
      BY <2>1, <2>2, NoObjectType DEF StoreOK
    <2> QED
      BY <2>2, <2>3, AccountFrame, ClockFrame, DbFrame, RequestFrame, SweepFrame
  <1> QED
    BY <1>1, <1>2, <1>3 DEF Bucket

(***************************************************************************)
(* The sweep.                                                              *)
(***************************************************************************)

LEMMA IdleType == Idle \in SweepType /\ Idle.pc \notin Busy
  BY NoObjectType DEF Idle, SweepType, Busy

LEMMA SweepStepShape ==
  ASSUME Shape, SweepStep
  PROVE  Shape'
  <1> USE DEF Shape
  <1>s. sweep \in SweepType
    BY DEF SweepSide, WorkerOK
  <1>1. CASE Begin \/ SelectIntents \/ List
    <2>1. sweep' \in SweepType /\ sweep'.pc \notin Busy
      <3>1. CASE Begin
        BY <3>1, <1>s DEF Begin, Candidates, SweepType, Busy
      <3>2. CASE SelectIntents
        <4>1. [o \in Obs |-> intent[o].gen] \in [Obs -> Nat]
          BY DEF DbOK, IntentsOK, IntentType
        <4> QED
          BY <3>2, <4>1, <1>s DEF SelectIntents, SweepType, Busy
      <3>3. CASE List
        <4>1. [o \in Obs |-> object[o].gen] \in [Obs -> Nat]
          BY DEF StoreOK, ObjectType
        <4> QED
          BY <3>3, <4>1, <1>s DEF List, SweepType, Busy
      <3> QED
        BY <1>1, <3>1, <3>2, <3>3
    <2>2. UNCHANGED <<account, clock, db, store, up, faults>>
      BY <1>1 DEF Begin, SelectIntents, List
    <2> QED
      BY <2>1, <2>2, SweepUpdate, AccountFrame, ClockFrame, DbFrame, StoreFrame, RequestFrame
  <1>2. CASE Head \/ Erased \/ Resolve
    <2>1. sweep.at \in Obs
      BY <1>2 DEF Head, Erased, Resolve, SweepSide, SweepAddressed, Busy
    <2>2. sweep' \in SweepType /\ sweep'.at = sweep.at
      <3>1. CASE Head
        <4>1. object[sweep.at] \in ObjectType
          BY <2>1 DEF StoreOK
        <4> QED
          BY <3>1, <4>1, <1>s DEF Head, SweepType
      <3>2. CASE Erased
        BY <3>2, <1>s DEF Erased, SweepType
      <3>3. CASE Resolve
        <4> DEFINE g == IF sweep.sel[sweep.at] # 0 THEN sweep.sel[sweep.at] ELSE object[sweep.at].gen
                   x == [NoObject EXCEPT !.gen = g]
                   pc == IF g # 0 THEN "erase" ELSE "forget"
        <4>1. g \in Nat
          BY <1>s, <2>1 DEF SweepType, StoreOK, ObjectType
        <4>2. x \in ObjectType
          BY <4>1 DEF NoObject, ObjectType
        <4>3. sweep' = [sweep EXCEPT !.seen = x, !.pc = pc]
          BY <3>3 DEF Resolve
        <4>4. pc \in {"erase", "forget"}
          OBVIOUS
        <4> HIDE DEF x, pc
        <4> QED
          BY <4>2, <4>3, <4>4, <1>s DEF SweepType
      <3> QED
        BY <1>2, <3>1, <3>2, <3>3
    <2>3. UNCHANGED <<account, clock, db, store, up, faults>>
      BY <1>2 DEF Head, Erased, Resolve
    <2> QED
      BY <2>1, <2>2, <2>3, SweepUpdate, AccountFrame, ClockFrame, DbFrame, StoreFrame, RequestFrame
  <1>3. CASE Settle
    <2> DEFINE o == sweep.at
    <2>1. o \in Obs
      BY <1>3 DEF Settle, SweepSide, SweepAddressed, Busy
    <2>2. sweep' \in SweepType /\ sweep'.pc \notin Busy
      BY <1>3, <1>s, NoObjectType DEF Settle, SweepType, Busy
    <2>3. sweep.seen \in ObjectType
      BY <1>s DEF SweepType
    <2>4. SettleOutcome(o) = "fail" => receipt[o].state = "reserved"
      BY DEF SettleOutcome, LeaseHeld
    <2>5. \/ UNCHANGED db
          \/ Expire(o)
          \/ SettleOutcome(o) = "fail" /\ Fail(o)
          \/ Accept(o, sweep.seen)
      BY <1>3 DEF Settle
    <2>6. DbOK'
      BY <2>1, <2>3, <2>4, <2>5, DbFrame, ExpireKeepsDb, FailKeepsDb, AcceptKeepsDb
    <2>7. UNCHANGED <<account, clock, store, up, faults>>
      BY <1>3 DEF Settle
    <2> QED
      BY <2>2, <2>6, <2>7, SweepUpdate, AccountFrame, ClockFrame, StoreFrame, RequestFrame
  <1>4. ASSUME NEW o \in Obs, Visit(o)
        PROVE  Shape'
    <2>1. sweep' \in SweepType /\ sweep'.pc \notin Busy
      BY <1>4, <1>s DEF Visit, SweepType, Busy
    <2>2. DbOK'
      BY <1>4, DbFrame, ExpireKeepsDb DEF Visit
    <2>3. UNCHANGED <<account, clock, store, up, faults>>
      BY <1>4 DEF Visit
    <2> QED
      BY <2>1, <2>2, <2>3, SweepUpdate, AccountFrame, ClockFrame, StoreFrame, RequestFrame
  <1>5. ASSUME NEW o \in Obs, Claim(o)
        PROVE  Shape'
    <2> DEFINE r == [receipt[o] EXCEPT !.state = "reserved", !.lease = Worker, !.live = TRUE, !.day = day]
    <2>1. sweep' \in SweepType /\ sweep'.at = o
      BY <1>5, <1>s DEF Claim, SweepType
    <2>2. receipt[o].state \in {"reserved", "failed"}
      BY <1>5, RowType DEF Claim, ClaimOutcome, ReceiptType
    <2>3. receipt[o].received = 0
      BY <2>2 DEF DbOK, RowChecks
    <2>4. day \in Nat
      BY ConstantsAssumption DEF ClockOK, Days
    <2>5. r \in ReceiptType /\ r.state = "reserved" /\ r.lease = Worker /\ r.received = 0
      BY <2>3, <2>4, RowType DEF ReceiptType, Leases
    <2>6. receipt' = [receipt EXCEPT ![o] = r]
      BY <1>5 DEF Claim
    <2>7. UNCHANGED <<account, clock, image, intent, usage, presence, store, up, faults>>
      BY <1>5 DEF Claim
    <2> HIDE DEF r
    <2>8. ReceiptsOK' /\ RowChecks'
      BY <2>5, <2>6, ReceiptUpdate, ConstantsAssumption DEF DbOK
    <2>9. DbOK'
      BY <2>7, <2>8 DEF DbOK, ImagesOK, IntentsOK, CountersOK
    <2> QED
      BY <2>1, <2>7, <2>9, SweepUpdate, AccountFrame, ClockFrame, StoreFrame, RequestFrame
  <1>6. ASSUME NEW o \in Obs, TakeIntent(o)
        PROVE  Shape'
    <2>1. sweep' \in SweepType /\ (sweep'.pc \in Busy => sweep'.at \in Obs)
      BY <1>6, <1>s DEF TakeIntent, SweepType, Busy
    <2>2. UNCHANGED <<account, clock, db, store, up, faults>>
      BY <1>6 DEF TakeIntent
    <2> QED
      BY <2>1, <2>2, SweepUpdate, AccountFrame, ClockFrame, DbFrame, StoreFrame, RequestFrame
  <1>7. ASSUME NEW o \in Obs, ScanOrphan(o)
        PROVE  Shape'
    <2> DEFINE in == [queued |-> TRUE, due |-> intent[o].due,
                      gen |-> IF intent[o].gen # 0 THEN intent[o].gen ELSE sweep.sel[o]]
    <2>1. sweep' \in SweepType /\ sweep'.pc \notin Busy
      BY <1>7, <1>s DEF ScanOrphan, SweepType, Busy
    <2>2. in \in IntentType
      BY <1>s, RowType DEF IntentType, SweepType
    <2>3. intent' = intent \/ intent' = [intent EXCEPT ![o] = in]
      BY <1>7 DEF ScanOrphan
    <2>4. UNCHANGED <<account, clock, receipt, image, usage, presence, store, up, faults>>
      BY <1>7 DEF ScanOrphan
    <2> HIDE DEF in
    <2>5. IntentsOK'
      BY <2>2, <2>3 DEF DbOK, IntentsOK
    <2>6. DbOK'
      BY <2>4, <2>5, ReceiptFrame DEF DbOK, ImagesOK, CountersOK
    <2> QED
      BY <2>1, <2>4, <2>6, SweepUpdate, AccountFrame, ClockFrame, StoreFrame, RequestFrame
  <1>8. CASE Erase
    <2>1. sweep.at \in Obs /\ sweep.seen.gen \in Nat
      BY <1>8, <1>s DEF Erase, SweepSide, SweepAddressed, Busy, SweepType, ObjectType
    <2>2. sweep' \in SweepType /\ sweep'.at = sweep.at
      BY <1>8, <1>s DEF Erase, SweepType
    <2>3. /\ deletes' = deletes \cup {<<sweep.at, sweep.seen.gen>>}
          /\ UNCHANGED <<account, clock, db, object, gens, up, faults>>
      BY <1>8 DEF Erase
    <2>4. StoreOK'
      BY <2>1, <2>3 DEF StoreOK
    <2> QED
      BY <2>1, <2>2, <2>3, <2>4, SweepUpdate, AccountFrame, ClockFrame, DbFrame, RequestFrame
  <1>9. CASE Forget
    <2> DEFINE o == sweep.at
    <2>1. sweep' \in SweepType /\ sweep'.pc \notin Busy
      BY <1>9, <1>s, NoObjectType DEF Forget, SweepType, Busy
    <2>2. intent' = [intent EXCEPT ![o] = NoIntent] \/ intent' = [intent EXCEPT ![o] = intent[o]]
      BY <1>9 DEF Forget
    <2>3. UNCHANGED <<account, clock, receipt, image, usage, presence, store, up, faults>>
      BY <1>9 DEF Forget
    <2>4. IntentsOK'
      <3>1. NoIntent \in IntentType
        BY DEF NoIntent, IntentType
      <3>2. o \in Obs
        BY <1>9 DEF Forget, SweepSide, SweepAddressed, Busy
      <3> QED
        BY <2>2, <3>1, <3>2 DEF DbOK, IntentsOK
    <2>5. DbOK'
      BY <2>3, <2>4, ReceiptFrame DEF DbOK, ImagesOK, CountersOK
    <2> QED
      BY <2>1, <2>3, <2>5, SweepUpdate, AccountFrame, ClockFrame, StoreFrame, RequestFrame
  <1>10. CASE End
    <2>1. sweep' = Idle /\ UNCHANGED <<account, clock, db, store, up, faults>>
      BY <1>10 DEF End
    <2> QED
      BY <2>1, IdleType, SweepUpdate, AccountFrame, ClockFrame, DbFrame, StoreFrame, RequestFrame
  <1> QED
    BY <1>1, <1>2, <1>3, <1>4, <1>5, <1>6, <1>7, <1>8, <1>9, <1>10 DEF SweepStep

LEMMA FaultShape ==
  ASSUME Shape, StorageError \/ Die
  PROVE  Shape'
  <1> USE DEF Shape
  <1>1. sweep' \in SweepType /\ sweep'.pc \notin Busy
    <2>1. sweep \in SweepType
      BY DEF SweepSide, WorkerOK
    <2>2. CASE StorageError
      BY <2>1, <2>2, NoObjectType DEF StorageError, SweepType, Busy
    <2>3. CASE Die
      BY <2>3, IdleType DEF Die
    <2> QED
      BY <2>2, <2>3
  <1>2. faults' \in 0..MaxFaults
    BY ConstantsAssumption DEF StorageError, Die, SweepSide, WorkerOK
  <1>3. UNCHANGED <<account, clock, db, store, up>>
    BY DEF StorageError, Die
  <1>4. SweepSide'
    BY <1>1, <1>2 DEF SweepSide, WorkerOK, SweepAddressed
  <1> QED
    BY <1>3, <1>4, AccountFrame, ClockFrame, DbFrame, StoreFrame, RequestFrame

(***************************************************************************)
(* Lifecycle and time.                                                     *)
(***************************************************************************)

LEMMA AccountShape ==
  ASSUME Shape, Account
  PROVE  Shape'
  <1> USE DEF Shape
  <1>1. AccountOK'
    <2>1. events' \in 0..MaxAccount
      <3>1. events < MaxAccount /\ events' = events + 1
        BY DEF Account, Reissue, Revoke, SetCapability, DeleteDevice, Event
      <3> QED
        BY <3>1, ConstantsAssumption DEF AccountOK
    <2>2. token' \in Nat \ {0}
      <3>1. token' = token \/ token' = token + 1
        BY DEF Account, Reissue, Revoke, SetCapability, DeleteDevice
      <3> QED
        BY <3>1 DEF AccountOK
    <2>3. device' \in {"active", "revoked", "deleted"} /\ enabled' \in BOOLEAN
      <3>1. CASE Reissue
        BY <3>1 DEF Reissue, AccountOK
      <3>2. CASE Revoke
        BY <3>2 DEF Revoke, AccountOK
      <3>3. CASE SetCapability
        BY <3>3 DEF SetCapability, AccountOK
      <3>4. CASE DeleteDevice
        BY <3>4 DEF DeleteDevice, AccountOK
      <3> QED
        BY <3>1, <3>2, <3>3, <3>4 DEF Account
    <2> QED
      BY <2>1, <2>2, <2>3 DEF AccountOK
  <1>2. UNCHANGED <<clock, store, up, worker>>
    BY DEF Account, Reissue, Revoke, SetCapability, DeleteDevice
  <1>3. DbOK'
    <2>1. CASE Reissue \/ Revoke \/ SetCapability
      BY <2>1, DbFrame DEF Reissue, Revoke, SetCapability
    <2>2. CASE DeleteDevice
      <3>1. ReceiptsOK' /\ RowChecks'
        BY <2>2 DEF DeleteDevice, ReceiptsOK, RowChecks, NoReceipt, ReceiptType, Leases
      <3>2. ImagesOK' /\ CountersOK'
        BY <2>2 DEF DeleteDevice, ImagesOK, CountersOK, NoImage
      <3>3. IntentsOK'
        <4>1. ASSUME NEW o \in Obs
              PROVE  (IF image[o].row THEN Queued(intent[o], image[o].gen) ELSE intent[o]) \in IntentType
          BY RowType, QueuedType
        <4> QED
          BY <2>2, <4>1 DEF DeleteDevice, IntentsOK
      <3> QED
        BY <3>1, <3>2, <3>3 DEF DbOK
    <2> QED
      BY <2>1, <2>2 DEF Account
  <1> QED
    BY <1>1, <1>2, <1>3, ClockFrame, StoreFrame, RequestFrame, SweepFrame

LEMMA TimeShape ==
  ASSUME Shape, Time
  PROVE  Shape'
  <1> USE DEF Shape
  <1>1. CASE NextDay
    <2>1. ClockOK'
      BY <1>1, ConstantsAssumption DEF NextDay, ClockOK, Days
    <2>2. UNCHANGED <<account, db, store, up, worker>>
      BY <1>1 DEF NextDay
    <2> QED
      BY <2>1, <2>2, AccountFrame, DbFrame, StoreFrame, RequestFrame, SweepFrame
  <1>2. ASSUME NEW o \in Obs, Grow(o)
        PROVE  Shape'
    <2>1. ClockOK'
      BY <1>2 DEF Grow, ClockOK
    <2>2. UNCHANGED <<account, db, store, up, worker>>
      BY <1>2 DEF Grow
    <2> QED
      BY <2>1, <2>2, AccountFrame, DbFrame, StoreFrame, RequestFrame, SweepFrame
  <1>3. ASSUME NEW o \in Obs, Lapse(o)
        PROVE  Shape'
    <2> DEFINE r == [receipt[o] EXCEPT !.live = FALSE]
    <2>1. /\ r \in ReceiptType /\ r.live = FALSE /\ r.state = receipt[o].state
          /\ r.lease = receipt[o].lease /\ r.received = receipt[o].received
      BY RowType DEF ReceiptType
    <2>2. receipt' = [receipt EXCEPT ![o] = r]
      BY <1>3 DEF Lapse
    <2>3. UNCHANGED <<account, clock, image, intent, usage, presence, store, up, worker>>
      BY <1>3 DEF Lapse
    <2> HIDE DEF r
    <2>4. /\ receipt[o].state = "reserved" <=> receipt[o].lease # NoOne
          /\ receipt[o].state \in {"none", "reserved", "failed"} => receipt[o].received = 0
          /\ receipt[o].state = "stored" => receipt[o].received # 0
      BY DEF DbOK, RowChecks
    <2>5. ReceiptsOK' /\ RowChecks'
      BY <2>1, <2>2, <2>4, ReceiptUpdate DEF DbOK
    <2>6. DbOK'
      BY <2>3, <2>5 DEF DbOK, ImagesOK, IntentsOK, CountersOK
    <2> QED
      BY <2>3, <2>6, AccountFrame, ClockFrame, StoreFrame, RequestFrame, SweepFrame
  <1>4. ASSUME NEW o \in Obs, IntentDue(o)
        PROVE  Shape'
    <2>1. intent' = [intent EXCEPT ![o] = [intent[o] EXCEPT !.due = TRUE]]
      BY <1>4 DEF IntentDue
    <2>2. UNCHANGED <<account, clock, receipt, image, usage, presence, store, up, worker>>
      BY <1>4 DEF IntentDue
    <2>3. IntentsOK'
      BY <2>1, RowType DEF DbOK, IntentsOK, IntentType
    <2>4. DbOK'
      BY <2>2, <2>3, ReceiptFrame DEF DbOK, ImagesOK, CountersOK
    <2> QED
      BY <2>2, <2>4, AccountFrame, ClockFrame, StoreFrame, RequestFrame, SweepFrame
  <1>5. ASSUME NEW o \in Obs, ObjectAged(o)
        PROVE  Shape'
    <2>1. object' = [object EXCEPT ![o] = [object[o] EXCEPT !.aged = TRUE]]
      BY <1>5 DEF ObjectAged
    <2>2. UNCHANGED <<account, clock, db, gens, deletes, up, worker>>
      BY <1>5 DEF ObjectAged
    <2>3. StoreOK'
      BY <2>1, <2>2 DEF StoreOK, ObjectType
    <2> QED
      BY <2>2, <2>3, AccountFrame, ClockFrame, DbFrame, RequestFrame, SweepFrame
  <1> QED
    BY <1>1, <1>2, <1>3, <1>4, <1>5 DEF Time

LEMMA NextShape == Shape /\ [Next]_vars => Shape'
  <1> SUFFICES ASSUME Shape, [Next]_vars PROVE Shape'
    OBVIOUS
  <1>1. CASE UNCHANGED vars
    BY <1>1, AccountFrame, ClockFrame, DbFrame, StoreFrame, RequestFrame, SweepFrame DEF vars, Shape
  <1>2. CASE Next
    BY <1>2, RequestStepShape, BucketShape, SweepStepShape, FaultShape, AccountShape, TimeShape DEF Next
  <1> QED
    BY <1>1, <1>2

\* Every reachable state has the shape the code gives its tables, objects, requests
\* and sweep, and no transaction breaks a CHECK constraint of observation_receipts.
THEOREM TypeCorrect == Spec => []TypeOK
  <1>1. Spec => []Shape
    BY InitShape, NextShape, PTL DEF Spec
  <1> QED
    BY <1>1, ShapeGivesTypes, PTL

(***************************************************************************)
(* Media safety.  The invariant follows an observation through its life:   *)
(* nothing about it, reserved or stored with an image row, and closed for  *)
(* good.  Deletion work exists only for closed observations, so an object  *)
(* cannot change while a row refers to it, and whoever read the object     *)
(* still knows it when it finalizes.                                       *)
(***************************************************************************)

\* States of a receipt that owns an image row.
Kept == {"reserved", "stored", "failed"}

\* The observation has been reserved at some time.
Known(o) == receipt[o].state # "none" \/ device = "deleted"

\* No image row will ever exist for it again.
Closed(o) == receipt[o].state = "expired" \/ device = "deleted"

RowsMatch == \A o \in Obs : image[o].row <=> receipt[o].state \in Kept
DeletedEmpty == device = "deleted" => \A o \in Obs : receipt[o].state = "none"
ObjectsKnown == \A o \in Obs : object[o].gen # 0 => Known(o)
IntentsClosed == \A o \in Obs : intent[o].queued => Closed(o)
DeletesClosed == \A d \in deletes : Closed(d[1])
Deleting == {"resolve", "erase", "erasing", "forget"}
SweepWork ==
  /\ sweep.pc \in Deleting \cup {"delete"} => \A o \in sweep.todo : Closed(o)
  /\ sweep.pc \in Deleting => Closed(sweep.at)
  /\ sweep.pc = "scan" => \A o \in sweep.todo : Known(o)
  /\ sweep.pc \in {"head", "settle"} => Known(sweep.at)

\* x, read from o's key, is still there if o has a row.
Current(o, x) == image[o].row => object[o].gen = x.gen /\ object[o].fp = x.fp

SweepCurrent == sweep.pc = "settle" /\ sweep.seen.gen # 0 => Current(sweep.at, sweep.seen)

\* A request past its reservation knows the object it read or wrote, and an
\* acknowledged image is stored, or expired because its retention ended.
RequestGood(r) ==
  /\ r.pc = "new" => r.put = "none"
  /\ r.pc \in {"sent", "held"} \/ r.put # "none" => Known(r.obs)
  /\ r.pc = "held" \/ (r.pc = "sent" /\ r.put = "created") => r.obj.gen # 0 /\ Current(r.obs, r.obj)
  /\ r.resp = "acked" =>
       /\ r.pc = "done" /\ r.obs \in Obs
       /\ \/ device = "deleted"
          \/ /\ receipt[r.obs].fp = r.fp
             /\ \/ receipt[r.obs].state = "stored"
                \/ receipt[r.obs].state = "expired" /\ age[r.obs] = "gone"

RowInv == RowsMatch /\ DeletedEmpty
QueueInv == ObjectsKnown /\ IntentsClosed /\ DeletesClosed
RequestInv == \A u \in Uploads : RequestGood(up[u])
SweepInv == SweepWork /\ SweepCurrent
Media == RowInv /\ QueueInv /\ RequestInv /\ SweepInv /\ StoredMediaIntact


\* What every step does to the life of an observation.
Onward == \A o \in Obs : (Known(o) => Known(o)') /\ (Closed(o) => Closed(o)')

\* An object that a row refers to, or will refer to, does not change.
Persist ==
  \A o \in Obs : Known(o) /\ image'[o].row =>
    /\ image[o].row
    /\ object[o].gen # 0 => object'[o].gen = object[o].gen /\ object'[o].fp = object[o].fp

\* A stored receipt stays stored, or expires when its retention is over.
Honour ==
  \/ device' = "deleted"
  \/ /\ device # "deleted"
     /\ \A o \in Obs :
          /\ receipt[o].state = "stored" =>
               /\ receipt'[o].fp = receipt[o].fp
               /\ receipt'[o].state = "stored" \/ (receipt'[o].state = "expired" /\ age'[o] = "gone")
          /\ receipt[o].state = "expired" /\ age[o] = "gone" =>
               receipt'[o].fp = receipt[o].fp /\ receipt'[o].state = "expired" /\ age'[o] = "gone"

\* A request that a step leaves alone stays good.
LEMMA RequestStaysGood ==
  ASSUME RequestSide, Onward, Persist, Honour, NEW u \in Uploads, RequestGood(up[u])
  PROVE  RequestGood(up[u])'  \/ up'[u] # up[u]
  <1> SUFFICES ASSUME up'[u] = up[u] PROVE RequestGood(up[u])'
    OBVIOUS
  <1> DEFINE r == up[u]
  <1>1. r.pc # "new" \/ r.put # "none" => r.obs \in Obs
    BY DEF RequestSide, RequestsAddressed
  <1>2. ASSUME r.pc \in {"sent", "held"} \/ r.put # "none" PROVE Known(r.obs)'
    BY <1>1, <1>2 DEF RequestGood, Onward
  <1>3. ASSUME r.pc = "held" \/ (r.pc = "sent" /\ r.put = "created")
        PROVE  r.obj.gen # 0 /\ Current(r.obs, r.obj)'
    <2>1. r.obs \in Obs /\ Known(r.obs) /\ r.obj.gen # 0 /\ Current(r.obs, r.obj)
      BY <1>1, <1>3 DEF RequestGood
    <2> QED
      BY <2>1 DEF Persist, Current
  <1>4. ASSUME r.resp = "acked"
        PROVE  /\ r.pc = "done" /\ r.obs \in Obs
               /\ \/ device' = "deleted"
                  \/ /\ receipt'[r.obs].fp = r.fp
                     /\ \/ receipt'[r.obs].state = "stored"
                        \/ receipt'[r.obs].state = "expired" /\ age'[r.obs] = "gone"
    BY <1>4 DEF RequestGood, Honour
  <1> QED
    BY <1>2, <1>3, <1>4 DEF RequestGood, Known, Current

LEMMA RequestsStayGood ==
  ASSUME RequestSide, RequestInv, Onward, Persist, Honour, UNCHANGED up
  PROVE  RequestInv'
  BY RequestStaysGood DEF RequestInv

LEMMA RequestMoves ==
  ASSUME RequestSide, RequestInv, Onward, Persist, Honour, NEW u \in Uploads, NEW r,
         up' = [up EXCEPT ![u] = r], RequestGood(up[u])'
  PROVE  RequestInv'
  <1>1. \A v \in Uploads \ {u} : up'[v] = up[v]
    BY DEF RequestSide, RequestsOK
  <1> QED
    BY <1>1, RequestStaysGood DEF RequestInv

\* A sweep that a step leaves alone keeps its part of the invariant.
LEMMA SweepStays ==
  ASSUME SweepSide, SweepInv, Onward, Persist, UNCHANGED sweep
  PROVE  SweepInv'
  <1>1. sweep.todo \subseteq Obs /\ (sweep.pc \in Busy => sweep.at \in Obs)
    BY DEF SweepSide, WorkerOK, SweepType, SweepAddressed
  <1>2. SweepWork'
    BY <1>1 DEF SweepInv, SweepWork, Onward, Busy, Deleting
  <1>3. SweepCurrent'
    BY <1>1 DEF SweepInv, SweepWork, SweepCurrent, Persist, Current, Busy
  <1> QED
    BY <1>2, <1>3 DEF SweepInv

\* Deletion work and objects.
LEMMA QueueMoves ==
  ASSUME QueueInv, Onward, StoreOK,
         \A o \in Obs : object'[o].gen # 0 => object[o].gen # 0 \/ Known(o)',
         \A o \in Obs : intent'[o].queued => intent[o].queued \/ Closed(o)',
         \A d \in deletes' : d \in deletes \/ Closed(d[1])'
  PROVE  QueueInv'
  <1>1. ObjectsKnown'
    BY DEF QueueInv, ObjectsKnown, Onward
  <1>2. IntentsClosed'
    BY DEF QueueInv, IntentsClosed, Onward
  <1>3. DeletesClosed'
    <2> SUFFICES ASSUME NEW d \in deletes' PROVE Closed(d[1])'
      BY DEF DeletesClosed
    <2>1. CASE d \in deletes
      BY <2>1 DEF QueueInv, DeletesClosed, Onward, StoreOK
    <2> QED
      BY <2>1
  <1> QED
    BY <1>1, <1>2, <1>3 DEF QueueInv

LEMMA InitMedia == Init => Media
  <1> SUFFICES ASSUME Init PROVE Media
    OBVIOUS
  <1> USE DEF Init
  <1>1. RowInv /\ StoredMediaIntact
    BY DEF RowInv, RowsMatch, DeletedEmpty, StoredMediaIntact, Kept, NoImage, NoReceipt
  <1>2. QueueInv
    BY DEF QueueInv, ObjectsKnown, IntentsClosed, DeletesClosed, NoObject, NoIntent
  <1>3. RequestInv
    BY DEF RequestInv, RequestGood
  <1>4. SweepInv
    BY DEF SweepInv, SweepWork, SweepCurrent, Idle, Deleting
  <1> QED
    BY <1>1, <1>2, <1>3, <1>4 DEF Media

\* A step of a request or of the sweep that touches neither tables nor bucket.
LEMMA StillWorld ==
  ASSUME Shape, Media, UNCHANGED <<account, clock, db, store>>
  PROVE  Onward /\ Persist /\ Honour /\ RowInv' /\ QueueInv' /\ StoredMediaIntact'
  <1>1. UNCHANGED <<device, age, receipt, image, intent, object, deletes>>
    BY DEF account, clock, db, store
  <1>2. Onward
    BY <1>1 DEF Onward, Known, Closed
  <1>3. Persist
    BY <1>1 DEF Persist, Media
  <1>4. Honour
    BY <1>1 DEF Honour
  <1>5. RowInv' /\ StoredMediaIntact'
    BY <1>1 DEF Media, RowInv, RowsMatch, DeletedEmpty, StoredMediaIntact
  <1>6. QueueInv'
    BY <1>1, <1>2, QueueMoves DEF Media, Shape
  <1> QED
    BY <1>2, <1>3, <1>4, <1>5, <1>6

\* A refused request is good whatever it was doing.
LEMMA EndedGood ==
  ASSUME RequestSide, NEW u \in Uploads, NEW code, up[u].pc # "new", RequestGood(up[u]),
         code \in {200, 201} =>
           /\ receipt[up[u].obs].fp = up[u].fp
           /\ receipt[up[u].obs].state = "stored"
  PROVE  RequestGood(Ended(up[u], code))
  <1>1. up[u].obs \in Obs
    BY DEF RequestSide, RequestsAddressed
  <1> QED
    BY <1>1 DEF RequestGood, Ended

\* A request moves on by itself.
LEMMA RequestOnly ==
  ASSUME Shape, Media, NEW u \in Uploads, NEW r, RequestGood(r),
         up' = [up EXCEPT ![u] = r], UNCHANGED <<account, clock, db, store, worker>>
  PROVE  Media'
  <1>1. Onward /\ Persist /\ Honour /\ RowInv' /\ QueueInv' /\ StoredMediaIntact'
    BY StillWorld
  <1>2. up'[u] = r
    BY DEF Shape, RequestSide, RequestsOK
  <1>3. UNCHANGED <<device, age, receipt, image, object, sweep>>
    BY DEF account, clock, db, store, worker
  <1>4. RequestGood(up[u])'
    BY <1>2, <1>3 DEF RequestGood, Known, Current
  <1>5. RequestInv'
    BY <1>1, <1>4, RequestMoves DEF Shape, Media
  <1>6. SweepInv'
    BY <1>1, <1>3, SweepStays DEF Shape, Media
  <1> QED
    BY <1>1, <1>5, <1>6 DEF Media

LEMMA ArriveMedia ==
  ASSUME Shape, Media, NEW u \in Uploads, NEW o \in Obs, NEW f \in Prints, NEW c \in Nat,
         Arrive(u, o, f, c)
  PROVE  Media'
  <1> DEFINE r == [up[u] EXCEPT !.obs = o, !.fp = f,
                   !.cred = IF Authorized(c) THEN c ELSE 0,
                   !.day = IF Authorized(c) THEN day ELSE 0,
                   !.age = IF Authorized(c) THEN age[o] ELSE "fresh",
                   !.pc = IF Authorized(c) THEN "admitted" ELSE "done",
                   !.resp = IF Authorized(c) THEN "none" ELSE "refused"]
  <1>1. up' = [up EXCEPT ![u] = r] /\ UNCHANGED <<account, clock, db, store, worker>>
    BY DEF Arrive
  <1>2. up[u].pc = "new" /\ up[u] \in RequestType
    BY DEF Arrive, Shape, RequestSide, RequestsOK
  <1>3. up[u].put = "none"
    BY <1>2 DEF Media, RequestInv, RequestGood
  <1>4. r.pc \in {"admitted", "done"} /\ r.put = "none" /\ r.resp # "acked"
    BY <1>2, <1>3 DEF RequestType
  <1> HIDE DEF r
  <1>5. RequestGood(r)
    BY <1>4 DEF RequestGood
  <1> QED
    BY <1>1, <1>5, RequestOnly

\* The responses that do not change the database.
LEMMA ReplyMedia ==
  ASSUME Shape, Media, NEW u \in Uploads, NEW code, Reply(u, code), up[u].pc # "new",
         UNCHANGED <<account, clock, db, store, worker>>,
         code \in {200, 201} =>
           /\ receipt[up[u].obs].fp = up[u].fp
           /\ receipt[up[u].obs].state = "stored"
  PROVE  Media'
  <1>1. up' = [up EXCEPT ![u] = Ended(up[u], code)]
    BY DEF Reply
  <1>2. RequestGood(Ended(up[u], code))
    BY EndedGood DEF Shape, Media, RequestInv
  <1> QED
    BY <1>1, <1>2, RequestOnly

LEMMA RejectMedia ==
  ASSUME Shape, Media, NEW u \in Uploads,
         ReserveReject(u) \/ FinalizeReject(u) \/ Abort(u)
  PROVE  Media'
  <1>1. CASE ReserveReject(u)
    <2>1. /\ up[u].pc = "admitted" /\ Reply(u, ReserveAnswer(u))
          /\ UNCHANGED <<account, clock, db, store, worker>>
      BY <1>1 DEF ReserveReject
    <2>2. ReserveAnswer(u) \in {200, 201} =>
            receipt[up[u].obs].fp = up[u].fp /\ receipt[up[u].obs].state = "stored"
      BY DEF ReserveAnswer
    <2> QED
      BY <2>1, <2>2, ReplyMedia
  <1>2. CASE FinalizeReject(u)
    <2>1. /\ up[u].pc = "held" /\ Reply(u, FinalizeAnswer(u))
          /\ UNCHANGED <<account, clock, db, store, worker>>
      BY <1>2 DEF FinalizeReject
    <2>2. FinalizeAnswer(u) \notin {200, 201}
      BY DEF FinalizeAnswer
    <2> QED
      BY <2>1, <2>2, ReplyMedia
  <1>3. CASE Abort(u)
    <2>1. /\ up[u].pc # "new" /\ Reply(u, 503)
          /\ UNCHANGED <<account, clock, db, store, worker>>
      BY <1>3 DEF Abort
    <2> QED
      BY <2>1, ReplyMedia
  <1> QED
    BY <1>1, <1>2, <1>3

LEMMA AnswerMedia ==
  ASSUME Shape, Media, NEW u \in Uploads,
         Created(u) \/ HeadExisting(u) \/ StoreLose(u)
  PROVE  Media'
  <1>0. up[u] \in RequestType /\ RequestGood(up[u])
    BY DEF Shape, RequestSide, RequestsOK, Media, RequestInv
  <1>1. CASE Created(u)
    <2> DEFINE r == [up[u] EXCEPT !.pc = "held"]
    <2>1. /\ up' = [up EXCEPT ![u] = r] /\ UNCHANGED <<account, clock, db, store, worker>>
          /\ up[u].pc = "sent" /\ up[u].put = "created"
      BY <1>1 DEF Created
    <2>2. /\ r.pc = "held" /\ r.put = up[u].put /\ r.resp = up[u].resp
          /\ r.obs = up[u].obs /\ r.obj = up[u].obj
      BY <1>0 DEF RequestType
    <2> HIDE DEF r
    <2>3. RequestGood(r)
      BY <1>0, <2>1, <2>2 DEF RequestGood
    <2> QED
      BY <2>1, <2>3, RequestOnly
  <1>2. CASE HeadExisting(u)
    <2>1. up[u].pc = "sent" /\ up[u].put = "exists" /\ UNCHANGED <<account, clock, db, store, worker>>
      BY <1>2 DEF HeadExisting
    <2>2. CASE object[up[u].obs].gen = 0
      <3>1. Reply(u, 503)
        BY <1>2, <2>2 DEF HeadExisting
      <3> QED
        BY <2>1, <3>1, ReplyMedia
    <2>3. CASE object[up[u].obs].gen # 0
      <3> DEFINE r == [up[u] EXCEPT !.pc = "held", !.obj = object[up[u].obs]]
      <3>1. up' = [up EXCEPT ![u] = r]
        BY <1>2, <2>3 DEF HeadExisting
      <3>2. /\ r.pc = "held" /\ r.put = up[u].put /\ r.resp = up[u].resp
            /\ r.obs = up[u].obs /\ r.obj = object[up[u].obs]
        BY <1>0 DEF RequestType
      <3> HIDE DEF r
      <3>3. RequestGood(r)
        BY <1>0, <2>1, <2>3, <3>2 DEF RequestGood, Current
      <3> QED
        BY <2>1, <3>1, <3>3, RequestOnly
    <2> QED
      BY <2>2, <2>3
  <1>3. CASE StoreLose(u)
    <2> DEFINE r == [up[u] EXCEPT !.put = "none"]
    <2>1. /\ up' = [up EXCEPT ![u] = r] /\ UNCHANGED <<account, clock, db, store, worker>>
          /\ up[u].pc = "done"
      BY <1>3 DEF StoreLose
    <2>2. /\ r.pc = "done" /\ r.put = "none" /\ r.resp = up[u].resp
          /\ r.obs = up[u].obs /\ r.fp = up[u].fp
      BY <1>0, <2>1 DEF RequestType
    <2> HIDE DEF r
    <2>3. RequestGood(r)
      BY <1>0, <2>1, <2>2 DEF RequestGood
    <2> QED
      BY <2>1, <2>3, RequestOnly
  <1> QED
    BY <1>1, <1>2, <1>3

\* What a step that respects the tables and the bucket owes to everyone else.
World == Onward /\ Persist /\ Honour /\ RowInv' /\ QueueInv' /\ StoredMediaIntact'

\* One receipt of a live device is reserved, given back or stored.
LEMMA RowKept ==
  ASSUME Shape, Media, NEW o \in Obs, NEW r, NEW i,
         device # "deleted", receipt[o].state \in {"none", "reserved", "failed"},
         receipt' = [receipt EXCEPT ![o] = r], r.state \in Kept,
         image' = [image EXCEPT ![o] = i], i.row = TRUE,
         r.state = "stored" => i.gen # 0 /\ object[o].gen = i.gen /\ object[o].fp = r.fp,
         UNCHANGED <<device, age, intent, store>>
  PROVE  World
  <1>1. UNCHANGED <<object, deletes>>
    BY DEF store
  <1>2. receipt'[o] = r /\ \A p \in Obs \ {o} : receipt'[p] = receipt[p]
    BY DEF Shape, DbOK, ReceiptsOK
  <1>3. image'[o] = i /\ \A p \in Obs \ {o} : image'[p] = image[p]
    BY DEF Shape, DbOK, ImagesOK
  <1>4. Onward
    BY <1>2 DEF Onward, Known, Closed, Kept
  <1>5. Persist
    BY <1>1, <1>3 DEF Persist, Known, Media, RowInv, RowsMatch, Kept
  <1>6. Honour
    BY <1>2 DEF Honour
  <1>7. RowInv'
    BY <1>2, <1>3 DEF Media, RowInv, RowsMatch, DeletedEmpty
  <1>8. QueueInv'
    BY <1>1, <1>4, QueueMoves DEF Shape, Media
  <1>9. StoredMediaIntact'
    BY <1>1, <1>2, <1>3 DEF Media, StoredMediaIntact
  <1> QED
    BY <1>4, <1>5, <1>6, <1>7, <1>8, <1>9 DEF World

\* One receipt expires, a stored one only after its retention.
LEMMA RowExpired ==
  ASSUME Shape, Media, NEW o \in Obs, Expire(o), receipt[o].state \in Kept,
         receipt[o].state = "stored" => age[o] = "gone",
         UNCHANGED <<device, age, store>>
  PROVE  World
  <1>1. UNCHANGED <<object, deletes>>
    BY DEF store
  <1> DEFINE r == [Released(receipt[o]) EXCEPT !.state = "expired"]
  <1>a. receipt' = [receipt EXCEPT ![o] = r] /\ image' = [image EXCEPT ![o] = NoImage]
    BY DEF Expire
  <1>b. r.state = "expired" /\ r.fp = receipt[o].fp
    BY RowType DEF Shape, Released, ReceiptType
  <1> HIDE DEF r
  <1>2. receipt'[o] = r /\ \A p \in Obs \ {o} : receipt'[p] = receipt[p]
    BY <1>a DEF Shape, DbOK, ReceiptsOK
  <1>3. image'[o].row = FALSE /\ \A p \in Obs \ {o} : image'[p] = image[p]
    BY <1>a DEF Shape, DbOK, ImagesOK, NoImage
  <1>4. Onward
    BY <1>2, <1>b DEF Onward, Known, Closed
  <1>5. Persist
    BY <1>1, <1>3 DEF Persist
  <1>6. Honour
    BY <1>2, <1>b DEF Honour, Kept
  <1>7. RowInv'
    BY <1>2, <1>3, <1>b DEF Media, RowInv, RowsMatch, DeletedEmpty, Kept
  <1>8. QueueInv'
    <2>1. \A p \in Obs \ {o} : intent'[p] = intent[p]
      BY DEF Expire, Shape, DbOK, IntentsOK
    <2>2. Closed(o)'
      BY <1>2, <1>b DEF Closed
    <2> QED
      BY <2>1, <2>2, <1>1, <1>4, QueueMoves DEF Shape, Media
  <1>9. StoredMediaIntact'
    BY <1>1, <1>2, <1>3, <1>b DEF Media, StoredMediaIntact
  <1> QED
    BY <1>4, <1>5, <1>6, <1>7, <1>8, <1>9 DEF World

\* A request, the sweep or neither moves together with the tables or the bucket.
LEMMA RequestWithWorld ==
  ASSUME Shape, Media, World, NEW u \in Uploads, NEW r,
         up' = [up EXCEPT ![u] = r], RequestGood(up[u])', UNCHANGED sweep
  PROVE  Media'
  <1>1. RequestInv'
    BY RequestMoves DEF Shape, Media, World
  <1>2. SweepInv'
    BY SweepStays DEF Shape, Media, World
  <1> QED
    BY <1>1, <1>2 DEF Media, World

LEMMA SweepWithWorld ==
  ASSUME Shape, Media, World, SweepInv', UNCHANGED up
  PROVE  Media'
  BY RequestsStayGood DEF Shape, Media, World

LEMMA WorldAlone ==
  ASSUME Shape, Media, World, UNCHANGED <<up, sweep>>
  PROVE  Media'
  BY SweepWithWorld, SweepStays DEF Shape, Media, World

LEMMA ReserveMedia ==
  ASSUME Shape, Media, NEW u \in Uploads, Reserve(u)
  PROVE  Media'
  <1> DEFINE o == up[u].obs
             r == [up[u] EXCEPT !.pc = "sent", !.put = "sent"]
             w == Reservation(receipt[o], u)
             i == [image[o] EXCEPT !.row = TRUE]
  <1>1. up[u].pc = "admitted" /\ up[u] \in RequestType /\ o \in Obs
    BY DEF Reserve, Shape, RequestSide, RequestsOK, RequestsAddressed
  <1>2. /\ up' = [up EXCEPT ![u] = r] /\ receipt' = [receipt EXCEPT ![o] = w]
        /\ image' = [image EXCEPT ![o] = i]
        /\ UNCHANGED <<device, age, intent, store, sweep>>
    BY DEF Reserve, account, clock, worker
  <1>3. device # "deleted" /\ receipt[o].state \in {"none", "reserved", "failed"}
    <2>1. ReserveAnswer(u) = 0
      BY DEF Reserve
    <2>2. receipt[o] \in ReceiptType
      BY <1>1, RowType DEF Shape
    <2> QED
      BY <2>1, <2>2 DEF ReserveAnswer, Authorized, Tombstone, ReceiptType
  <1>4. w.state = "reserved" /\ i.row = TRUE
    BY <1>1, RowType DEF Shape, Reservation, ReceiptType
  <1>5. r.pc = "sent" /\ r.put = "sent" /\ r.obs = o /\ r.resp = up[u].resp
    BY <1>1 DEF RequestType
  <1>6. up[u].resp # "acked"
    BY <1>1 DEF Media, RequestInv, RequestGood
  <1>7. up'[u] = r /\ receipt'[o] = w
    BY <1>1, <1>2 DEF Shape, RequestSide, RequestsOK, DbOK, ReceiptsOK
  <1> HIDE DEF r, w, i
  <1>8. World
    BY <1>1, <1>2, <1>3, <1>4, RowKept DEF Kept
  <1>9. RequestGood(up[u])'
    BY <1>4, <1>5, <1>6, <1>7 DEF RequestGood, Known
  <1> QED
    BY <1>2, <1>8, <1>9, RequestWithWorld

LEMMA FinalizeMedia ==
  ASSUME Shape, Media, NEW u \in Uploads, Finalize(u)
  PROVE  Media'
  <1> DEFINE o == up[u].obs
             r == Ended(up[u], 201)
             w == [Released(receipt[o]) EXCEPT !.state = "stored", !.received = day]
             i == [image[o] EXCEPT !.gen = up[u].obj.gen]
  <1>1. up[u].pc = "held" /\ up[u] \in RequestType /\ o \in Obs
    BY DEF Finalize, Shape, RequestSide, RequestsOK, RequestsAddressed
  <1>2. /\ up' = [up EXCEPT ![u] = r] /\ receipt' = [receipt EXCEPT ![o] = w]
        /\ image' = [image EXCEPT ![o] = i]
        /\ UNCHANGED <<device, age, intent, store, sweep>>
    BY DEF Finalize, Reply, Accept, account, clock, worker
  <1>3. /\ device = "active" /\ receipt[o].state = "reserved"
        /\ receipt[o].fp = up[u].fp /\ up[u].obj.fp = up[u].fp
    <2>1. FinalizeAnswer(u) = 0
      BY DEF Finalize
    <2> QED
      BY <2>1 DEF FinalizeAnswer, Authorized, LeaseHeld
  <1>4. w.state = "stored" /\ w.fp = receipt[o].fp /\ i.row = image[o].row /\ i.gen = up[u].obj.gen
    BY <1>1, RowType DEF Shape, Released, ReceiptType
  <1>5. image[o].row = TRUE
    <2>1. image[o].row \in BOOLEAN
      BY <1>1, RowType DEF Shape
    <2> QED
      BY <1>1, <1>3, <2>1 DEF Media, RowInv, RowsMatch, Kept
  <1>6. up[u].obj.gen # 0 /\ object[o].gen = up[u].obj.gen /\ object[o].fp = up[u].obj.fp
    BY <1>1, <1>5 DEF Media, RequestInv, RequestGood, Current
  <1>7. up'[u] = r /\ receipt'[o] = w
    BY <1>1, <1>2 DEF Shape, RequestSide, RequestsOK, DbOK, ReceiptsOK
  <1>8. /\ r.pc = "done" /\ r.obs = o /\ r.fp = up[u].fp
    BY DEF Ended
  <1> HIDE DEF r, w, i
  <1>9. World
    <2>1. /\ i.row = TRUE /\ i.gen # 0 /\ object[o].gen = i.gen /\ object[o].fp = w.fp
          /\ device # "deleted" /\ receipt[o].state \in {"none", "reserved", "failed"}
      BY <1>3, <1>4, <1>5, <1>6
    <2>2. w.state \in Kept
      BY <1>4 DEF Kept
    <2> HIDE DEF o
    <2> QED
      BY <1>1, <1>2, <2>1, <2>2, RowKept
  <1>10. RequestGood(up[u])'
    BY <1>1, <1>3, <1>4, <1>7, <1>8 DEF RequestGood, Known
  <1> QED
    BY <1>2, <1>9, <1>10, RequestWithWorld

LEMMA CreateMedia ==
  ASSUME Shape, Media, NEW u \in Uploads, StoreCreate(u)
  PROVE  Media'
  <1>0. up[u].put = "sent" /\ up[u] \in RequestType /\ up[u].obs \in Obs
    BY DEF StoreCreate, Shape, RequestSide, RequestsOK, RequestsAddressed
  <1> SUFFICES ASSUME NEW o \in Obs, o = up[u].obs,
                      NEW x, x = [gen |-> gens[o] + 1, fp |-> up[u].fp, aged |-> FALSE],
                      NEW q, q = up[u]
               PROVE  Media'
    BY <1>0
  <1>1. q \in RequestType /\ q.put = "sent" /\ q.obs = o /\ RequestGood(q)
    BY <1>0 DEF Media, RequestInv
  <1>2. UNCHANGED <<device, age, receipt, image, intent, deletes, sweep>>
    BY DEF StoreCreate, account, clock, db, worker
  <1>3. Known(o)
    BY <1>1 DEF RequestGood
  <1>4. x.gen # 0
    BY DEF Shape, StoreOK
  <1>5. CASE object[o].gen = 0
    <2> SUFFICES ASSUME NEW r, r = Told(q, "created", x) PROVE Media'
      OBVIOUS
    <2>1. object' = [object EXCEPT ![o] = x] /\ up' = [up EXCEPT ![u] = r]
      BY <1>5 DEF StoreCreate
    <2>2. object'[o] = x /\ \A p \in Obs \ {o} : object'[p] = object[p]
      BY <2>1 DEF Shape, StoreOK
    <2>3. Onward /\ Honour /\ RowInv'
      BY <1>2 DEF Onward, Known, Closed, Honour, Media, RowInv, RowsMatch, DeletedEmpty
    <2>4. Persist
      BY <1>2, <1>5, <2>2 DEF Persist
    <2>5. Known(o)'
      BY <1>3, <2>3 DEF Onward
    <2>6. QueueInv'
      BY <1>2, <2>2, <2>3, <2>5, QueueMoves DEF Shape, Media
    <2>7. StoredMediaIntact'
      BY <1>2, <1>5, <2>2 DEF Media, StoredMediaIntact
    <2>8. World
      BY <2>3, <2>4, <2>6, <2>7 DEF World
    <2>9. up'[u] = r
      BY <2>1 DEF Shape, RequestSide, RequestsOK
    <2>10. /\ r.pc = q.pc /\ r.obs = o /\ r.resp = q.resp /\ r.fp = q.fp
           /\ r.pc # "sent" => r.put = "none" /\ r.obj = q.obj
           /\ r.pc = "sent" => r.obj = x
      BY <1>1 DEF RequestType, Told
    <2>11. q.pc # "new" /\ (q.resp = "acked" => q.pc = "done")
      BY <1>1 DEF RequestGood
    <2>12. q.pc = "held" => q.obj.gen # 0 /\ Current(o, q.obj)'
      BY <1>1, <1>3, <2>4 DEF RequestGood, Current, Persist
    <2>13. Current(o, x)'
      BY <2>2 DEF Current
    <2>14. r.pc = "held" \/ (r.pc = "sent" /\ r.put = "created") => r.obj.gen # 0 /\ Current(o, r.obj)'
      BY <1>4, <2>10, <2>12, <2>13
    <2>15. q.resp = "acked" =>
             \/ device' = "deleted"
             \/ /\ receipt'[o].fp = q.fp
                /\ \/ receipt'[o].state = "stored"
                   \/ receipt'[o].state = "expired" /\ age'[o] = "gone"
      BY <1>1, <1>2 DEF RequestGood
    <2>16. RequestGood(r)'
      BY <2>5, <2>10, <2>11, <2>14, <2>15 DEF RequestGood
    <2>17. RequestGood(up[u])'
      BY <2>9, <2>16
    <2> QED
      BY <1>2, <2>1, <2>8, <2>17, RequestWithWorld
  <1>6. CASE object[o].gen # 0
    <2> DEFINE r == Told(q, "exists", NoObject)
    <2>1. UNCHANGED <<account, clock, db, store, worker>> /\ up' = [up EXCEPT ![u] = r]
      BY <1>6 DEF StoreCreate, store
    <2>2. /\ r.pc = q.pc /\ r.obs = o /\ r.resp = q.resp /\ r.fp = q.fp
          /\ r.put \in {"none", "exists"}
          /\ r.pc # "sent" => r.put = "none" /\ r.obj = q.obj
      BY <1>1 DEF RequestType, Told
    <2> HIDE DEF r
    <2>3. RequestGood(r)
      BY <1>1, <1>3, <2>2 DEF RequestGood
    <2> QED
      BY <2>1, <2>3, RequestOnly
  <1> QED
    BY <1>5, <1>6

\* A delete only reaches an observation that no row refers to.
LEMMA DeleteMedia ==
  ASSUME Shape, Media, NEW d \in deletes, StoreDelete(d[1], d[2])
  PROVE  Media'
  <1> DEFINE o == d[1]
  <1>1. o \in Obs /\ Closed(o)
    BY DEF Shape, StoreOK, Media, QueueInv, DeletesClosed
  <1>2. image[o].row = FALSE /\ receipt[o].state # "stored"
    <2>1. image[o].row \in BOOLEAN
      BY <1>1, RowType DEF Shape
    <2> QED
      BY <1>1, <2>1 DEF Closed, Media, RowInv, RowsMatch, DeletedEmpty, Kept
  <1>3. /\ UNCHANGED <<device, age, receipt, image, intent, up, sweep>>
        /\ deletes' \subseteq deletes
    BY DEF StoreDelete, account, clock, db, worker
  <1>4. \A p \in Obs \ {o} : object'[p] = object[p]
    BY DEF StoreDelete, Shape, StoreOK
  <1>5. object'[o].gen # 0 => object[o].gen # 0
    BY <1>1 DEF StoreDelete, Shape, StoreOK, NoObject
  <1> HIDE DEF o
  <1>6. Onward /\ Honour /\ RowInv'
    BY <1>3 DEF Onward, Known, Closed, Honour, Media, RowInv, RowsMatch, DeletedEmpty
  <1>7. Persist
    BY <1>1, <1>2, <1>3, <1>4 DEF Persist
  <1>8. QueueInv'
    BY <1>1, <1>3, <1>4, <1>5, <1>6, QueueMoves DEF Shape, Media
  <1>9. StoredMediaIntact'
    BY <1>1, <1>2, <1>3, <1>4 DEF Media, StoredMediaIntact
  <1> QED
    BY <1>3, <1>6, <1>7, <1>8, <1>9, WorldAlone DEF World

(***************************************************************************)
(* The sweep.                                                              *)
(***************************************************************************)

\* The sweep moves without touching tables or bucket.
LEMMA SweepOnly ==
  ASSUME Shape, Media, SweepInv', UNCHANGED <<account, clock, db, store, up>>
  PROVE  Media'
  BY StillWorld, SweepWithWorld DEF World

\* No obligation is attached to the sweep between its phases.
LEMMA SweepFree ==
  ASSUME sweep'.pc \in {"idle", "claim"}
  PROVE  SweepInv'
  BY DEF SweepInv, SweepWork, SweepCurrent, Deleting

LEMMA ClaimPhaseMedia ==
  ASSUME Shape, Media,
         Begin \/ (\E o \in Obs : Visit(o) \/ Claim(o)) \/ Head
  PROVE  Media'
  <1>0. sweep \in SweepType
    BY DEF Shape, SweepSide, WorkerOK
  <1>1. CASE Begin
    <2>1. sweep'.pc = "claim" /\ UNCHANGED <<account, clock, db, store, up>>
      BY <1>0, <1>1 DEF Begin, SweepType
    <2> QED
      BY <2>1, SweepFree, SweepOnly
  <1>2. ASSUME NEW o \in Obs, Visit(o)
        PROVE  Media'
    <2>1. sweep'.pc = "claim" /\ UNCHANGED <<account, clock, store, up>>
      BY <1>0, <1>2 DEF Visit, SweepType
    <2>2. CASE ClaimOutcome(o) = "skip" /\ UNCHANGED db
      BY <2>1, <2>2, SweepFree, SweepOnly
    <2>3. CASE ClaimOutcome(o) = "expire" /\ Expire(o)
      <3>1. receipt[o] \in ReceiptType /\ age[o] \in {"fresh", "old", "gone"}
        BY RowType DEF Shape, ClockOK
      <3>2. receipt[o].state \in Kept /\ (receipt[o].state = "stored" => age[o] = "gone")
        BY <2>3, <3>1 DEF ClaimOutcome, ReceiptType, Kept, Retained
      <3>3. World
        BY <2>1, <2>3, <3>2, RowExpired DEF account, clock
      <3> QED
        BY <2>1, <3>3, SweepFree, SweepWithWorld
    <2> QED
      BY <1>2, <2>2, <2>3 DEF Visit
  <1>3. ASSUME NEW o \in Obs, Claim(o)
        PROVE  Media'
    <2> DEFINE r == [receipt[o] EXCEPT !.state = "reserved", !.lease = Worker, !.live = TRUE, !.day = day]
    <2>1. /\ sweep'.pc = "head" /\ sweep'.at = o
          /\ UNCHANGED <<device, age, image, intent, store, up>>
          /\ receipt' = [receipt EXCEPT ![o] = r]
      BY <1>0, <1>3 DEF Claim, SweepType, account, clock
    <2>2. /\ receipt[o] \in ReceiptType /\ image[o].row \in BOOLEAN
          /\ image \in [Obs -> [row : BOOLEAN, gen : Nat]]
      BY RowType DEF Shape, DbOK, ImagesOK
    <2>3. device # "deleted" /\ receipt[o].state \in {"reserved", "failed"}
      <3>1. ClaimOutcome(o) = "claim"
        BY <1>3 DEF Claim
      <3> QED
        BY <2>2, <3>1 DEF ClaimOutcome, ReceiptType, Allowed
    <2>4. r.state = "reserved"
      BY <2>2 DEF ReceiptType
    <2>5. image[o].row = TRUE
      BY <2>2, <2>3 DEF Media, RowInv, RowsMatch, Kept
    <2>6. image' = [image EXCEPT ![o] = image[o]]
      BY <2>1, <2>2
    <2>7. receipt'[o] = r
      BY <2>1 DEF Shape, DbOK, ReceiptsOK
    <2> HIDE DEF r
    <2>8. World
      <3>1. r.state \in Kept /\ r.state # "stored"
        BY <2>4 DEF Kept
      <3> QED
        BY <2>1, <2>3, <2>5, <2>6, <3>1, RowKept
    <2>9. SweepInv'
      BY <2>1, <2>4, <2>7 DEF SweepInv, SweepWork, SweepCurrent, Known, Deleting
    <2> QED
      BY <2>1, <2>8, <2>9, SweepWithWorld
  <1>4. CASE Head
    <2>1. /\ sweep.pc = "head" /\ sweep'.pc = "settle" /\ sweep'.at = sweep.at
          /\ sweep'.seen = object[sweep.at] /\ UNCHANGED <<account, clock, db, store, up>>
      BY <1>0, <1>4 DEF Head, SweepType
    <2>2. UNCHANGED <<device, receipt, object, image>>
      BY <2>1 DEF account, db, store
    <2>3. SweepInv'
      BY <2>1, <2>2 DEF Media, SweepInv, SweepWork, SweepCurrent, Current, Known, Deleting
    <2> QED
      BY <2>1, <2>3, SweepOnly
  <1> QED
    BY <1>1, <1>2, <1>3, <1>4

LEMMA SettleMedia ==
  ASSUME Shape, Media, Settle
  PROVE  Media'
  <1> DEFINE o == sweep.at
  <1>1. /\ sweep.pc = "settle" /\ sweep'.pc = "claim" /\ UNCHANGED <<account, clock, store, up>>
    BY DEF Settle, Shape, SweepSide, WorkerOK, SweepType
  <1>2. o \in Obs
    BY <1>1 DEF Shape, SweepSide, SweepAddressed, Busy
  <1>3. /\ receipt[o] \in ReceiptType /\ image[o] \in [row : BOOLEAN, gen : Nat]
        /\ image \in [Obs -> [row : BOOLEAN, gen : Nat]]
    BY <1>2, RowType DEF Shape, DbOK, ImagesOK
  <1>4. receipt[o].state = "reserved" => image[o].row = TRUE
    BY <1>2, <1>3 DEF Media, RowInv, RowsMatch, Kept
  <1>5. SweepInv'
    BY <1>1, SweepFree
  <1>6. UNCHANGED <<device, age, store>>
    BY <1>1 DEF account, clock
  <1>7. CASE SettleOutcome(o) = "skip" /\ UNCHANGED db
    BY <1>1, <1>5, <1>7, SweepOnly
  <1>8. CASE SettleOutcome(o) = "expire" /\ Expire(o)
    <2>1. receipt[o].state = "reserved"
      BY <1>8 DEF SettleOutcome, LeaseHeld
    <2>2. World
      BY <1>2, <1>6, <1>8, <2>1, RowExpired DEF Kept
    <2> QED
      BY <1>1, <1>5, <2>2, SweepWithWorld
  <1>9. CASE SettleOutcome(o) = "fail" /\ Fail(o)
    <2> DEFINE r == [Released(receipt[o]) EXCEPT !.state = "failed"]
    <2>1. receipt[o].state = "reserved" /\ device # "deleted"
      BY <1>9 DEF SettleOutcome, LeaseHeld, Allowed
    <2>2. receipt' = [receipt EXCEPT ![o] = r] /\ UNCHANGED <<image, intent>>
      BY <1>9 DEF Fail
    <2>3. r.state = "failed" /\ image' = [image EXCEPT ![o] = image[o]]
      BY <1>3, <2>2 DEF Released, ReceiptType
    <2> HIDE DEF r, o
    <2>4. World
      <3>1. r.state \in Kept /\ r.state # "stored"
        BY <2>3 DEF Kept
      <3> QED
        BY <1>2, <1>4, <1>6, <2>1, <2>2, <2>3, <3>1, RowKept
    <2> QED
      BY <1>1, <1>5, <2>4, SweepWithWorld
  <1>10. CASE SettleOutcome(o) = "accept" /\ Accept(o, sweep.seen)
    <2> DEFINE r == [Released(receipt[o]) EXCEPT !.state = "stored", !.received = day]
               i == [image[o] EXCEPT !.gen = sweep.seen.gen]
    <2>1. /\ receipt[o].state = "reserved" /\ device # "deleted"
          /\ sweep.seen.gen # 0 /\ sweep.seen.fp = receipt[o].fp
      BY <1>10 DEF SettleOutcome, LeaseHeld, Allowed, Missing
    <2>2. /\ receipt' = [receipt EXCEPT ![o] = r] /\ image' = [image EXCEPT ![o] = i]
          /\ UNCHANGED intent
      BY <1>10 DEF Accept
    <2>3. r.state = "stored" /\ r.fp = receipt[o].fp /\ i.row = image[o].row /\ i.gen = sweep.seen.gen
      BY <1>3 DEF Released, ReceiptType
    <2>4. object[o].gen = sweep.seen.gen /\ object[o].fp = sweep.seen.fp
      BY <1>1, <1>4, <2>1 DEF Media, SweepInv, SweepCurrent, Current
    <2> HIDE DEF r, i, o
    <2>5. World
      <3>1. /\ i.row = TRUE /\ i.gen # 0 /\ object[o].gen = i.gen /\ object[o].fp = r.fp
            /\ receipt[o].state \in {"none", "reserved", "failed"}
        BY <1>4, <2>1, <2>3, <2>4
      <3>2. r.state \in Kept
        BY <2>3 DEF Kept
      <3> QED
        BY <1>2, <1>6, <2>1, <2>2, <3>1, <3>2, RowKept
    <2> QED
      BY <1>1, <1>5, <2>5, SweepWithWorld
  <1> QED
    BY <1>7, <1>8, <1>9, <1>10 DEF Settle

LEMMA DeletePhaseMedia ==
  ASSUME Shape, Media,
         SelectIntents \/ (\E o \in Obs : TakeIntent(o)) \/ Resolve \/ Erased \/ List \/ End
  PROVE  Media'
  <1>0. sweep \in SweepType
    BY DEF Shape, SweepSide, WorkerOK
  <1>a. UNCHANGED <<account, clock, db, store, up>>
    BY DEF SelectIntents, TakeIntent, Resolve, Erased, List, End
  <1>b. UNCHANGED <<device, receipt, intent, object>>
    BY <1>a DEF account, db, store
  <1>c. \A o \in Obs : (Closed(o) => Closed(o)') /\ (Known(o) => Known(o)')
    BY <1>b DEF Closed, Known
  <1>1. CASE SelectIntents
    <2>1. sweep'.pc = "delete" /\ sweep'.todo \subseteq {o \in Obs : intent[o].queued}
      BY <1>0, <1>1 DEF SelectIntents, SweepType
    <2>2. \A o \in sweep'.todo : Closed(o)'
      BY <1>c, <2>1 DEF Media, QueueInv, IntentsClosed
    <2>3. SweepInv'
      BY <2>1, <2>2 DEF SweepInv, SweepWork, SweepCurrent, Deleting
    <2> QED
      BY <1>a, <2>3, SweepOnly
  <1>2. ASSUME NEW o \in Obs, TakeIntent(o)
        PROVE  Media'
    <2>1. /\ sweep.pc = "delete" /\ o \in sweep.todo /\ sweep'.todo \subseteq sweep.todo
          /\ sweep'.pc \in {"delete", "resolve"} /\ (sweep'.pc = "resolve" => sweep'.at = o)
      BY <1>0, <1>2 DEF TakeIntent, SweepType
    <2>2. \A p \in sweep.todo : Closed(p)'
      BY <1>0, <1>c, <2>1 DEF Media, SweepInv, SweepWork, SweepType
    <2>3. SweepInv'
      BY <2>1, <2>2 DEF SweepInv, SweepWork, SweepCurrent, Deleting
    <2> QED
      BY <1>a, <2>3, SweepOnly
  <1>3. CASE Resolve \/ Erased
    <2>1. /\ sweep.pc \in Deleting /\ sweep'.pc \in {"erase", "forget"}
          /\ sweep'.todo = sweep.todo /\ sweep'.at = sweep.at
      BY <1>0, <1>3 DEF Resolve, Erased, SweepType, Deleting
    <2>2. sweep.at \in Obs
      BY <2>1 DEF Shape, SweepSide, SweepAddressed, Busy, Deleting
    <2>3. Closed(sweep.at) /\ \A p \in sweep.todo : Closed(p)
      BY <2>1 DEF Media, SweepInv, SweepWork
    <2>4. SweepWork'
      <3>1. \A p \in sweep.todo : Closed(p)'
        BY <1>0, <1>c, <2>3 DEF SweepType
      <3>2. Closed(sweep.at)'
        BY <1>b, <2>1, <2>3 DEF Closed
      <3> QED
        BY <2>1, <3>1, <3>2 DEF SweepWork, Deleting
    <2>5. SweepInv'
      BY <2>1, <2>4 DEF SweepInv, SweepCurrent
    <2> QED
      BY <1>a, <2>5, SweepOnly
  <1>4. CASE List
    <2>1. sweep'.pc = "scan" /\ sweep'.todo \subseteq {o \in Obs : object[o].gen # 0}
      BY <1>0, <1>4 DEF List, SweepType
    <2>2. \A o \in sweep'.todo : Known(o)'
      BY <1>c, <2>1 DEF Media, QueueInv, ObjectsKnown
    <2>3. SweepInv'
      BY <2>1, <2>2 DEF SweepInv, SweepWork, SweepCurrent, Deleting
    <2> QED
      BY <1>a, <2>3, SweepOnly
  <1>5. CASE End
    BY <1>a, <1>5, SweepFree, SweepOnly DEF End, Idle
  <1> QED
    BY <1>1, <1>2, <1>3, <1>4, <1>5

\* Deletion intents or sent deletes change, for closed observations only.
LEMMA QueueStep ==
  ASSUME Shape, Media, UNCHANGED <<device, age, receipt, image, object>>,
         \A o \in Obs : intent'[o].queued => intent[o].queued \/ Closed(o),
         \A d \in deletes' : d \in deletes \/ Closed(d[1])
  PROVE  World
  <1>1. Onward
    BY DEF Onward, Known, Closed
  <1>2. Persist /\ Honour
    BY DEF Persist, Honour
  <1>3. RowInv' /\ StoredMediaIntact'
    BY DEF Media, RowInv, RowsMatch, DeletedEmpty, StoredMediaIntact
  <1>4. \A o : Closed(o) => Closed(o)'
    BY DEF Closed
  <1>5. QueueInv'
    BY <1>1, <1>4, QueueMoves DEF Shape, Media
  <1> QED
    BY <1>1, <1>2, <1>3, <1>5 DEF World

LEMMA ErasePhaseMedia ==
  ASSUME Shape, Media, Erase \/ Forget \/ (\E o \in Obs : ScanOrphan(o))
  PROVE  Media'
  <1>0. sweep \in SweepType
    BY DEF Shape, SweepSide, WorkerOK
  <1>a. UNCHANGED <<device, age, receipt, image, object, up>>
    BY DEF Erase, Forget, ScanOrphan, account, clock, db, store
  <1>b. \A o : (Closed(o) => Closed(o)') /\ (Known(o) => Known(o)')
    BY <1>a DEF Closed, Known
  <1>1. CASE Erase
    <2>1. /\ sweep.pc = "erase" /\ deletes' = deletes \cup {<<sweep.at, sweep.seen.gen>>}
          /\ sweep'.pc = "erasing" /\ sweep'.todo = sweep.todo /\ sweep'.at = sweep.at
          /\ UNCHANGED intent
      BY <1>0, <1>1 DEF Erase, SweepType, db
    <2>2. Closed(sweep.at) /\ \A p \in sweep.todo : Closed(p)
      BY <2>1 DEF Media, SweepInv, SweepWork, Deleting
    <2>3. World
      BY <1>a, <2>1, <2>2, QueueStep
    <2>4. SweepWork'
      <3>1. Closed(sweep.at)' /\ \A p \in sweep.todo : Closed(p)'
        BY <1>a, <1>b, <2>1, <2>2 DEF Closed
      <3> QED
        BY <2>1, <3>1 DEF SweepWork, Deleting
    <2>5. SweepInv'
      BY <2>1, <2>4 DEF SweepInv, SweepCurrent
    <2> QED
      BY <1>a, <2>3, <2>5, SweepWithWorld
  <1>2. CASE Forget
    <2>1. /\ sweep.pc = "forget" /\ sweep'.pc = "delete" /\ sweep'.todo = sweep.todo
          /\ UNCHANGED deletes
      BY <1>0, <1>2 DEF Forget, SweepType, store
    <2>2. \A o \in Obs : intent'[o].queued => intent[o].queued
      BY <1>2 DEF Forget, NoIntent, Shape, DbOK, IntentsOK
    <2>3. World
      BY <1>a, <2>1, <2>2, QueueStep
    <2>4. \A p \in sweep.todo : Closed(p)'
      BY <1>b, <2>1 DEF Media, SweepInv, SweepWork, Deleting
    <2>5. SweepInv'
      BY <2>1, <2>4 DEF SweepInv, SweepWork, SweepCurrent, Deleting
    <2> QED
      BY <1>a, <2>3, <2>5, SweepWithWorld
  <1>3. ASSUME NEW o \in Obs, ScanOrphan(o)
        PROVE  Media'
    <2>1. /\ sweep.pc = "scan" /\ o \in sweep.todo /\ sweep'.pc = "scan"
          /\ sweep'.todo \subseteq sweep.todo /\ UNCHANGED deletes
      BY <1>0, <1>3 DEF ScanOrphan, SweepType, store
    <2>2. image[o].row = FALSE => Closed(o)
      <3>1. Known(o) /\ receipt[o] \in ReceiptType
        BY <2>1, RowType DEF Shape, Media, SweepInv, SweepWork
      <3> QED
        BY <3>1 DEF Known, Closed, Media, RowInv, RowsMatch, Kept, ReceiptType
    <2>3. \A p \in Obs : intent'[p].queued => intent[p].queued \/ Closed(p)
      BY <1>3, <2>2, RowType DEF ScanOrphan, IsOrphan, Shape, DbOK, IntentsOK
    <2>4. World
      BY <1>a, <2>1, <2>3, QueueStep
    <2>5. \A p \in sweep.todo : Known(p)'
      BY <1>b, <2>1 DEF Media, SweepInv, SweepWork
    <2>6. SweepInv'
      BY <2>1, <2>5 DEF SweepInv, SweepWork, SweepCurrent, Deleting
    <2> QED
      BY <1>a, <2>4, <2>6, SweepWithWorld
  <1> QED
    BY <1>1, <1>2, <1>3

LEMMA FaultMedia ==
  ASSUME Shape, Media, StorageError \/ Die
  PROVE  Media'
  <1>0. sweep \in SweepType
    BY DEF Shape, SweepSide, WorkerOK
  <1>1. UNCHANGED <<account, clock, db, store, up>>
    BY DEF StorageError, Die
  <1>2. \/ sweep'.pc \in {"idle", "claim"}
        \/ sweep.pc \in Deleting /\ sweep'.pc = "delete" /\ sweep'.todo = sweep.todo
    <2>1. CASE Die
      BY <2>1 DEF Die, Idle
    <2>2. CASE StorageError
      <3>1. CASE sweep.pc = "head" /\ sweep' = [sweep EXCEPT !.pc = "claim", !.at = NoOne]
        BY <1>0, <3>1 DEF SweepType
      <3>2. CASE /\ sweep.pc \in {"resolve", "erase", "erasing"}
                 /\ sweep' = [sweep EXCEPT !.pc = "delete", !.at = NoOne, !.seen = NoObject]
        BY <1>0, <3>2 DEF SweepType, Deleting
      <3> QED
        BY <2>2, <3>1, <3>2 DEF StorageError
    <2> QED
      BY <2>1, <2>2
  <1>3. SweepInv'
    <2>1. CASE sweep'.pc \in {"idle", "claim"}
      BY <2>1, SweepFree
    <2>2. CASE sweep.pc \in Deleting /\ sweep'.pc = "delete" /\ sweep'.todo = sweep.todo
      <3>1. \A p \in sweep.todo : Closed(p)
        BY <2>2 DEF Media, SweepInv, SweepWork
      <3>2. \A p \in sweep.todo : Closed(p)'
        BY <1>1, <3>1 DEF Closed, account, db
      <3> QED
        BY <2>2, <3>2 DEF SweepInv, SweepWork, SweepCurrent, Deleting
    <2> QED
      BY <1>2, <2>1, <2>2
  <1> QED
    BY <1>1, <1>3, SweepOnly

(***************************************************************************)
(* Lifecycle and time.                                                     *)
(***************************************************************************)

LEMMA AccountMedia ==
  ASSUME Shape, Media, Account
  PROVE  Media'
  <1>0. device # "deleted" /\ UNCHANGED <<age, object, deletes, up, sweep>>
    BY DEF Account, Reissue, Revoke, SetCapability, DeleteDevice, Event, clock, store, worker
  <1>1. CASE Reissue \/ Revoke \/ SetCapability
    <2>1. device' # "deleted" /\ UNCHANGED <<receipt, image, intent>>
      BY <1>0, <1>1 DEF Reissue, Revoke, SetCapability, db
    <2>2. Onward
      BY <1>0, <2>1 DEF Onward, Known, Closed
    <2>3. Persist /\ Honour
      BY <1>0, <2>1 DEF Persist, Honour
    <2>4. RowInv' /\ StoredMediaIntact'
      BY <1>0, <2>1 DEF Media, RowInv, RowsMatch, DeletedEmpty, StoredMediaIntact
    <2>5. QueueInv'
      BY <1>0, <2>1, <2>2, QueueMoves DEF Shape, Media
    <2> QED
      BY <1>0, <2>2, <2>3, <2>4, <2>5, WorldAlone DEF World
  <1>2. CASE DeleteDevice
    <2>1. /\ device' = "deleted" /\ receipt' = [o \in Obs |-> NoReceipt]
          /\ image' = [o \in Obs |-> NoImage]
      BY <1>2 DEF DeleteDevice
    <2>2. Onward
      BY <2>1 DEF Onward, Known, Closed
    <2>3. Persist /\ Honour
      BY <2>1 DEF Persist, Honour, NoImage
    <2>4. RowInv' /\ StoredMediaIntact'
      BY <2>1 DEF RowInv, RowsMatch, DeletedEmpty, StoredMediaIntact, NoImage, NoReceipt, Kept
    <2>5. QueueInv'
      <3>1. \A o \in Obs : Closed(o)'
        BY <2>1 DEF Closed
      <3> QED
        BY <1>0, <2>2, <3>1, QueueMoves DEF Shape, Media
    <2> QED
      BY <1>0, <2>2, <2>3, <2>4, <2>5, WorldAlone DEF World
  <1> QED
    BY <1>1, <1>2 DEF Account

LEMMA TimeMedia ==
  ASSUME Shape, Media, Time
  PROVE  Media'
  <1>1. CASE NextDay \/ \E o \in Obs : Grow(o) \/ IntentDue(o) \/ ObjectAged(o)
    <2>1. /\ UNCHANGED <<device, receipt, image, deletes, up, sweep>>
      BY <1>1 DEF NextDay, Grow, IntentDue, ObjectAged, account, db, store, worker
    <2>2. \A o \in Obs : age[o] = "gone" => age'[o] = "gone"
      BY <1>1 DEF NextDay, Grow, IntentDue, ObjectAged, clock, Shape, ClockOK
    <2>3. \A o \in Obs : intent'[o].queued => intent[o].queued
      BY <1>1, RowType DEF NextDay, Grow, IntentDue, ObjectAged, db, Shape, DbOK, IntentsOK, IntentType
    <2>4. \A o \in Obs : object'[o].gen = object[o].gen /\ object'[o].fp = object[o].fp
      BY <1>1 DEF NextDay, Grow, IntentDue, ObjectAged, store, Shape, StoreOK, ObjectType
    <2>5. Onward /\ Persist
      BY <2>1, <2>4 DEF Onward, Known, Closed, Persist
    <2>6. Honour
      BY <2>1, <2>2 DEF Honour
    <2>7. RowInv' /\ StoredMediaIntact'
      BY <2>1, <2>4 DEF Media, RowInv, RowsMatch, DeletedEmpty, StoredMediaIntact
    <2>8. QueueInv'
      BY <2>1, <2>3, <2>4, <2>5, QueueMoves DEF Shape, Media
    <2> QED
      BY <2>1, <2>5, <2>6, <2>7, <2>8, WorldAlone DEF World
  <1>2. ASSUME NEW o \in Obs, Lapse(o)
        PROVE  Media'
    <2> DEFINE r == [receipt[o] EXCEPT !.live = FALSE]
    <2>1. /\ receipt' = [receipt EXCEPT ![o] = r] /\ receipt[o].live
          /\ UNCHANGED <<device, age, image, intent, store, up, sweep>>
      BY <1>2 DEF Lapse, account, clock, worker
    <2>2. /\ receipt[o] \in ReceiptType /\ image[o].row \in BOOLEAN
          /\ image \in [Obs -> [row : BOOLEAN, gen : Nat]]
      BY RowType DEF Shape, DbOK, ImagesOK
    <2>3. receipt[o].state = "reserved"
      BY <2>1 DEF Shape, DbOK, RowChecks
    <2>4. r.state = "reserved"
      BY <2>2, <2>3 DEF ReceiptType
    <2>5. image[o].row = TRUE /\ image' = [image EXCEPT ![o] = image[o]]
      BY <2>1, <2>2, <2>3 DEF Media, RowInv, RowsMatch, Kept
    <2>6. device # "deleted"
      BY <2>3 DEF Media, RowInv, DeletedEmpty
    <2> HIDE DEF r
    <2>7. World
      <3>1. r.state \in Kept /\ r.state # "stored" /\ receipt[o].state \in {"none", "reserved", "failed"}
        BY <2>3, <2>4 DEF Kept
      <3> QED
        BY <2>1, <2>5, <2>6, <3>1, RowKept
    <2> QED
      BY <2>1, <2>7, WorldAlone
  <1> QED
    BY <1>1, <1>2 DEF Time

LEMMA NextMedia == Shape /\ Media /\ [Next]_vars => Media'
  <1> SUFFICES ASSUME Shape, Media, [Next]_vars PROVE Media'
    OBVIOUS
  <1>1. CASE UNCHANGED vars
    <2>1. UNCHANGED <<account, clock, db, store>> /\ UNCHANGED <<up, sweep>>
      BY <1>1 DEF vars, worker
    <2> QED
      BY <2>1, StillWorld, WorldAlone DEF World
  <1>2. ASSUME NEW u \in Uploads, Request(u)
        PROVE  Media'
    <2>1. \A c \in 1..token : c \in Nat
      OBVIOUS
    <2> QED
      BY <1>2, <2>1, ArriveMedia, RejectMedia, ReserveMedia, AnswerMedia, FinalizeMedia DEF Request
  <1>3. CASE Bucket
    BY <1>3, CreateMedia, AnswerMedia, DeleteMedia DEF Bucket
  <1>4. CASE SweepStep
    BY <1>4, ClaimPhaseMedia, SettleMedia, DeletePhaseMedia, ErasePhaseMedia DEF SweepStep
  <1> QED
    BY <1>1, <1>2, <1>3, <1>4, FaultMedia, AccountMedia, TimeMedia DEF Next

LEMMA AlwaysMedia == Spec => [](Shape /\ Media)
  BY InitShape, InitMedia, NextShape, NextMedia, PTL DEF Spec

\* A stored receipt names the live generation of its object, whatever uploads, sweeps,
\* late writes and deletes, faults and lifecycle events happen around it.
THEOREM StoredMediaSafe == Spec => []StoredMediaIntact
  BY AlwaysMedia, PTL DEF Media

\* The sweep never finds an image row under a deletion intent.
THEOREM DeletionNeverAlarms == Spec => []NoDeletionAlarm
  <1>1. Shape /\ Media => NoDeletionAlarm
    BY DEF Media, RowInv, RowsMatch, DeletedEmpty, QueueInv, IntentsClosed, NoDeletionAlarm, Closed, Kept
  <1> QED
    BY <1>1, AlwaysMedia, PTL

\* The image an upload was acknowledged for stays readable, as sent, until the
\* capture is 30 days old or the device is deleted.
THEOREM AcknowledgedMediaSafe == Spec => []AckedImageKept
  <1>1. Shape /\ Media => AckedImageKept
    <2> SUFFICES ASSUME Shape, Media, NEW u \in Uploads, up[u].resp = "acked",
                        device # "deleted", age[up[u].obs] # "gone"
                 PROVE  /\ receipt[up[u].obs].state = "stored" /\ receipt[up[u].obs].fp = up[u].fp
                        /\ object[up[u].obs].gen # 0 /\ object[up[u].obs].gen = image[up[u].obs].gen
                        /\ object[up[u].obs].fp = up[u].fp
      BY DEF AckedImageKept
    <2>1. up[u].obs \in Obs /\ receipt[up[u].obs].state = "stored" /\ receipt[up[u].obs].fp = up[u].fp
      BY DEF Media, RequestInv, RequestGood
    <2> QED
      BY <2>1 DEF Media, StoredMediaIntact
  <1> QED
    BY <1>1, AlwaysMedia, PTL

\* Acknowledged and stored media is readable and nothing queues its deletion.
THEOREM MediaIsSafe == Spec => []MediaSafe
  BY StoredMediaSafe, DeletionNeverAlarms, AcknowledgedMediaSafe, PTL DEF MediaSafe

(***************************************************************************)
(* Steps of a receipt: an expired one only goes with its device, and one   *)
(* becomes stored only under the credential it was reserved with.          *)
(***************************************************************************)

Writing == {"sent", "held"}

\* A request that still holds the lease it reserved with presents the credential
\* recorded in the reservation.
LeaseInv ==
  \A u \in Uploads, o \in Obs :
    receipt[o].lease = u /\ up[u].obs = o /\ up[u].pc \in Writing => receipt[o].cred = up[u].cred

Tombstoned(o) == receipt[o].state = "expired" => receipt'[o] = receipt[o] \/ device' = "deleted"
Admitted(o) ==
  receipt[o].state # "stored" /\ receipt'[o].state = "stored" =>
    device = "active" /\ token = receipt[o].cred /\ enabled
LeaseStays(o) ==
  receipt'[o].lease \in Uploads =>
    receipt'[o].lease = receipt[o].lease /\ receipt'[o].cred = receipt[o].cred

\* A step that does not reserve.
RowStep(o) == Tombstoned(o) /\ Admitted(o) /\ LeaseStays(o)

LEMMA ReceiptLeft ==
  ASSUME UNCHANGED receipt PROVE \A o \in Obs : RowStep(o)
  BY DEF RowStep, Tombstoned, Admitted, LeaseStays

LEMMA ReceiptMoves ==
  ASSUME Shape, NEW p \in Obs, NEW r, receipt' = [receipt EXCEPT ![p] = r],
         receipt[p].state # "expired",
         r.state = "stored" => device = "active" /\ token = receipt[p].cred /\ enabled,
         r.lease \in Uploads => r.lease = receipt[p].lease /\ r.cred = receipt[p].cred
  PROVE  \A o \in Obs : RowStep(o)
  <1>1. receipt'[p] = r /\ \A o \in Obs \ {p} : receipt'[o] = receipt[o]
    BY DEF Shape, DbOK, ReceiptsOK
  <1> QED
    BY <1>1 DEF RowStep, Tombstoned, Admitted, LeaseStays

LEMMA ExpireMoves ==
  ASSUME Shape, NEW p \in Obs, Expire(p), receipt[p].state # "expired"
  PROVE  \A o \in Obs : RowStep(o)
  <1> DEFINE r == [Released(receipt[p]) EXCEPT !.state = "expired"]
  <1>1. receipt' = [receipt EXCEPT ![p] = r]
    BY DEF Expire
  <1>2. r.state = "expired" /\ r.lease = NoOne
    BY RowType DEF Shape, Released, ReceiptType
  <1> HIDE DEF r
  <1> QED
    BY <1>1, <1>2, ReceiptMoves, ConstantsAssumption

LEMMA AcceptMoves ==
  ASSUME Shape, NEW p \in Obs, NEW x, Accept(p, x), receipt[p].state = "reserved",
         device = "active", token = receipt[p].cred, enabled
  PROVE  \A o \in Obs : RowStep(o)
  <1> DEFINE r == [Released(receipt[p]) EXCEPT !.state = "stored", !.received = day]
  <1>1. receipt' = [receipt EXCEPT ![p] = r]
    BY DEF Accept
  <1>2. r.lease = NoOne
    BY RowType DEF Shape, Released, ReceiptType
  <1> HIDE DEF r
  <1> QED
    BY <1>1, <1>2, ReceiptMoves, ConstantsAssumption

LEMMA FinalizeMoves ==
  ASSUME Shape, LeaseInv, NEW u \in Uploads, Finalize(u)
  PROVE  \A o \in Obs : RowStep(o)
  <1> DEFINE p == up[u].obs
  <1>1. up[u].pc = "held" /\ FinalizeAnswer(u) = 0 /\ Accept(p, up[u].obj)
    BY DEF Finalize
  <1>2. p \in Obs
    BY <1>1 DEF Shape, RequestSide, RequestsAddressed
  <1>3. /\ receipt[p].state = "reserved" /\ receipt[p].lease = u
        /\ device = "active" /\ token = up[u].cred /\ enabled
    BY <1>1 DEF FinalizeAnswer, LeaseHeld, Authorized
  <1>4. receipt[p].cred = up[u].cred
    BY <1>1, <1>2, <1>3 DEF LeaseInv, Writing
  <1> HIDE DEF p
  <1> QED
    BY <1>1, <1>2, <1>3, <1>4, AcceptMoves

LEMMA SweepMoves ==
  ASSUME Shape, SweepStep
  PROVE  \A o \in Obs : RowStep(o)
  <1>1. ASSUME NEW p \in Obs, Visit(p)
        PROVE  \A o \in Obs : RowStep(o)
    <2>1. CASE UNCHANGED db
      BY <2>1, ReceiptLeft DEF db
    <2>2. CASE ClaimOutcome(p) = "expire" /\ Expire(p)
      <3>1. receipt[p].state # "expired"
        BY <2>2 DEF ClaimOutcome
      <3> QED
        BY <2>2, <3>1, ExpireMoves
    <2> QED
      BY <1>1, <2>1, <2>2 DEF Visit
  <1>2. ASSUME NEW p \in Obs, Claim(p)
        PROVE  \A o \in Obs : RowStep(o)
    <2> DEFINE r == [receipt[p] EXCEPT !.state = "reserved", !.lease = Worker, !.live = TRUE, !.day = day]
    <2>1. receipt' = [receipt EXCEPT ![p] = r] /\ receipt[p].state # "expired"
      BY <1>2 DEF Claim, ClaimOutcome
    <2>2. r.state = "reserved" /\ r.lease = Worker
      BY RowType DEF Shape, ReceiptType
    <2> HIDE DEF r
    <2> QED
      BY <2>1, <2>2, ReceiptMoves, ConstantsAssumption
  <1>3. CASE Settle
    <2> DEFINE p == sweep.at
    <2>1. p \in Obs
      BY <1>3 DEF Settle, Shape, SweepSide, SweepAddressed, Busy
    <2>2. CASE UNCHANGED db
      BY <2>2, ReceiptLeft DEF db
    <2>3. CASE SettleOutcome(p) = "expire" /\ Expire(p)
      <3>1. receipt[p].state # "expired"
        BY <2>3 DEF SettleOutcome, LeaseHeld
      <3> QED
        BY <2>1, <2>3, <3>1, ExpireMoves
    <2>4. CASE SettleOutcome(p) = "fail" /\ Fail(p)
      <3> DEFINE r == [Released(receipt[p]) EXCEPT !.state = "failed"]
      <3>1. receipt' = [receipt EXCEPT ![p] = r] /\ receipt[p].state # "expired"
        BY <2>4 DEF Fail, SettleOutcome, LeaseHeld
      <3>2. r.state = "failed" /\ r.lease = NoOne
        BY <2>1, RowType DEF Shape, Released, ReceiptType
      <3> HIDE DEF r, p
      <3> QED
        BY <2>1, <3>1, <3>2, ReceiptMoves, ConstantsAssumption
    <2>5. CASE SettleOutcome(p) = "accept" /\ Accept(p, sweep.seen)
      <3>1. /\ receipt[p].state = "reserved" /\ device = "active"
            /\ token = receipt[p].cred /\ enabled
        BY <2>5 DEF SettleOutcome, LeaseHeld, Allowed
      <3> HIDE DEF p
      <3> QED
        BY <2>1, <2>5, <3>1, AcceptMoves
    <2> QED
      BY <1>3, <2>2, <2>3, <2>4, <2>5 DEF Settle
  <1>4. CASE \/ Begin \/ Head \/ SelectIntents \/ Resolve \/ Erase \/ Erased \/ Forget \/ List \/ End
             \/ \E p \in Obs : TakeIntent(p) \/ ScanOrphan(p)
    <2>1. UNCHANGED receipt
      BY <1>4 DEF Begin, Head, SelectIntents, Resolve, Erase, Erased, Forget, List, End,
                  TakeIntent, ScanOrphan, db
    <2> QED
      BY <2>1, ReceiptLeft
  <1> QED
    BY <1>1, <1>2, <1>3, <1>4 DEF SweepStep

LEMMA NextMoves ==
  ASSUME Shape, LeaseInv, [Next]_vars, \A u \in Uploads : ~Reserve(u)
  PROVE  \A o \in Obs : RowStep(o)
  <1>1. CASE UNCHANGED vars
    BY <1>1, ReceiptLeft DEF vars, db
  <1>2. ASSUME NEW u \in Uploads, Request(u), ~Finalize(u)
        PROVE  UNCHANGED receipt
    BY <1>2 DEF Request, Arrive, ReserveReject, Created, HeadExisting, FinalizeReject, Abort, db
  <1>3. CASE Bucket \/ StorageError \/ Die
    <2>1. UNCHANGED receipt
      BY <1>3 DEF Bucket, StoreCreate, StoreLose, StoreDelete, StorageError, Die, db
    <2> QED
      BY <2>1, ReceiptLeft
  <1>4. CASE Account
    <2>1. CASE DeleteDevice
      <3>1. \A o \in Obs : receipt'[o] = NoReceipt
        BY <2>1 DEF DeleteDevice
      <3>2. device' = "deleted"
        BY <2>1 DEF DeleteDevice
      <3> QED
        BY <3>1, <3>2, ConstantsAssumption DEF RowStep, Tombstoned, Admitted, LeaseStays, NoReceipt
    <2>2. CASE Reissue \/ Revoke \/ SetCapability
      BY <2>2, ReceiptLeft DEF Reissue, Revoke, SetCapability, db
    <2> QED
      BY <1>4, <2>1, <2>2 DEF Account
  <1>5. CASE Time
    <2>1. ASSUME NEW p \in Obs, Lapse(p)
          PROVE  \A o \in Obs : RowStep(o)
      <3> DEFINE r == [receipt[p] EXCEPT !.live = FALSE]
      <3>1. receipt' = [receipt EXCEPT ![p] = r] /\ receipt[p].live
        BY <2>1 DEF Lapse
      <3>2. receipt[p].state = "reserved"
        BY <3>1 DEF Shape, DbOK, RowChecks
      <3>3. r.state = "reserved" /\ r.lease = receipt[p].lease /\ r.cred = receipt[p].cred
        BY <3>2, RowType DEF Shape, ReceiptType
      <3> HIDE DEF r
      <3> QED
        BY <3>1, <3>2, <3>3, ReceiptMoves
    <2>2. CASE NextDay \/ \E o \in Obs : Grow(o) \/ IntentDue(o) \/ ObjectAged(o)
      <3>1. UNCHANGED receipt
        BY <2>2 DEF NextDay, Grow, IntentDue, ObjectAged, db
      <3> QED
        BY <3>1, ReceiptLeft
    <2> QED
      BY <1>5, <2>1, <2>2 DEF Time
  <1> QED
    BY <1>1, <1>2, <1>3, <1>4, <1>5, FinalizeMoves, SweepMoves, ReceiptLeft DEF Next

LEMMA ReserveStep ==
  ASSUME Shape, NEW u \in Uploads, Reserve(u), NEW o \in Obs
  PROVE  Tombstoned(o) /\ Admitted(o)
  <1> DEFINE p == up[u].obs
             r == Reservation(receipt[p], u)
  <1>1. up[u].pc = "admitted" /\ ReserveAnswer(u) = 0 /\ receipt' = [receipt EXCEPT ![p] = r]
    BY DEF Reserve
  <1>2. p \in Obs
    BY <1>1 DEF Shape, RequestSide, RequestsAddressed
  <1>3. receipt[p].state # "expired"
    BY <1>1 DEF ReserveAnswer, Tombstone
  <1>4. r.state = "reserved"
    BY <1>2, RowType DEF Shape, Reservation, ReceiptType
  <1>5. receipt'[p] = r /\ \A q \in Obs \ {p} : receipt'[q] = receipt[q]
    BY <1>1, <1>2 DEF Shape, DbOK, ReceiptsOK
  <1> HIDE DEF p, r
  <1> QED
    BY <1>2, <1>3, <1>4, <1>5 DEF Tombstoned, Admitted

\* Requests past their reservation keep their observation and credential.
LEMMA NextWriting ==
  ASSUME Shape, [Next]_vars, NEW v \in Uploads, ~Reserve(v), up'[v].pc \in Writing
  PROVE  up[v].pc \in Writing /\ up'[v].obs = up[v].obs /\ up'[v].cred = up[v].cred
  <1>0. up \in [Uploads -> RequestType]
    BY DEF Shape, RequestSide, RequestsOK
  <1>1. ASSUME NEW u \in Uploads, Request(u)
        PROVE  up[v].pc \in Writing /\ up'[v].obs = up[v].obs /\ up'[v].cred = up[v].cred
    <2>1. CASE u # v
      <3>1. up'[v] = up[v]
        BY <1>0, <1>1, <2>1 DEF Request, Arrive, ReserveReject, Reserve, Created, HeadExisting,
                          FinalizeReject, Finalize, Abort, Reply
      <3> QED
        BY <3>1
    <2>2. CASE u = v
      <3>1. CASE \E code : Reply(v, code)
        <4>1. up'[v].pc = "done"
          BY <1>0, <3>1 DEF Reply, Ended
        <4> QED
          BY <4>1 DEF Writing
      <3>2. CASE \E o \in Obs, f \in Prints, c \in 1..token : Arrive(v, o, f, c)
        <4>1. up'[v].pc \in {"admitted", "done"}
          BY <1>0, <3>2 DEF Arrive, RequestType
        <4> QED
          BY <4>1 DEF Writing
      <3>3. CASE Created(v)
        BY <1>0, <3>3 DEF Created, RequestType, Writing
      <3>4. CASE HeadExisting(v) /\ ~(\E code : Reply(v, code))
        BY <1>0, <3>4 DEF HeadExisting, RequestType, Writing
      <3> QED
        BY <1>1, <2>2, <3>1, <3>2, <3>3, <3>4
           DEF Request, ReserveReject, FinalizeReject, Finalize, Abort
    <2> QED
      BY <2>1, <2>2
  <1>2. ASSUME NEW u \in Uploads, StoreCreate(u) \/ StoreLose(u)
        PROVE  up[v].pc \in Writing /\ up'[v].obs = up[v].obs /\ up'[v].cred = up[v].cred
    <2>1. ASSUME NEW outcome, NEW x
          PROVE  LET y == Told(up[u], outcome, x)
                 IN y.pc = up[u].pc /\ y.obs = up[u].obs /\ y.cred = up[u].cred
      BY <1>0 DEF Told, RequestType
    <2>2. CASE StoreCreate(u)
      <3>1. \E outcome, x : up' = [up EXCEPT ![u] = Told(up[u], outcome, x)]
        BY <2>2 DEF StoreCreate
      <3> QED
        BY <1>0, <2>1, <3>1
    <2>3. CASE StoreLose(u)
      BY <1>0, <2>3 DEF StoreLose, RequestType
    <2> QED
      BY <1>2, <2>2, <2>3
  <1>3. CASE UNCHANGED up
    BY <1>3
  <1>4. Next => UNCHANGED up \/ (\E u \in Uploads : Request(u) \/ StoreCreate(u) \/ StoreLose(u))
    BY DEF Next, Bucket, StoreDelete, SweepStep, Begin, Visit, Claim, Head, Settle, SelectIntents,
           TakeIntent, Resolve, Erase, Erased, Forget, List, ScanOrphan, End, StorageError, Die,
           Account, Reissue, Revoke, SetCapability, DeleteDevice,
           Time, NextDay, Grow, Lapse, IntentDue, ObjectAged
  <1> QED
    BY <1>1, <1>2, <1>3, <1>4 DEF vars

LEMMA NextLease == Shape /\ LeaseInv /\ [Next]_vars => LeaseInv'
  <1> SUFFICES ASSUME Shape, LeaseInv, [Next]_vars PROVE LeaseInv'
    OBVIOUS
  <1>1. CASE \A u \in Uploads : ~Reserve(u)
    <2>1. \A o \in Obs : LeaseStays(o)
      BY <1>1, NextMoves DEF RowStep
    <2> QED
      BY <1>1, <2>1, NextWriting DEF LeaseInv, LeaseStays
  <1>2. ASSUME NEW u \in Uploads, Reserve(u)
        PROVE  LeaseInv'
    <2> DEFINE p == up[u].obs
               r == Reservation(receipt[p], u)
    <2>1. /\ up[u].pc = "admitted" /\ receipt' = [receipt EXCEPT ![p] = r]
          /\ up' = [up EXCEPT ![u] = [up[u] EXCEPT !.pc = "sent", !.put = "sent"]]
      BY <1>2 DEF Reserve
    <2>2. p \in Obs
      BY <2>1 DEF Shape, RequestSide, RequestsAddressed
    <2>3. r.lease = u /\ r.cred = up[u].cred
      BY <2>2, RowType DEF Shape, Reservation, ReceiptType
    <2>4. receipt'[p] = r /\ \A q \in Obs \ {p} : receipt'[q] = receipt[q]
      BY <2>1, <2>2 DEF Shape, DbOK, ReceiptsOK
    <2>5. /\ \A v \in Uploads \ {u} : up'[v] = up[v]
          /\ up'[u].obs = p /\ up'[u].cred = up[u].cred
      BY <2>1 DEF Shape, RequestSide, RequestsOK, RequestType
    <2> HIDE DEF r
    <2> QED
      BY <2>2, <2>3, <2>4, <2>5 DEF LeaseInv
  <1> QED
    BY <1>1, <1>2

LEMMA AlwaysLease == Spec => [](Shape /\ LeaseInv)
  <1>1. Init => LeaseInv
    BY DEF Init, LeaseInv, Writing
  <1> QED
    BY <1>1, InitShape, NextShape, NextLease, PTL DEF Spec

LEMMA EveryStep == Shape /\ LeaseInv /\ [Next]_vars => \A o \in Obs : Tombstoned(o) /\ Admitted(o)
  BY NextMoves, ReserveStep DEF RowStep

\* No request and no sweep revives an expired receipt.
THEOREM TombstonesStay == Spec => ExpiredIsFinal
  <1>1. Shape /\ LeaseInv /\ [Next]_vars =>
          [\A o \in Obs : receipt[o].state = "expired" =>
             receipt'[o] = receipt[o] \/ device' = "deleted"]_vars
    BY EveryStep DEF Tombstoned
  <1> QED
    BY <1>1, AlwaysLease, PTL DEF Spec, ExpiredIsFinal

\* An image is accepted only under the credential its reservation recorded, still
\* current, on an active device whose capability is enabled.
THEOREM CredentialFencesAcceptance == Spec => AcceptedUnderItsCredential
  <1>1. Shape /\ LeaseInv /\ [Next]_vars =>
          [\A o \in Obs : receipt[o].state # "stored" /\ receipt'[o].state = "stored" =>
             device = "active" /\ token = receipt[o].cred /\ enabled]_vars
    BY EveryStep DEF Admitted
  <1> QED
    BY <1>1, AlwaysLease, PTL DEF Spec, AcceptedUnderItsCredential

(***************************************************************************)
(* What one step may do to the receipts and the usage counters: at most    *)
(* one receipt moves, or all go with their device.  Both the refinement    *)
(* and the quota rest on nothing else.                                     *)
(***************************************************************************)

\* Receipts and uploads carry the content of an upload.
Named ==
  /\ \A o \in Obs : receipt[o].state # "none" => receipt[o].fp \in Prints
  /\ \A u \in Uploads : up[u].pc # "new" => up[u].fp \in Prints

\* p is reserved, against the quota of the row's day unless it keeps its place there.
Reserves(p, r) ==
  /\ receipt[p].state \in {"none", "reserved", "failed"}
  /\ r.state = "reserved" /\ r.received = 0 /\ r.fp \in Prints
  /\ \/ receipt[p].state = "reserved" /\ r.day = receipt[p].day
     \/ QuotaOpen(p, r.day)
  /\ UNCHANGED usage

\* p gives its place back, or expires.
GivesUp(p, r) ==
  /\ \/ receipt[p].state = "reserved" /\ r.state = "failed"
     \/ receipt[p].state \in Kept /\ r.state = "expired"
  /\ r.fp = receipt[p].fp /\ r.received = receipt[p].received
  /\ UNCHANGED usage

\* p is accepted on the day its reservation counts for.
Stores(p, r) ==
  /\ receipt[p].state = "reserved" /\ receipt[p].day = day /\ device = "active"
  /\ r.state = "stored" /\ r.fp = receipt[p].fp /\ r.received = day
  /\ usage' = [usage EXCEPT ![day] = @ + 1]

RowMoves ==
  \E p \in Obs : \E r \in ReceiptType :
    receipt' = [receipt EXCEPT ![p] = r] /\ (Reserves(p, r) \/ GivesUp(p, r) \/ Stores(p, r))

StillDeleted == (device' = "deleted") <=> (device = "deleted")

RowsCleared ==
  /\ device # "deleted" /\ device' = "deleted"
  /\ receipt' = [o \in Obs |-> NoReceipt] /\ usage' = [d \in Days |-> 0]

RowEffect ==
  \/ StillDeleted /\ (UNCHANGED <<receipt, usage>> \/ RowMoves)
  \/ RowsCleared

LEMMA ExpireEffect ==
  ASSUME Shape, NEW p \in Obs, Expire(p), receipt[p].state \in Kept
  PROVE  RowMoves
  <1> DEFINE r == [Released(receipt[p]) EXCEPT !.state = "expired"]
  <1>1. receipt' = [receipt EXCEPT ![p] = r] /\ UNCHANGED usage
    BY DEF Expire
  <1>2. r \in ReceiptType /\ r.state = "expired" /\ r.fp = receipt[p].fp /\ r.received = receipt[p].received
    BY RowType DEF Shape, Released, ReceiptType, Leases
  <1> HIDE DEF r
  <1>3. GivesUp(p, r)
    BY <1>1, <1>2 DEF GivesUp
  <1> QED
    BY <1>1, <1>2, <1>3 DEF RowMoves

LEMMA AcceptEffect ==
  ASSUME Shape, NEW p \in Obs, NEW x, Accept(p, x), receipt[p].state = "reserved",
         SameDay(p), device = "active"
  PROVE  RowMoves
  <1> DEFINE r == [Released(receipt[p]) EXCEPT !.state = "stored", !.received = day]
  <1>1. receipt' = [receipt EXCEPT ![p] = r] /\ usage' = [usage EXCEPT ![receipt[p].day] = @ + 1]
    BY DEF Accept
  <1>2. day \in Nat
    BY ConstantsAssumption DEF Shape, ClockOK, Days
  <1>3. r \in ReceiptType /\ r.state = "stored" /\ r.fp = receipt[p].fp /\ r.received = day
    BY <1>2, RowType DEF Shape, Released, ReceiptType, Leases
  <1> HIDE DEF r
  <1>4. Stores(p, r)
    BY <1>1, <1>3 DEF Stores, SameDay
  <1> QED
    BY <1>1, <1>3, <1>4 DEF RowMoves

LEMMA ReserveEffect ==
  ASSUME Shape, Named, NEW u \in Uploads, Reserve(u)
  PROVE  RowMoves
  <1> DEFINE p == up[u].obs
             r == Reservation(receipt[p], u)
  <1>1. /\ up[u].pc = "admitted" /\ ReserveAnswer(u) = 0
        /\ receipt' = [receipt EXCEPT ![p] = r] /\ UNCHANGED usage
    BY DEF Reserve
  <1>2. p \in Obs /\ up[u] \in RequestType /\ up[u].fp \in Prints
    BY <1>1 DEF Shape, RequestSide, RequestsAddressed, RequestsOK, Named
  <1>3. receipt[p] \in ReceiptType
    BY <1>2, RowType DEF Shape
  <1>4. receipt[p].state \notin {"stored", "expired"} /\ QuotaOpen(p, up[u].day)
    BY <1>1 DEF ReserveAnswer, Tombstone
  <1>5. receipt[p].state \in {"none", "reserved", "failed"}
    BY <1>3, <1>4 DEF ReceiptType
  <1>6. receipt[p].received = 0
    BY <1>2, <1>5 DEF Shape, DbOK, RowChecks
  <1>7. /\ r \in ReceiptType /\ r.state = "reserved" /\ r.received = 0
        /\ r.fp = up[u].fp /\ r.day = up[u].day
    BY <1>2, <1>3, <1>6 DEF Reservation, ReceiptType, RequestType, Leases
  <1> HIDE DEF p, r
  <1>8. Reserves(p, r)
    BY <1>1, <1>2, <1>4, <1>5, <1>7 DEF Reserves
  <1> QED
    BY <1>1, <1>2, <1>7, <1>8 DEF RowMoves

LEMMA ClaimEffect ==
  ASSUME Shape, Named, NEW p \in Obs, Claim(p)
  PROVE  RowMoves
  <1> DEFINE r == [receipt[p] EXCEPT !.state = "reserved", !.lease = Worker, !.live = TRUE, !.day = day]
  <1>1. receipt' = [receipt EXCEPT ![p] = r] /\ UNCHANGED usage
    BY DEF Claim
  <1>2. receipt[p].state \in {"reserved", "failed"} /\ QuotaOpen(p, day)
    BY RowType DEF Shape, Claim, ClaimOutcome, ReceiptType
  <1>3. receipt[p].received = 0 /\ receipt[p].fp \in Prints
    BY <1>2 DEF Shape, DbOK, RowChecks, Named
  <1>4. day \in Nat
    BY ConstantsAssumption DEF Shape, ClockOK, Days
  <1>5. /\ r \in ReceiptType /\ r.state = "reserved" /\ r.received = 0
        /\ r.fp = receipt[p].fp /\ r.day = day
    BY <1>3, <1>4, RowType DEF Shape, ReceiptType, Leases
  <1> HIDE DEF r
  <1>6. Reserves(p, r)
    BY <1>1, <1>2, <1>3, <1>5 DEF Reserves
  <1> QED
    BY <1>1, <1>5, <1>6 DEF RowMoves

LEMMA SettleEffect ==
  ASSUME Shape, Settle
  PROVE  UNCHANGED <<receipt, usage>> \/ RowMoves
  <1> DEFINE p == sweep.at
  <1>1. p \in Obs
    BY DEF Settle, Shape, SweepSide, SweepAddressed, Busy
  <1>2. CASE UNCHANGED db
    BY <1>2 DEF db
  <1>3. CASE SettleOutcome(p) = "expire" /\ Expire(p)
    <2>1. receipt[p].state \in Kept
      BY <1>3 DEF SettleOutcome, LeaseHeld, Kept
    <2> QED
      BY <1>1, <1>3, <2>1, ExpireEffect
  <1>4. CASE SettleOutcome(p) = "fail" /\ Fail(p)
    <2> DEFINE r == [Released(receipt[p]) EXCEPT !.state = "failed"]
    <2>1. receipt' = [receipt EXCEPT ![p] = r] /\ UNCHANGED usage /\ receipt[p].state = "reserved"
      BY <1>4 DEF Fail, SettleOutcome, LeaseHeld
    <2>2. r \in ReceiptType /\ r.state = "failed" /\ r.fp = receipt[p].fp /\ r.received = receipt[p].received
      BY <1>1, RowType DEF Shape, Released, ReceiptType, Leases
    <2> HIDE DEF r, p
    <2>3. GivesUp(p, r)
      BY <2>1, <2>2 DEF GivesUp
    <2> QED
      BY <1>1, <2>1, <2>2, <2>3 DEF RowMoves
  <1>5. CASE SettleOutcome(p) = "accept" /\ Accept(p, sweep.seen)
    <2>1. receipt[p].state = "reserved" /\ SameDay(p) /\ device = "active"
      BY <1>5 DEF SettleOutcome, LeaseHeld, Allowed
    <2> HIDE DEF p
    <2> QED
      BY <1>1, <1>5, <2>1, AcceptEffect
  <1> QED
    BY <1>2, <1>3, <1>4, <1>5 DEF Settle

LEMMA NextEffect == Shape /\ Named /\ [Next]_vars => RowEffect
  <1> SUFFICES ASSUME Shape, Named, [Next]_vars PROVE RowEffect
    OBVIOUS
  <1> USE DEF RowEffect
  <1>1. CASE UNCHANGED vars
    BY <1>1 DEF vars, db, account, StillDeleted
  <1>2. ASSUME NEW u \in Uploads, Request(u)
        PROVE  RowEffect
    <2>1. UNCHANGED device
      BY <1>2 DEF Request, Arrive, ReserveReject, Reserve, Created, HeadExisting, FinalizeReject,
                  Finalize, Abort, account
    <2>2. CASE Reserve(u)
      BY <2>1, <2>2, ReserveEffect DEF StillDeleted
    <2>3. CASE Finalize(u)
      <3> DEFINE p == up[u].obs
      <3>1. p \in Obs /\ Accept(p, up[u].obj)
        BY <2>3 DEF Finalize, Shape, RequestSide, RequestsAddressed
      <3>2. receipt[p].state = "reserved" /\ SameDay(p) /\ device = "active"
        BY <2>3 DEF Finalize, FinalizeAnswer, LeaseHeld, Authorized
      <3> HIDE DEF p
      <3> QED
        BY <2>1, <3>1, <3>2, AcceptEffect DEF StillDeleted
    <2>4. CASE UNCHANGED db
      BY <2>1, <2>4 DEF db, StillDeleted
    <2> QED
      BY <1>2, <2>2, <2>3, <2>4 DEF Request, Arrive, ReserveReject, Created, HeadExisting,
                                    FinalizeReject, Abort
  <1>3. CASE Bucket \/ StorageError \/ Die
    <2>1. UNCHANGED <<receipt, usage, device>>
      BY <1>3 DEF Bucket, StoreCreate, StoreLose, StoreDelete, StorageError, Die, db, account
    <2> QED
      BY <2>1 DEF StillDeleted
  <1>4. CASE SweepStep
    <2>1. UNCHANGED device
      BY <1>4 DEF SweepStep, Begin, Visit, Claim, Head, Settle, SelectIntents, TakeIntent, Resolve,
                  Erase, Erased, Forget, List, ScanOrphan, End, account
    <2>2. ASSUME NEW p \in Obs, Visit(p)
          PROVE  RowEffect
      <3>1. CASE UNCHANGED db
        BY <2>1, <3>1 DEF db, StillDeleted
      <3>2. CASE ClaimOutcome(p) = "expire" /\ Expire(p)
        <4>1. receipt[p].state \in Kept
          BY <3>2, RowType DEF ClaimOutcome, Kept, Shape, ReceiptType
        <4> QED
          BY <2>1, <3>2, <4>1, ExpireEffect DEF StillDeleted
      <3> QED
        BY <2>2, <3>1, <3>2 DEF Visit
    <2>3. ASSUME NEW p \in Obs, Claim(p)
          PROVE  RowEffect
      BY <2>1, <2>3, ClaimEffect DEF StillDeleted
    <2>4. CASE Settle
      BY <2>1, <2>4, SettleEffect DEF StillDeleted
    <2>5. CASE \/ Begin \/ Head \/ SelectIntents \/ Resolve \/ Erase \/ Erased \/ Forget \/ List \/ End
               \/ \E p \in Obs : TakeIntent(p) \/ ScanOrphan(p)
      <3>1. UNCHANGED <<receipt, usage>>
        BY <2>5 DEF Begin, Head, SelectIntents, Resolve, Erase, Erased, Forget, List, End,
                    TakeIntent, ScanOrphan, db
      <3> QED
        BY <2>1, <3>1 DEF StillDeleted
    <2> QED
      BY <1>4, <2>2, <2>3, <2>4, <2>5 DEF SweepStep
  <1>5. CASE Account
    <2>1. CASE DeleteDevice
      BY <2>1 DEF DeleteDevice, Event, RowsCleared
    <2>2. CASE Reissue \/ Revoke \/ SetCapability
      BY <2>2 DEF Reissue, Revoke, SetCapability, Event, db, StillDeleted
    <2> QED
      BY <1>5, <2>1, <2>2 DEF Account
  <1>6. CASE Time
    <2>1. UNCHANGED device
      BY <1>6 DEF Time, NextDay, Grow, Lapse, IntentDue, ObjectAged, account
    <2>2. ASSUME NEW p \in Obs, Lapse(p)
          PROVE  RowEffect
      <3> DEFINE r == [receipt[p] EXCEPT !.live = FALSE]
      <3>1. receipt' = [receipt EXCEPT ![p] = r] /\ receipt[p].live /\ UNCHANGED usage
        BY <2>2 DEF Lapse
      <3>2. receipt[p].state = "reserved" /\ receipt[p].received = 0 /\ receipt[p].fp \in Prints
        BY <3>1 DEF Shape, DbOK, RowChecks, Named
      <3>3. /\ r \in ReceiptType /\ r.state = "reserved" /\ r.received = 0
            /\ r.fp = receipt[p].fp /\ r.day = receipt[p].day
        BY <3>2, RowType DEF Shape, ReceiptType
      <3> HIDE DEF r
      <3>4. Reserves(p, r)
        BY <3>1, <3>2, <3>3 DEF Reserves
      <3> QED
        BY <2>1, <3>1, <3>3, <3>4 DEF RowMoves, StillDeleted
    <2>3. CASE NextDay \/ \E o \in Obs : Grow(o) \/ IntentDue(o) \/ ObjectAged(o)
      <3>1. UNCHANGED <<receipt, usage>>
        BY <2>3 DEF NextDay, Grow, IntentDue, ObjectAged, db
      <3> QED
        BY <2>1, <3>1 DEF StillDeleted
    <2> QED
      BY <1>6, <2>2, <2>3 DEF Time
  <1> QED
    BY <1>1, <1>2, <1>3, <1>4, <1>5, <1>6 DEF Next

LEMMA RowValues ==
  ASSUME Shape, NEW p \in Obs, NEW r, receipt' = [receipt EXCEPT ![p] = r]
  PROVE  receipt'[p] = r /\ \A o \in Obs \ {p} : receipt'[o] = receipt[o]
  BY DEF Shape, DbOK, ReceiptsOK

\* A request keeps the content it arrived with.
LEMMA NextNamed == Shape /\ Named /\ [Next]_vars => Named'
  <1> SUFFICES ASSUME Shape, Named, [Next]_vars PROVE Named'
    OBVIOUS
  <1>1. ASSUME NEW o \in Obs, receipt'[o].state # "none"
        PROVE  receipt'[o].fp \in Prints
    <2>1. RowEffect
      BY NextEffect
    <2>2. CASE UNCHANGED receipt
      BY <1>1, <2>2 DEF Named
    <2>3. CASE RowMoves
      <3>1. PICK p \in Obs, r \in ReceiptType :
              receipt' = [receipt EXCEPT ![p] = r] /\ (Reserves(p, r) \/ GivesUp(p, r) \/ Stores(p, r))
        BY <2>3 DEF RowMoves
      <3>2. r.fp \in Prints
        BY <3>1 DEF Reserves, GivesUp, Stores, Named, Kept
      <3> QED
        BY <1>1, <3>1, <3>2, RowValues DEF Named
    <2>4. CASE RowsCleared
      BY <1>1, <2>4 DEF RowsCleared, NoReceipt
    <2> QED
      BY <2>1, <2>2, <2>3, <2>4 DEF RowEffect
  <1>2. ASSUME NEW v \in Uploads, up'[v].pc # "new"
        PROVE  up'[v].fp \in Prints
    <2>0. up \in [Uploads -> RequestType]
      BY DEF Shape, RequestSide, RequestsOK
    <2>1. ASSUME NEW u \in Uploads, NEW r, up' = [up EXCEPT ![u] = r], r.fp \in Prints
          PROVE  up'[v].fp \in Prints
      BY <1>2, <2>0, <2>1 DEF Named
    <2>2. ASSUME NEW u \in Uploads, NEW code, Reply(u, code), up[u].pc # "new"
          PROVE  up'[v].fp \in Prints
      <3>1. up' = [up EXCEPT ![u] = Ended(up[u], code)] /\ Ended(up[u], code).fp = up[u].fp
        BY <2>2 DEF Reply, Ended
      <3>2. up[u].fp \in Prints
        BY <2>2 DEF Named
      <3> QED
        BY <2>1, <3>1, <3>2
    <2>3. ASSUME NEW u \in Uploads, Request(u)
          PROVE  up'[v].fp \in Prints
      <3>1. CASE \E o \in Obs, f \in Prints, c \in 1..token : Arrive(u, o, f, c)
        BY <1>2, <2>0, <3>1 DEF Arrive, Named, RequestType
      <3>2. CASE Reserve(u) \/ Created(u)
        <4>1. up[u] \in RequestType /\ up[u].pc # "new"
          BY <2>0, <3>2 DEF Reserve, Created
        <4>2. CASE Reserve(u)
          <5> DEFINE r == [up[u] EXCEPT !.pc = "sent", !.put = "sent"]
          <5>1. up' = [up EXCEPT ![u] = r]
            BY <2>0, <4>2 DEF Reserve
          <5>2. r.fp = up[u].fp /\ up[u].fp \in Prints
            BY <4>1 DEF RequestType, Named
          <5> HIDE DEF r
          <5> QED
            BY <2>1, <5>1, <5>2
        <4>3. CASE Created(u)
          <5> DEFINE r == [up[u] EXCEPT !.pc = "held"]
          <5>1. up' = [up EXCEPT ![u] = r]
            BY <2>0, <4>3 DEF Created
          <5>2. r.fp = up[u].fp /\ up[u].fp \in Prints
            BY <4>1 DEF RequestType, Named
          <5> HIDE DEF r
          <5> QED
            BY <2>1, <5>1, <5>2
        <4> QED
          BY <3>2, <4>2, <4>3
      <3>3. CASE HeadExisting(u) /\ ~Reply(u, 503)
        BY <1>2, <2>0, <3>3 DEF HeadExisting, Named, RequestType
      <3>4. CASE up[u].pc # "new" /\ \E code : Reply(u, code)
        BY <2>2, <3>4
      <3> QED
        BY <2>3, <3>1, <3>2, <3>3, <3>4
           DEF Request, ReserveReject, FinalizeReject, Finalize, Abort, HeadExisting
    <2>4. ASSUME NEW u \in Uploads, StoreCreate(u) \/ StoreLose(u)
          PROVE  up'[v].fp \in Prints
      <3>1. ASSUME NEW outcome, NEW x
            PROVE  Told(up[u], outcome, x).pc = up[u].pc /\ Told(up[u], outcome, x).fp = up[u].fp
        BY <2>0 DEF Told, RequestType
      <3>2. CASE StoreCreate(u)
        <4>1. \E outcome, x : up' = [up EXCEPT ![u] = Told(up[u], outcome, x)]
          BY <3>2 DEF StoreCreate
        <4> QED
          BY <1>2, <2>0, <3>1, <4>1 DEF Named
      <3>3. CASE StoreLose(u)
        BY <1>2, <2>0, <3>3 DEF StoreLose, Named, RequestType
      <3> QED
        BY <2>4, <3>2, <3>3
    <2>5. CASE UNCHANGED up
      BY <1>2, <2>5 DEF Named
    <2>6. Next => UNCHANGED up \/ (\E u \in Uploads : Request(u) \/ StoreCreate(u) \/ StoreLose(u))
      BY DEF Next, Bucket, StoreDelete, SweepStep, Begin, Visit, Claim, Head, Settle, SelectIntents,
             TakeIntent, Resolve, Erase, Erased, Forget, List, ScanOrphan, End, StorageError, Die,
             Account, Reissue, Revoke, SetCapability, DeleteDevice,
             Time, NextDay, Grow, Lapse, IntentDue, ObjectAged
    <2> QED
      BY <2>3, <2>4, <2>5, <2>6 DEF vars
  <1> QED
    BY <1>1, <1>2 DEF Named

LEMMA AlwaysNamed == Spec => [](Shape /\ Named)
  <1>1. Init => Named
    BY DEF Init, Named, NoReceipt
  <1> QED
    BY <1>1, InitShape, NextShape, NextNamed, PTL DEF Spec

(***************************************************************************)
(* The pipeline implements the Receiver.  A stored row is shown with its   *)
(* own content, because its object is intact; so the gallery is a function *)
(* of the receipts, and every effect on them is a step of the Receiver.    *)
(***************************************************************************)

Shown(r) ==
  [state |-> CASE r.state = "stored" -> "kept" [] r.state = "expired" -> "retired" [] OTHER -> "absent",
   fp |-> IF r.state = "stored" THEN r.fp ELSE NoPrint]

LEMMA ShownCases ==
  ASSUME NEW r
  PROVE  /\ r.state = "stored" => Shown(r) = Abstract!Kept(r.fp)
         /\ r.state = "expired" => Shown(r) = Abstract!Retired
         /\ r.state \notin {"stored", "expired"} => Shown(r) = Abstract!Absent
  BY DEF Shown, Abstract!Kept, Abstract!Retired, Abstract!Absent

LEMMA GalleryIsShown == StoredMediaIntact => Gallery = [o \in Obs |-> Shown(receipt[o])]
  <1> SUFFICES ASSUME StoredMediaIntact PROVE Gallery = [o \in Obs |-> Shown(receipt[o])]
    OBVIOUS
  <1>1. ASSUME NEW o \in Obs
        PROVE  Gallery[o] = Shown(receipt[o])
    BY DEF Gallery, Shown, StoredMediaIntact
  <1> QED
    BY <1>1 DEF Gallery

LEMMA GalleryIsShownNext == StoredMediaIntact' => Gallery' = [o \in Obs |-> Shown(receipt'[o])]
  <1> SUFFICES ASSUME StoredMediaIntact' PROVE Gallery' = [o \in Obs |-> Shown(receipt'[o])]
    OBVIOUS
  <1>1. ASSUME NEW o \in Obs
        PROVE  Gallery'[o] = Shown(receipt'[o])
    BY DEF Gallery, Shown, StoredMediaIntact
  <1> QED
    BY <1>1 DEF Gallery

LEMMA StepShown ==
  ASSUME Shape, Named, StoredMediaIntact, StoredMediaIntact', RowEffect
  PROVE  Abstract!Next \/ UNCHANGED <<Gallery, device = "deleted">>
  <1> DEFINE G == [o \in Obs |-> Shown(receipt[o])]
             H == [o \in Obs |-> Shown(receipt'[o])]
  <1>1. Gallery = G /\ Gallery' = H
    BY GalleryIsShown, GalleryIsShownNext
  <1>2. CASE StillDeleted /\ UNCHANGED receipt
    BY <1>1, <1>2 DEF StillDeleted
  <1>3. CASE StillDeleted /\ RowMoves
    <2>1. PICK p \in Obs, r \in ReceiptType :
            receipt' = [receipt EXCEPT ![p] = r] /\ (Reserves(p, r) \/ GivesUp(p, r) \/ Stores(p, r))
      BY <1>3 DEF RowMoves
    <2>2. H = [G EXCEPT ![p] = Shown(r)]
      <3>1. receipt'[p] = r /\ \A o \in Obs \ {p} : receipt'[o] = receipt[o]
        BY <2>1, RowValues
      <3>2. \A o \in Obs : H[o] = [G EXCEPT ![p] = Shown(r)][o]
        BY <3>1
      <3> QED
        BY <3>2
    <2>3. (device = "deleted")' = (device = "deleted")
      BY <1>3 DEF StillDeleted
    <2> HIDE DEF G, H
    <2>4. CASE Reserves(p, r) \/ (GivesUp(p, r) /\ r.state = "failed")
      <3>1. Shown(r) = Abstract!Absent /\ Shown(receipt[p]) = Abstract!Absent
        BY <2>4, ShownCases DEF Reserves, GivesUp
      <3>2. H = G
        BY <2>2, <3>1 DEF G
      <3> QED
        BY <1>1, <2>3, <3>2
    <2>5. CASE GivesUp(p, r) /\ r.state = "expired"
      <3>1. Shown(r) = Abstract!Retired /\ Shown(receipt[p]) # Abstract!Retired
        BY <2>5, ShownCases DEF GivesUp, Kept, Abstract!Kept, Abstract!Retired, Abstract!Absent
      <3>2. G[p] # Abstract!Retired
        BY <3>1 DEF G
      <3>3. Abstract!Retire(p)
        BY <1>1, <2>2, <2>3, <3>1, <3>2 DEF Abstract!Retire
      <3> QED
        BY <3>3 DEF Abstract!Next
    <2>6. CASE Stores(p, r)
      <3>1. /\ Shown(r) = Abstract!Kept(r.fp) /\ Shown(receipt[p]) = Abstract!Absent
            /\ r.fp \in Prints /\ device # "deleted"
        BY <2>6, ShownCases DEF Stores, Named
      <3>2. G[p] = Abstract!Absent
        BY <3>1 DEF G
      <3>3. Abstract!Take(p, r.fp)
        BY <1>1, <2>2, <2>3, <3>1, <3>2 DEF Abstract!Take
      <3> QED
        BY <3>1, <3>3 DEF Abstract!Next
    <2> QED
      BY <2>1, <2>4, <2>5, <2>6 DEF GivesUp
  <1>4. CASE RowsCleared
    <2>1. H = [o \in Obs |-> Abstract!Absent]
      <3>1. ASSUME NEW o \in Obs
            PROVE  Shown(receipt'[o]) = Abstract!Absent
        <4>1. receipt'[o] = NoReceipt /\ NoReceipt.state = "none"
          BY <1>4 DEF RowsCleared, NoReceipt
        <4> QED
          BY <4>1, ShownCases
      <3> QED
        BY <3>1
    <2>2. Abstract!Close
      BY <1>1, <1>4, <2>1 DEF RowsCleared, Abstract!Close
    <2> QED
      BY <2>2 DEF Abstract!Next
  <1> QED
    BY <1>2, <1>3, <1>4 DEF RowEffect

\* Whatever requests, sweeps, late storage calls, faults and cascades do, a reader of the
\* gallery sees a Receiver: an observation is taken once, stays as taken, is retired for good.
THEOREM ReceiverImplemented == Spec => ImplementsReceiver
  <1>1. Init => Abstract!Init
    <2> SUFFICES ASSUME Init PROVE Abstract!Init
      OBVIOUS
    <2>1. ASSUME NEW o \in Obs
          PROVE  Gallery[o] = Abstract!Absent
      BY DEF Init, Gallery, NoReceipt, Abstract!Absent
    <2>2. Gallery = [o \in Obs |-> Abstract!Absent]
      BY <2>1 DEF Gallery
    <2> QED
      BY <2>2 DEF Init, Abstract!Init
  <1>2. Shape /\ Media /\ Named /\ [Next]_vars => [Abstract!Next]_<<Gallery, device = "deleted">>
    <2> SUFFICES ASSUME Shape, Media, Named, [Next]_vars
                 PROVE  [Abstract!Next]_<<Gallery, device = "deleted">>
      OBVIOUS
    <2>1. StoredMediaIntact /\ StoredMediaIntact' /\ RowEffect
      BY NextMedia, NextEffect DEF Media
    <2> QED
      BY <2>1, StepShown
  <1> QED
    BY <1>1, <1>2, AlwaysMedia, AlwaysNamed, PTL DEF Spec, ImplementsReceiver, Abstract!Spec

(***************************************************************************)
(* The daily quota.  Reservations of a day and the images charged to it    *)
(* are counted as sets of receipts.                                        *)
(***************************************************************************)

Open(d) == {o \in Obs : receipt[o].state = "reserved" /\ receipt[o].day = d}
Charged(d) == {o \in Obs : receipt[o].received = d}

LEMMA Countable ==
  ASSUME NEW S, S \subseteq Obs
  PROVE  /\ IsFiniteSet(S) /\ Cardinality(S) \in Nat
         /\ \A T : T \subseteq S => Cardinality(T) <= Cardinality(S)
         /\ \A x : x \notin S => Cardinality(S \cup {x}) = Cardinality(S) + 1
         /\ \A x : x \in S => Cardinality(S \ {x}) = Cardinality(S) - 1
  <1>1. IsFiniteSet(S)
    BY FS_Subset, ConstantsAssumption
  <1>2. \A T : T \subseteq S => Cardinality(T) <= Cardinality(S)
    BY <1>1, FS_Subset
  <1>3. \A x : x \notin S => Cardinality(S \cup {x}) = Cardinality(S) + 1
    BY <1>1, FS_AddElement
  <1>4. \A x : x \in S => Cardinality(S \ {x}) = Cardinality(S) - 1
    BY <1>1, FS_RemoveElement
  <1> QED
    BY <1>1, <1>2, <1>3, <1>4, FS_CardinalityType

LEMMA CountsOfReserve ==
  ASSUME Shape, QuotaExact, NEW p \in Obs, NEW r \in ReceiptType, receipt' = [receipt EXCEPT ![p] = r],
         Reserves(p, r), NEW d \in Days
  PROVE  /\ usage'[d] + Cardinality(Open(d)') <= MaxDaily
         /\ usage'[d] = Cardinality(Charged(d)')
  <1>1. receipt'[p] = r /\ \A o \in Obs \ {p} : receipt'[o] = receipt[o]
    BY RowValues
  <1>2. UNCHANGED usage /\ r.state = "reserved" /\ r.received = 0
    BY DEF Reserves
  <1>3. receipt[p].received = 0
    BY DEF Reserves, Shape, DbOK, RowChecks
  <1>4. Charged(d)' = Charged(d)
    BY <1>1, <1>2, <1>3 DEF Charged
  <1>5. /\ usage[d] + Cardinality(Open(d)) <= MaxDaily
        /\ usage[d] = Cardinality(Charged(d)) /\ usage[d] \in Nat
    BY DEF QuotaExact, QuotaRespected, UsageExact, Open, Charged, Shape, DbOK, CountersOK
  <1>6. usage[d] + Cardinality(Open(d)') <= MaxDaily
    <2>1. CASE r.day # d \/ (receipt[p].state = "reserved" /\ r.day = receipt[p].day)
      <3>1. Open(d)' \subseteq Open(d)
        BY <1>1, <2>1 DEF Open
      <3>2. Open(d) \subseteq Obs
        BY DEF Open
      <3>3. Cardinality(Open(d)') <= Cardinality(Open(d)) /\ Cardinality(Open(d)') \in Nat
            /\ Cardinality(Open(d)) \in Nat
        BY <3>1, <3>2, Countable
      <3> QED
        BY <1>5, <3>3, ConstantsAssumption
    <2>2. CASE r.day = d /\ QuotaOpen(p, r.day)
      <3>1. Open(d)' = ReservedOthers(p, d) \cup {p} /\ p \notin ReservedOthers(p, d)
            /\ ReservedOthers(p, d) \subseteq Obs
        BY <1>1, <1>2, <2>2 DEF Open, ReservedOthers
      <3>2. Cardinality(Open(d)') = Cardinality(ReservedOthers(p, d)) + 1
            /\ Cardinality(ReservedOthers(p, d)) \in Nat
        BY <3>1, Countable
      <3>3. usage[d] + Cardinality(ReservedOthers(p, d)) + 1 <= MaxDaily
        BY <2>2 DEF QuotaOpen
      <3> QED
        BY <1>5, <3>2, <3>3, ConstantsAssumption
    <2> QED
      BY <2>1, <2>2 DEF Reserves
  <1> QED
    BY <1>2, <1>4, <1>5, <1>6

LEMMA CountsOfGiveUp ==
  ASSUME Shape, QuotaExact, NEW p \in Obs, NEW r \in ReceiptType, receipt' = [receipt EXCEPT ![p] = r],
         GivesUp(p, r), NEW d \in Days
  PROVE  /\ usage'[d] + Cardinality(Open(d)') <= MaxDaily
         /\ usage'[d] = Cardinality(Charged(d)')
  <1>1. receipt'[p] = r /\ \A o \in Obs \ {p} : receipt'[o] = receipt[o]
    BY RowValues
  <1>2. UNCHANGED usage /\ r.state # "reserved" /\ r.received = receipt[p].received
    BY DEF GivesUp
  <1>3. Charged(d)' = Charged(d) /\ Open(d)' \subseteq Open(d) /\ Open(d) \subseteq Obs
    BY <1>1, <1>2 DEF Charged, Open
  <1>4. Cardinality(Open(d)') <= Cardinality(Open(d)) /\ Cardinality(Open(d)') \in Nat
        /\ Cardinality(Open(d)) \in Nat
    BY <1>3, Countable
  <1>5. /\ usage[d] + Cardinality(Open(d)) <= MaxDaily
        /\ usage[d] = Cardinality(Charged(d)) /\ usage[d] \in Nat
    BY DEF QuotaExact, QuotaRespected, UsageExact, Open, Charged, Shape, DbOK, CountersOK
  <1> QED
    BY <1>2, <1>3, <1>4, <1>5, ConstantsAssumption

LEMMA CountsOfStore ==
  ASSUME Shape, QuotaExact, NEW p \in Obs, NEW r \in ReceiptType, receipt' = [receipt EXCEPT ![p] = r],
         Stores(p, r), NEW d \in Days
  PROVE  /\ usage'[d] + Cardinality(Open(d)') <= MaxDaily
         /\ usage'[d] = Cardinality(Charged(d)')
  <1>1. receipt'[p] = r /\ \A o \in Obs \ {p} : receipt'[o] = receipt[o]
    BY RowValues
  <1>2. /\ receipt[p].state = "reserved" /\ receipt[p].day = day
        /\ r.state = "stored" /\ r.received = day /\ usage' = [usage EXCEPT ![day] = @ + 1]
    BY DEF Stores
  <1>3. receipt[p].received = 0 /\ day # 0 /\ d # 0 /\ d \in Nat /\ day \in Days
    BY <1>2, ConstantsAssumption DEF Shape, DbOK, RowChecks, ClockOK, Days
  <1>4. /\ usage[d] + Cardinality(Open(d)) <= MaxDaily
        /\ usage[d] = Cardinality(Charged(d)) /\ usage[d] \in Nat /\ usage \in [Days -> Nat]
    BY DEF QuotaExact, QuotaRespected, UsageExact, Open, Charged, Shape, DbOK, CountersOK
  <1>5. Open(d) \subseteq Obs /\ Charged(d) \subseteq Obs
    BY DEF Open, Charged
  <1>6. CASE d = day
    <2>1. /\ Open(d)' = Open(d) \ {p} /\ p \in Open(d)
          /\ Charged(d)' = Charged(d) \cup {p} /\ p \notin Charged(d)
      BY <1>1, <1>2, <1>3, <1>6 DEF Open, Charged
    <2>2. /\ Cardinality(Open(d)') = Cardinality(Open(d)) - 1 /\ Cardinality(Open(d)) \in Nat
          /\ Cardinality(Charged(d)') = Cardinality(Charged(d)) + 1
      BY <1>5, <2>1, Countable
    <2>3. usage'[d] = usage[d] + 1
      BY <1>2, <1>4, <1>6
    <2> QED
      BY <1>4, <2>2, <2>3, ConstantsAssumption
  <1>7. CASE d # day
    <2>1. Open(d)' = Open(d) /\ Charged(d)' = Charged(d)
      BY <1>1, <1>2, <1>3, <1>7 DEF Open, Charged
    <2>2. usage'[d] = usage[d]
      BY <1>2, <1>4, <1>7
    <2> QED
      BY <1>4, <2>1, <2>2
  <1> QED
    BY <1>6, <1>7

LEMMA NextQuota == Shape /\ Named /\ QuotaExact /\ [Next]_vars => QuotaExact'
  <1> SUFFICES ASSUME Shape, Named, QuotaExact, [Next]_vars, NEW d \in Days
               PROVE  /\ usage'[d] + Cardinality(Open(d)') <= MaxDaily
                      /\ usage'[d] = Cardinality(Charged(d)')
    BY DEF QuotaExact, QuotaRespected, UsageExact, Open, Charged
  <1>1. RowEffect
    BY NextEffect
  <1>2. CASE UNCHANGED <<receipt, usage>>
    BY <1>2 DEF QuotaExact, QuotaRespected, UsageExact, Open, Charged
  <1>3. CASE RowMoves
    BY <1>3, CountsOfReserve, CountsOfGiveUp, CountsOfStore DEF RowMoves
  <1>4. CASE RowsCleared
    <2>1. \A o \in Obs : receipt'[o].state = "none" /\ receipt'[o].received = 0
      BY <1>4 DEF RowsCleared, NoReceipt
    <2>2. d # 0
      BY ConstantsAssumption DEF Days
    <2>3. Open(d)' = {} /\ Charged(d)' = {}
      BY <2>1, <2>2 DEF Open, Charged
    <2>4. usage'[d] = 0
      BY <1>4 DEF RowsCleared
    <2> QED
      BY <2>3, <2>4, FS_EmptySet, ConstantsAssumption
  <1> QED
    BY <1>1, <1>2, <1>3, <1>4 DEF RowEffect

\* However many uploads and sweeps reserve and finalize around a midnight, a day never takes
\* more images than its quota, and each accepted image is charged once, to its day.
THEOREM QuotaIsExact == Spec => []QuotaExact
  <1>1. Init => QuotaExact
    <2> SUFFICES ASSUME Init, NEW d \in Days
                 PROVE  /\ usage[d] + Cardinality(Open(d)) <= MaxDaily
                        /\ usage[d] = Cardinality(Charged(d))
      BY DEF QuotaExact, QuotaRespected, UsageExact, Open, Charged
    <2>1. d # 0
      BY ConstantsAssumption DEF Days
    <2>2. Open(d) = {} /\ Charged(d) = {} /\ usage[d] = 0
      BY <2>1 DEF Init, Open, Charged, NoReceipt
    <2> QED
      BY <2>2, FS_EmptySet, ConstantsAssumption
  <1> QED
    BY <1>1, AlwaysNamed, NextQuota, PTL DEF Spec

(***************************************************************************)
(* The viewer.  A request that found its row finds, at every later moment, *)
(* that same row with that same generation, or a row gone for good; so the *)
(* two comparisons can only fail for a viewer who could not see the image. *)
(***************************************************************************)

\* The row a request was authorized for is as it was, or expired, or gone with its device.
RowHolds(r) ==
  \/ device = "deleted"
  \/ /\ receipt[r.obs].fp = r.fp
     /\ \/ receipt[r.obs].state = "expired"
        \/ /\ receipt[r.obs].state = "stored" /\ image[r.obs].gen = r.gen
           /\ r.pc = "got" => r.got = r.fp

\* The bytes are the row's, and every acknowledged upload's: the row still says so, and
\* nothing is acknowledged for a deleted device.
BytesRight(r) ==
  /\ \/ device = "deleted"
     \/ receipt[r.obs].fp = r.got /\ receipt[r.obs].state \in {"stored", "expired"}
  /\ Promised(r.obs, r.got)

ReadInv ==
  /\ ReadTypeOK
  /\ read.pc # "idle" => read.obs \in Obs
  /\ read.answer # "none" => read.pc = "done"
  /\ read.pc \in {"found", "got"} => RowHolds(read)
  /\ read.pc \in {"found", "got", "cleared"} => MayView(read.obs) \/ withheld
  /\ read.pc = "got" /\ MayView(read.obs) => entitled
  /\ read.pc = "cleared" \/ read.answer = "sent" => entitled /\ BytesRight(read)
  /\ DeniedRightly /\ NeverMismatched

\* What a step of the pipeline does to a row that was stored, or expired.
Lasting(o) ==
  /\ device = "deleted" => device' = "deleted"
  /\ device' # "deleted" /\ receipt[o].state \in {"stored", "expired"} =>
       /\ receipt'[o].fp = receipt[o].fp
       /\ \/ receipt'[o].state = "expired"
          \/ receipt[o].state = "stored" /\ receipt'[o].state = "stored"

LEMMA NextLasting ==
  ASSUME Shape, Named, [Next]_vars, NEW o \in Obs
  PROVE  Lasting(o)
  <1>1. RowEffect
    BY NextEffect
  <1>2. CASE StillDeleted /\ UNCHANGED receipt
    BY <1>2 DEF Lasting, StillDeleted
  <1>3. CASE StillDeleted /\ RowMoves
    <2>1. PICK p \in Obs, r \in ReceiptType :
            receipt' = [receipt EXCEPT ![p] = r] /\ (Reserves(p, r) \/ GivesUp(p, r) \/ Stores(p, r))
      BY <1>3 DEF RowMoves
    <2>2. receipt'[p] = r /\ (o # p => receipt'[o] = receipt[o])
      BY <2>1, RowValues
    <2> QED
      BY <1>3, <2>1, <2>2 DEF Lasting, StillDeleted, Reserves, GivesUp, Stores
  <1>4. CASE RowsCleared
    BY <1>4 DEF RowsCleared, Lasting
  <1> QED
    BY <1>1, <1>2, <1>3, <1>4 DEF RowEffect

\* Only the finalization of a reservation gives a row a generation.
LEMMA GenerationLasts ==
  ASSUME Shape, [Next]_vars, NEW o \in Obs, receipt[o].state = "stored", receipt'[o].state = "stored"
  PROVE  image'[o].gen = image[o].gen
  <1> USE DEF Shape, DbOK
  <1>1. CASE UNCHANGED image
    BY <1>1
  <1>2. ASSUME NEW p \in Obs, NEW x, Accept(p, x), receipt[p].state = "reserved"
        PROVE  image'[o].gen = image[o].gen
    BY <1>2 DEF Accept, ImagesOK
  <1>3. ASSUME NEW p \in Obs, Expire(p)
        PROVE  image'[o].gen = image[o].gen
    <2>1. o # p
      BY <1>3 DEF Expire, Released, ReceiptsOK, ReceiptType
    <2> QED
      BY <1>3, <2>1 DEF Expire, ImagesOK
  <1>4. CASE DeleteDevice
    BY <1>4 DEF DeleteDevice, NoReceipt
  <1>5. ASSUME NEW u \in Uploads, Request(u)
        PROVE  image'[o].gen = image[o].gen
    <2>1. CASE Reserve(u)
      BY <2>1 DEF Reserve, ImagesOK
    <2>2. CASE Finalize(u)
      <3>1. up[u].obs \in Obs
        BY <2>2 DEF Finalize, RequestSide, RequestsAddressed
      <3>2. receipt[up[u].obs].state = "reserved"
        BY <2>2 DEF Finalize, FinalizeAnswer, LeaseHeld
      <3> QED
        BY <1>2, <2>2, <3>1, <3>2 DEF Finalize
    <2> QED
      BY <1>1, <1>5, <2>1, <2>2 DEF Request, Arrive, ReserveReject, Created, HeadExisting,
                                    FinalizeReject, Abort, db
  <1>6. CASE SweepStep
    <2>1. ASSUME NEW p \in Obs, Visit(p)
          PROVE  image'[o].gen = image[o].gen
      BY <1>1, <1>3, <2>1 DEF Visit, db
    <2>2. CASE Settle
      <3>1. sweep.at \in Obs
        BY <2>2 DEF Settle, SweepSide, SweepAddressed, Busy
      <3>2. SettleOutcome(sweep.at) = "accept" => receipt[sweep.at].state = "reserved"
        BY DEF SettleOutcome, LeaseHeld
      <3> QED
        BY <1>1, <1>2, <1>3, <2>2, <3>1, <3>2 DEF Settle, Fail, db
    <2> QED
      BY <1>1, <1>6, <2>1, <2>2 DEF SweepStep, Begin, Head, SelectIntents, Claim, TakeIntent,
           ScanOrphan, Resolve, Erase, Erased, Forget, List, End, db
  <1>7. CASE Account
    BY <1>1, <1>4, <1>7 DEF Account, Reissue, Revoke, SetCapability, db
  <1>8. CASE Bucket \/ StorageError \/ Die \/ Time \/ UNCHANGED vars
    BY <1>1, <1>8 DEF Bucket, StoreCreate, StoreLose, StoreDelete, StorageError, Die, Time, NextDay,
         Grow, Lapse, IntentDue, ObjectAged, db, vars
  <1> QED
    BY <1>5, <1>6, <1>7, <1>8 DEF Next

\* Nothing is acknowledged for a deleted device.
LEMMA NoLateAck ==
  ASSUME Shape, [Next]_vars, device' = "deleted", NEW u \in Uploads, up'[u].resp = "acked"
  PROVE  up[u].resp = "acked" /\ up'[u].obs = up[u].obs /\ up'[u].fp = up[u].fp
  <1> USE DEF Shape, RequestSide, RequestsOK
  <1>1. CASE UNCHANGED up
    BY <1>1
  <1>2. ASSUME NEW v \in Uploads, NEW r, up' = [up EXCEPT ![v] = r],
               \/ r.resp # "acked"
               \/ r.resp = up[v].resp /\ r.obs = up[v].obs /\ r.fp = up[v].fp
        PROVE  up[u].resp = "acked" /\ up'[u].obs = up[u].obs /\ up'[u].fp = up[u].fp
    BY <1>2
  <1>3. ASSUME NEW v \in Uploads, NEW code, Reply(v, code), code \notin {200, 201}
        PROVE  up[u].resp = "acked" /\ up'[u].obs = up[u].obs /\ up'[u].fp = up[u].fp
    <2>1. up' = [up EXCEPT ![v] = Ended(up[v], code)] /\ Ended(up[v], code).resp = "refused"
      BY <1>3 DEF Reply, Ended
    <2> QED
      BY <1>2, <2>1
  <1>4. ASSUME NEW v \in Uploads, Request(v)
        PROVE  up[u].resp = "acked" /\ up'[u].obs = up[u].obs /\ up'[u].fp = up[u].fp
    <2>1. device = "deleted"
      BY <1>4 DEF Request, Arrive, ReserveReject, Reserve, Created, HeadExisting, FinalizeReject,
                  Finalize, Abort, account
    <2>2. ReserveAnswer(v) = 401 /\ FinalizeAnswer(v) \in {401, 409}
      BY <2>1 DEF ReserveAnswer, FinalizeAnswer, Authorized
    <2>3. ASSUME NEW p \in Obs, NEW f \in Prints, NEW c \in 1..token, Arrive(v, p, f, c)
          PROVE  up[u].resp = "acked" /\ up'[u].obs = up[u].obs /\ up'[u].fp = up[u].fp
      <3> DEFINE r == [up[v] EXCEPT !.obs = p, !.fp = f,
                 !.cred = IF Authorized(c) THEN c ELSE 0,
                 !.day = IF Authorized(c) THEN day ELSE 0,
                 !.age = IF Authorized(c) THEN age[p] ELSE "fresh",
                 !.pc = IF Authorized(c) THEN "admitted" ELSE "done",
                 !.resp = IF Authorized(c) THEN "none" ELSE "refused"]
      <3>1. up' = [up EXCEPT ![v] = r] /\ r.resp # "acked"
        BY <2>3 DEF Arrive, RequestType
      <3> QED
        BY <1>2, <3>1
    <2>4. CASE Created(v)
      <3>1. up' = [up EXCEPT ![v] = [up[v] EXCEPT !.pc = "held"]]
        BY <2>4 DEF Created
      <3> QED
        BY <1>2, <3>1 DEF RequestType
    <2>5. CASE HeadExisting(v)
      <3>1. \/ Reply(v, 503)
            \/ up' = [up EXCEPT ![v] = [up[v] EXCEPT !.pc = "held", !.obj = object[up[v].obs]]]
        BY <2>5 DEF HeadExisting
      <3>2. CASE up' = [up EXCEPT ![v] = [up[v] EXCEPT !.pc = "held", !.obj = object[up[v].obs]]]
        BY <1>2, <3>2 DEF RequestType
      <3> QED
        BY <1>3, <3>1, <3>2
    <2> QED
      BY <1>3, <1>4, <2>2, <2>3, <2>4, <2>5 DEF Request, ReserveReject, Reserve, FinalizeReject, Finalize, Abort
  <1>5. ASSUME NEW v \in Uploads, StoreCreate(v) \/ StoreLose(v)
        PROVE  up[u].resp = "acked" /\ up'[u].obs = up[u].obs /\ up'[u].fp = up[u].fp
    <2>1. \A outcome, x : LET r == Told(up[v], outcome, x) IN
            r.resp = up[v].resp /\ r.obs = up[v].obs /\ r.fp = up[v].fp
      BY DEF Told, RequestType
    <2>2. CASE StoreLose(v)
      <3>1. up' = [up EXCEPT ![v] = [up[v] EXCEPT !.put = "none"]]
        BY <2>2 DEF StoreLose
      <3> QED
        BY <1>2, <3>1 DEF RequestType
    <2>3. CASE StoreCreate(v)
      <3>1. PICK outcome, x : up' = [up EXCEPT ![v] = Told(up[v], outcome, x)]
        BY <2>3 DEF StoreCreate
      <3> QED
        BY <1>2, <2>1, <3>1
    <2> QED
      BY <1>5, <2>2, <2>3
  <1> QED
    BY <1>1, <1>4, <1>5 DEF Next, Bucket, StoreDelete, SweepStep, Begin, Head, Settle, SelectIntents,
         Visit, Claim, TakeIntent, ScanOrphan, Resolve, Erase, Erased, Forget, List, End, StorageError,
         Die, Account, Reissue, Revoke, SetCapability, DeleteDevice, Time, NextDay, Grow, Lapse,
         IntentDue, ObjectAged, vars

\* A step of the pipeline or of the viewer's session under a request: what the request relies on still holds.
LEMMA PipelineReads ==
  ASSUME Shape, Media, Media', Named, ReadInv, [Next]_vars, Noted,
         UNCHANGED read, access' \in {"here", "elsewhere", "ended"}
  PROVE  ReadInv'
  <1> DEFINE o == read.obs
             Pending == read.pc \in {"found", "got", "cleared"}
  <1> USE DEF ReadInv
  <1>1. read' = read /\ (read.pc # "idle" => o \in Obs /\ Lasting(o))
    BY NextLasting
  <1>2. ReadTypeOK'
    BY DEF ReadTypeOK, Noted
  <1>3. ASSUME read.pc \in {"found", "got"} PROVE RowHolds(read)'
    <2>1. o \in Obs /\ RowHolds(read) /\ Lasting(o)
      BY <1>1, <1>3
    <2>2. receipt[o].state = "stored" /\ receipt'[o].state = "stored" => image'[o].gen = image[o].gen
      BY <2>1, GenerationLasts
    <2> QED
      BY <1>1, <2>1, <2>2 DEF RowHolds, Lasting
  <1>4. ASSUME read.pc = "cleared" \/ read.answer = "sent" PROVE BytesRight(read)'
    <2>1. o \in Obs /\ BytesRight(read) /\ Lasting(o)
      BY <1>1, <1>4
    <2>2. device' = "deleted" \/ (receipt'[o].fp = read.got /\ receipt'[o].state \in {"stored", "expired"})
      BY <2>1 DEF BytesRight, Lasting
    <2>3. ASSUME NEW u \in Uploads, up'[u].resp = "acked", up'[u].obs = o
          PROVE  up'[u].fp = read.got
      <3>1. CASE device' = "deleted"
        BY <2>1, <2>3, <3>1, NoLateAck DEF BytesRight, Promised
      <3>2. CASE device' # "deleted"
        <4>1. receipt'[o].fp = up'[u].fp
          BY <2>3, <3>2 DEF Media, RequestInv, RequestGood
        <4> QED
          BY <2>2, <3>2, <4>1
      <3> QED
        BY <3>1, <3>2
    <2>4. Promised(read.obs, read.got)'
      BY <1>1, <2>3 DEF Promised
    <2> QED
      BY <1>1, <2>2, <2>4 DEF BytesRight
  <1>5. Pending => (MayView(read.obs)' \/ withheld') /\ (withheld => withheld') /\ (entitled => entitled')
    BY DEF Noted
  <1>6. read.pc = "got" /\ MayView(read.obs)' => entitled'
    BY DEF Noted
  <1>7. ~Pending => withheld' = withheld /\ entitled' = entitled
    BY DEF Noted, ReadTypeOK, ReadType
  <1> QED
    BY <1>1, <1>2, <1>3, <1>4, <1>5, <1>6, <1>7 DEF DeniedRightly, NeverMismatched

LEMMA InitReads == ReadInit => ReadInv
  <1> SUFFICES ASSUME ReadInit PROVE ReadInv
    OBVIOUS
  <1>1. read = NoRead /\ NoRead.pc = "idle" /\ NoRead.answer = "none" /\ NoRead \in ReadType
    BY DEF ReadInit, NoRead, ReadType
  <1>2. ReadTypeOK
    BY <1>1 DEF ReadInit, ReadTypeOK
  <1> QED
    BY <1>1, <1>2 DEF ReadInv, DeniedRightly, NeverMismatched

\* The answers of a request rest on what it has read.
LEMMA RequestReads ==
  ASSUME Shape, Media, Named, ReadInv, UNCHANGED <<vars, access>>,
         (\E o \in Obs : Ask(o)) \/ Fetch \/ FetchFails \/ Recheck \/ Send
  PROVE  ReadInv'
  <1> USE DEF ReadInv, DeniedRightly, NeverMismatched
  <1>1. \A o \in Obs : receipt[o] \in ReceiptType /\ image[o].gen \in Nat /\ object[o] \in ObjectType
    BY DEF Shape, DbOK, StoreOK, ReceiptsOK, ImagesOK
  <1>2. \A o : MayView(o)' <=> MayView(o)
    BY DEF MayView, Retained, vars, account, clock, db
  <1>3. /\ \A r : RowHolds(r)' <=> RowHolds(r)
        /\ \A r : BytesRight(r)' <=> BytesRight(r)
    BY DEF RowHolds, BytesRight, Promised, vars, account, db
  <1>4. ASSUME NEW o \in Obs, Ask(o) PROVE ReadInv'
    <2>1. CASE MayView(o)
      <3>1. /\ read'.pc = "found" /\ read'.obs = o /\ read'.answer = "none" /\ read' \in ReadType
            /\ read'.gen = image[o].gen /\ read'.fp = receipt[o].fp /\ UNCHANGED access
        BY <1>1, <1>4, <2>1 DEF Ask, NoRead, ReadType, ReceiptType
      <3>2. RowHolds(read')
        BY <2>1, <3>1 DEF RowHolds, MayView
      <3>3. ReadTypeOK'
        BY <1>4, <3>1 DEF ReadTypeOK, Ask, MayView
      <3>4. RowHolds(read)'
        BY <1>3, <3>2
      <3>5. MayView(read.obs)'
        BY <1>2, <2>1, <3>1
      <3> QED
        BY <3>1, <3>3, <3>4, <3>5
    <2>2. CASE ~MayView(o)
      <3>1. /\ read'.pc = "done" /\ read'.obs = o /\ read'.answer = "denied" /\ read' \in ReadType
            /\ withheld' = TRUE /\ entitled' = FALSE
        BY <1>4, <2>2 DEF Ask, NoRead, ReadType
      <3>2. ReadTypeOK'
        BY <3>1 DEF ReadTypeOK
      <3> QED
        BY <3>1, <3>2
    <2> QED
      BY <2>1, <2>2
  <1>5. (Fetch \/ FetchFails \/ Recheck \/ Send) =>
          read.obs \in Obs /\ read \in ReadType /\ UNCHANGED access
    BY DEF ReadTypeOK, Fetch, FetchFails, Recheck, Send
  <1>6. \A answer \in {"sent", "denied", "unavailable", "mismatched"} : LET r == Answered(answer) IN
          read \in ReadType => /\ r \in ReadType /\ r.pc = "done" /\ r.answer = answer
                              /\ r.obs = read.obs /\ r.got = read.got
    BY DEF Answered, ReadType
  <1>7. CASE Fetch
    <2>1. receipt[read.obs].state = "stored" =>
            object[read.obs].gen = image[read.obs].gen /\ object[read.obs].fp = receipt[read.obs].fp
      BY <1>5, <1>7 DEF Media, StoredMediaIntact
    <2>2. RowHolds(read) /\ (MayView(read.obs) \/ withheld)
      BY <1>7 DEF Fetch
    <2>3. withheld' = withheld /\ entitled' = MayView(read.obs)
      BY <1>7 DEF Fetch
    <2>4. CASE object[read.obs].gen = read.gen
      <3>1. /\ read'.pc = "got" /\ read'.answer = "none" /\ read' \in ReadType
            /\ read'.obs = read.obs /\ read'.gen = read.gen /\ read'.fp = read.fp
            /\ read'.got = object[read.obs].fp
        BY <1>1, <1>5, <1>7, <2>4 DEF Fetch, ReadType, ObjectType
      <3>2. RowHolds(read')
        BY <2>1, <2>2, <3>1 DEF RowHolds
      <3>3. RowHolds(read)'
        BY <1>3, <3>2
      <3>4. ReadTypeOK'
        BY <1>5, <1>7, <2>3, <3>1 DEF ReadTypeOK, MayView
      <3> QED
        BY <1>2, <1>5, <1>7, <2>2, <2>3, <3>1, <3>3, <3>4
    <2>5. CASE object[read.obs].gen # read.gen
      <3>1. read' = Answered("denied")
        BY <1>7, <2>5 DEF Fetch
      <3>2. withheld
        BY <2>1, <2>2, <2>5 DEF RowHolds, MayView
      <3>3. ReadTypeOK'
        BY <1>5, <1>6, <1>7, <2>3, <3>1 DEF ReadTypeOK, MayView
      <3> QED
        BY <1>5, <1>6, <1>7, <2>3, <3>1, <3>2, <3>3
    <2> QED
      BY <2>4, <2>5
  <1>8. CASE FetchFails
    <2>1. read' = Answered("unavailable") /\ withheld' = withheld /\ entitled' = entitled
      BY <1>8 DEF FetchFails
    <2>2. ReadTypeOK'
      BY <1>5, <1>6, <1>8, <2>1 DEF ReadTypeOK
    <2> QED
      BY <1>5, <1>6, <1>8, <2>1, <2>2
  <1>9. CASE Recheck
    <2>1. /\ withheld' = withheld /\ entitled' = entitled /\ RowHolds(read)
          /\ read.pc = "got" /\ (MayView(read.obs) \/ withheld) /\ (MayView(read.obs) => entitled)
      BY <1>9 DEF Recheck
    <2>2. MayView(read.obs) => Same
      BY <2>1 DEF MayView, RowHolds, Same
    <2>3. CASE ~MayView(read.obs)
      <3>1. read' = Answered("denied")
        BY <1>9, <2>3 DEF Recheck, StillMayView
      <3>2. ReadTypeOK'
        BY <1>5, <1>6, <1>9, <2>1, <3>1 DEF ReadTypeOK
      <3> QED
        BY <1>5, <1>6, <1>9, <2>1, <2>3, <3>1, <3>2
    <2>4. CASE MayView(read.obs)
      <3>1. /\ read'.pc = "cleared" /\ read'.answer = "none" /\ read' \in ReadType
            /\ read'.obs = read.obs /\ read'.got = read.got
        BY <1>5, <1>9, <2>1, <2>2, <2>4 DEF Recheck, StillMayView, ReadType
      <3>2. device # "deleted" /\ receipt[read.obs].state = "stored" /\ receipt[read.obs].fp = read.got
        BY <2>2, <2>4 DEF MayView, Same
      <3>3. Promised(read.obs, read.got)
        BY <3>2 DEF Promised, Media, RequestInv, RequestGood
      <3>4. BytesRight(read')
        BY <3>1, <3>2, <3>3 DEF BytesRight
      <3>5. BytesRight(read)'
        BY <1>3, <3>4
      <3>6. ReadTypeOK'
        BY <1>5, <1>9, <2>1, <3>1 DEF ReadTypeOK
      <3> QED
        BY <1>2, <1>5, <1>9, <2>1, <2>4, <3>1, <3>5, <3>6
    <2> QED
      BY <2>3, <2>4
  <1>10. CASE Send
    <2>1. /\ read' = Answered("sent") /\ withheld' = withheld /\ entitled' = entitled
          /\ entitled /\ BytesRight(read)
      BY <1>10 DEF Send
    <2>2. BytesRight(read')
      BY <1>5, <1>6, <1>10, <2>1 DEF BytesRight
    <2>3. BytesRight(read)'
      BY <1>3, <2>2
    <2>4. ReadTypeOK'
      BY <1>5, <1>6, <1>10, <2>1 DEF ReadTypeOK
    <2> QED
      BY <1>5, <1>6, <1>10, <2>1, <2>3, <2>4
  <1> QED
    BY <1>4, <1>7, <1>8, <1>9, <1>10

LEMMA NextReads == Shape /\ Media /\ Media' /\ Named /\ ReadInv /\ [ReadNext]_readVars => ReadInv'
  <1> SUFFICES ASSUME Shape, Media, Media', Named, ReadInv, [ReadNext]_readVars PROVE ReadInv'
    OBVIOUS
  <1>1. CASE PipelineStep
    BY <1>1, PipelineReads DEF PipelineStep, ReadInv, ReadTypeOK
  <1>2. CASE AccessChanges
    BY <1>2, PipelineReads DEF AccessChanges
  <1>3. CASE UNCHANGED readVars
    <2>1. MayView(read.obs)' <=> MayView(read.obs)
      BY <1>3 DEF MayView, Retained, readVars, vars, account, clock, db
    <2>2. Noted
      BY <1>3, <2>1 DEF Noted, readVars, ReadInv, ReadTypeOK, ReadType
    <2> QED
      BY <1>3, <2>2, PipelineReads DEF readVars, ReadInv, ReadTypeOK
  <1> QED
    BY <1>1, <1>2, <1>3, RequestReads DEF ReadNext, Ask, Fetch, FetchFails, Recheck, Send

\* What the gallery tells its viewer is true: bytes reach only a viewer entitled to them after
\* they were read and are what was acknowledged, a picture is reported missing only if it
\* could not be seen, and the comparison of the two snapshots never fails.
THEOREM ViewersAreToldTheTruth == ReadSpec => []ReadsHonest
  <1>1. [ReadNext]_readVars => [Next]_vars
    BY DEF ReadNext, readVars, PipelineStep, AccessChanges, Ask, Fetch, FetchFails, Recheck, Send
  <1>2. ReadInit => Init
    BY DEF ReadInit
  <1>3. ReadSpec => Spec
    BY <1>1, <1>2, PTL DEF ReadSpec, Spec
  <1>4. ReadInv => ReadsHonest
    BY DEF ReadInv, ReadsHonest, SentRightly, BytesRight
  <1> QED
    BY <1>3, <1>4, InitReads, NextReads, AlwaysMedia, AlwaysNamed, PTL DEF ReadSpec
=============================================================================
