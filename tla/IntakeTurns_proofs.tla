------------------------- MODULE IntakeTurns_proofs -------------------------
(***************************************************************************)
(* Proofs about IntakeTurns: however calls are retried, abandoned or       *)
(* raced, a message gets at most one reply, no reply buries a question,    *)
(* the lock is not left behind, the limit of rounds holds, and every       *)
(* version of the spec is decided on the one before it.                    *)
(***************************************************************************)
EXTENDS IntakeTurns, FiniteSetTheorems, SequenceTheorems, TLAPS

(***************************************************************************)
(* The time of a message.                                                  *)
(***************************************************************************)

\* A finite set of numbers has a greatest one: a smallest subset without one could lose any
\* of its members and still have none.
LEMMA FiniteGreatest ==
  ASSUME NEW S \in SUBSET Int, IsFiniteSet(S), S # {}
  PROVE  \E x \in S : \A y \in S : y <= x
  <1> DEFINE Without == {T \in SUBSET S : T # {} /\ \A x \in T : \E y \in T : ~(y <= x)}
  <1>1. CASE S \notin Without
    BY <1>1
  <1>2. CASE S \in Without
    <2>1. FiniteSubsetsOf(S) = SUBSET S /\ IsWellFoundedOn(StrictSubsetOrdering(S), FiniteSubsetsOf(S))
      BY FS_FiniteSubsetsOfFinite, FS_StrictSubsetOrderingWellFounded
    <2>2. Without \subseteq FiniteSubsetsOf(S) /\ Without # {}
      BY <1>2, <2>1
    <2> HIDE DEF Without
    <2>3. PICK T \in Without : \A U \in Without : <<U, T>> \notin StrictSubsetOrdering(S)
      BY <2>1, <2>2, WFMin
    <2>4. T \in SUBSET S /\ T # {} /\ \A x \in T : \E y \in T : ~(y <= x)
      BY DEF Without
    <2>5. PICK a \in T : TRUE
      BY <2>4
    <2> DEFINE U == T \ {a}
    <2>6. U \in SUBSET S /\ U # T /\ U \subseteq T
      BY <2>4
    <2>7. <<U, T>> \in StrictSubsetOrdering(S)
      BY <2>4, <2>6 DEF StrictSubsetOrdering
    <2>8. U \notin Without
      BY <2>3, <2>7
    <2>9. PICK b \in T : ~(b <= a)
      BY <2>4
    <2>10. b \in U
      BY <2>4, <2>9
    <2>11. PICK x \in U : \A y \in U : y <= x
      BY <2>6, <2>8, <2>10 DEF Without
    <2>12. x \in T /\ \A y \in T : y <= x
      BY <2>4, <2>9, <2>10, <2>11
    <2> QED
      BY <2>4, <2>12
  <1> QED
    BY <1>1, <1>2

\* The times of a transcript are a finite set of numbers.
LEMMA TimesFinite ==
  ASSUME TypeOK
  PROVE  Times \in SUBSET Nat /\ IsFiniteSet(Times)
  <1> DEFINE P == {posted[c].at : c \in Asked}
             R == {replies[i].at : i \in DOMAIN replies}
             f == [c \in Asked |-> posted[c].at]
             g == [i \in DOMAIN replies |-> replies[i].at]
  <1>1. f \in Surjection(Asked, P) /\ g \in Surjection(DOMAIN replies, R)
    BY DEF Surjection
  <1>2. IsFiniteSet(Asked)
    BY IntakeAssumption, FS_Subset DEF Asked
  <1>3. IsFiniteSet(DOMAIN replies)
    <2>1. DOMAIN replies = 1 .. Len(replies) /\ Len(replies) \in Nat
      BY LenProperties DEF TypeOK
    <2> QED
      BY <2>1, FS_Interval
  <1>4. IsFiniteSet(P) /\ IsFiniteSet(R)
    BY <1>1, <1>2, <1>3, FS_Surjection
  <1>5. P \subseteq Nat
    BY DEF TypeOK, Asked
  <1>6. \A i \in DOMAIN replies : replies[i] \in [re : Ids, at : Nat]
    <2>1. replies \in Seq([re : Ids, at : Nat])
      BY DEF TypeOK
    <2>2. DOMAIN replies = 1 .. Len(replies)
      BY <2>1, LenProperties
    <2> QED
      BY <2>1, <2>2, ElementOfSeq
  <1>7. R \subseteq Nat
    BY <1>6
  <1>8. IsFiniteSet(P \cup R) /\ Times = P \cup R
    BY <1>4, FS_Union DEF Times
  <1> QED
    BY <1>5, <1>7, <1>8

\* A new message comes two microseconds after everything said, or later.
LEMMA PostedLast ==
  ASSUME TypeOK, NEW now \in Clock
  PROVE  /\ PostedAt(now) \in Nat /\ PostedAt(now) # 0
         /\ \A t \in Times : t + 2 <= PostedAt(now)
  <1> DEFINE S == {x + 2 : x \in Times}
             T == {now} \cup S
             f == [x \in Times |-> x + 2]
  <1>1. now \in Nat \ {0}
    BY IntakeAssumption
  <1>2. Times \subseteq Nat /\ IsFiniteSet(Times)
    BY TimesFinite
  <1>3. f \in Surjection(Times, S)
    BY DEF Surjection
  <1>4. IsFiniteSet(S)
    BY <1>2, <1>3, FS_Surjection
  <1>5. S \subseteq Nat \ {0}
    BY <1>2
  <1>6. IsFiniteSet(S \cup {now}) /\ T = S \cup {now}
    BY <1>4, FS_AddElement
  <1>7. T \in SUBSET Int /\ T # {} /\ T \subseteq Nat \ {0}
    BY <1>1, <1>5
  <1>8. \E t \in T : \A x \in T : x <= t
    BY <1>6, <1>7, FiniteGreatest
  <1>9. PostedAt(now) \in T /\ \A x \in T : x <= PostedAt(now)
    BY <1>8 DEF PostedAt
  <1> QED
    BY <1>7, <1>9

(***************************************************************************)
(* The invariant.                                                          *)
(***************************************************************************)
Bearing == {"model", "close", "handback", "write", "committing"}
Holding == Bearing \cup {"read", "unlock"}
Asks == Cardinality({n \in DOMAIN specs : specs[n].asks})

CallType ==
  [pc : Live \cup {"free", "committing", "dying", "done"}, mayRetry : BOOLEAN,
   budget : {"ample", "reserve", "spent"}, target : Ids \cup {None}, base : Nat,
   rounds : Nat, next : OutcomeType \cup {None}, passes : 0..MaxPasses, ok : BOOLEAN]

\* What a call r of connection k relies on.  From the read to the write it holds the lock, so
\* that its target has no reply, and its base is the latest version; a connection that kept the
\* lock after the unlock has no budget left and will be destroyed.
CallInv(k, r) ==
  /\ r.pc \in Holding => lock = k
  /\ lock = k /\ r.pc \in {"lock", "recheck", "finish"} => r.budget = "spent"
  /\ lock = k => r.pc \notin {"free", "done"}
  /\ r.pc \in {"lock", "read"} \cup Bearing => r.passes < MaxPasses
  /\ r.pc \in Bearing =>
       /\ r.target \in Asked /\ \A i \in DOMAIN replies : replies[i].re # r.target
       /\ r.base = Len(specs) /\ r.rounds = Asks
  /\ r.pc \in Bearing \ {"model"} => r.next \in OutcomeType /\ (r.next.new /\ r.next.spec.asks => r.rounds < MaxRounds)

\* Every reply directly follows its message, and messages leave room for that.
ChatInv ==
  /\ \A c, d \in Asked : c # d => posted[c].at + 2 <= posted[d].at \/ posted[d].at + 2 <= posted[c].at
  /\ \A i \in DOMAIN replies : replies[i].re \in Asked /\ replies[i].at = posted[replies[i].re].at + 1

Inv == TypeOK /\ ChatInv /\ OneReplyEach /\ RoundsCapped /\ \A k \in Calls : CallInv(k, call[k])

LEMMA Initially ==
  ASSUME Init
  PROVE  Inv
  <1>1. TypeOK
    <2>1. replies \in Seq([re : Ids, at : Nat]) /\ specs \in Seq(SpecType)
      BY EmptySeq DEF Init
    <2>2. MaxPasses \in Nat \ {0} /\ MaxFaults \in Nat
      BY IntakeAssumption
    <2>3. call \in [Calls -> CallType]
      BY <2>2 DEF Init, Free, CallType, Live
    <2> QED
      BY <2>1, <2>2, <2>3 DEF Init, TypeOK, NotPosted, Idle, CallType
  <1>2. DOMAIN replies = {} /\ DOMAIN specs = {} /\ Asked = {}
    BY DEF Init, Asked, NotPosted
  <1>3. ChatInv /\ OneReplyEach
    BY <1>2 DEF ChatInv, OneReplyEach
  <1>4. RoundsCapped
    <2>1. {n \in DOMAIN specs : specs[n].asks} = {}
      BY <1>2
    <2>2. MaxRounds \in Nat /\ Cardinality({n \in DOMAIN specs : specs[n].asks}) = 0
      BY <2>1, FS_EmptySet, IntakeAssumption
    <2> QED
      BY <2>2 DEF RoundsCapped
  <1>5. \A k \in Calls : CallInv(k, call[k])
    BY IntakeAssumption DEF Init, CallInv, Free, Holding, Bearing
  <1> QED
    BY <1>1, <1>3, <1>4, <1>5 DEF Inv

\* What has no part in the correctness of the transcript.
Rest ==
  /\ status \in {"asking", "specifying", "planning"} /\ faults \in 0..MaxFaults
  /\ sched \in [Gateways -> [pc : {"idle", "start", "wait"}, again : BOOLEAN, attempt : 0..2,
                             call : Calls \cup {None}]]
  /\ recovery \in [Gateways -> {"none", "checking", "done"}]

\* Call k goes on as r, while nothing is said; the lock stays, is taken when free or let go by its
\* holder.
LockMoves(k) == lock' = lock \/ (lock = None /\ lock' = k) \/ (lock = k /\ lock' = None)
Moves(k, r) ==
  With(k, r) /\ r \in CallType /\ UNCHANGED <<posted, replies, specs>> /\ Rest' /\ LockMoves(k)

LEMMA RestKept ==
  ASSUME Inv, UNCHANGED <<status, faults, sched, recovery>>
  PROVE  Rest'
  BY DEF Inv, TypeOK, Rest

LEMMA CallMoves ==
  ASSUME Inv, NEW k \in Calls, NEW r, Moves(k, r), CallInv(k, r)'
  PROVE  Inv'
  <1>1. TypeOK'
    <2>1. call' \in [Calls -> CallType]
      BY DEF Inv, TypeOK, CallType, With, Moves
    <2>2. lock' \in Calls \cup {None}
      BY DEF Inv, TypeOK, Moves, LockMoves
    <2> QED
      BY <2>1, <2>2 DEF Inv, TypeOK, CallType, Moves, Rest
  <1>2. ChatInv' /\ OneReplyEach' /\ RoundsCapped'
    BY DEF Inv, ChatInv, OneReplyEach, RoundsCapped, Asked, Moves
  <1>3. ASSUME NEW j \in Calls PROVE CallInv(j, call[j])'
    <2>1. CASE j = k
      <3>1. call'[j] = r
        BY <2>1 DEF Inv, TypeOK, With, Moves
      <3> QED
        BY <2>1, <3>1 DEF CallInv
    <2>2. CASE j # k
      <3>1. call'[j] = call[j] /\ CallInv(j, call[j])
        BY <2>2 DEF Inv, TypeOK, With, Moves
      <3>2. lock = j <=> lock' = j
        BY <2>2, IntakeAssumption DEF Moves, LockMoves
      <3> QED
        BY <3>1, <3>2 DEF CallInv, Asked, Asks, Moves
    <2> QED
      BY <2>1, <2>2
  <1> QED
    BY <1>1, <1>2, <1>3 DEF Inv

LEMMA CallTyped ==
  ASSUME Inv, NEW k \in Calls
  PROVE  call[k] \in CallType /\ CallInv(k, call[k]) /\ call \in [Calls -> CallType]
  BY DEF Inv, TypeOK, CallType

LEMMA FreeInType == Free \in CallType
  <1>1. 0 \in 0..MaxPasses
    BY IntakeAssumption
  <1> QED
    BY <1>1 DEF Free, CallType

LEMMA FreeTyped ==
  ASSUME NEW pc \in Live \cup {"free", "committing", "dying", "done"}, NEW ok \in BOOLEAN,
         NEW r, r = [Free EXCEPT !.pc = pc, !.ok = ok]
  PROVE  r \in CallType /\ r.pc = pc
  <1>2. Free \in CallType
    BY FreeInType
  <1>3. r \in CallType
    BY <1>2 DEF CallType
  <1>4. r.pc = pc
    BY <1>2 DEF CallType
  <1> QED
    BY <1>3, <1>4

LEMMA CommittingSound ==
  ASSUME NEW k \in Calls, NEW ok \in BOOLEAN, NEW c \in CallType, CallInv(k, c), c.pc = "write",
         NEW r, r = [c EXCEPT !.pc = "committing", !.ok = ok],
         UNCHANGED <<posted, replies, specs, lock>>
  PROVE  r \in CallType /\ CallInv(k, r)'
  <1>1. r \in CallType
    BY DEF CallType
  <1>2. /\ r.pc = "committing" /\ r.target = c.target /\ r.base = c.base /\ r.rounds = c.rounds
        /\ r.next = c.next /\ r.passes = c.passes
    BY DEF CallType
  <1>3. CallInv(k, r)'
    BY <1>2 DEF CallInv, Holding, Bearing, Asked, Asks
  <1> QED
    BY <1>1, <1>3

LEMMA DestroyedSound ==
  ASSUME Inv, NEW k \in Calls, NEW ok \in BOOLEAN, NEW r, r = Destroyed(k, ok), call[k].pc \in Live,
         UNCHANGED <<posted, replies, specs, lock>>
  PROVE  r \in CallType /\ CallInv(k, r)'
  <1>1. call[k] \in CallType /\ CallInv(k, call[k])
    BY CallTyped
  <1>2. CASE call[k].pc = "write"
    <2>1. PICK c \in CallType : c = call[k]
      BY <1>1
    <2>2. r = [c EXCEPT !.pc = "committing", !.ok = ok]
      BY <1>2, <2>1 DEF Destroyed
    <2>3. c.pc = "write" /\ CallInv(k, c)
      BY <1>1, <1>2, <2>1
    <2> QED
      BY <2>2, <2>3, CommittingSound
  <1>3. CASE call[k].pc # "write"
    <2>1. r = [Free EXCEPT !.pc = "dying", !.ok = ok]
      BY <1>3 DEF Destroyed
    <2>2. r.pc = "dying"
      BY <2>1, FreeTyped
    <2>3. r \in CallType
      BY <2>1, FreeTyped
    <2> QED
      BY <2>2, <2>3 DEF CallInv, Holding, Bearing
  <1> QED
    BY <1>2, <1>3

\* A call goes on to another place without having read, answered or locked anything.
LEMMA GoesOn ==
  ASSUME Inv, NEW k \in Calls, NEW r \in CallType, UNCHANGED <<posted, replies, specs, lock>>,
         r.target = call[k].target, r.base = call[k].base, r.rounds = call[k].rounds, r.passes = call[k].passes,
         r.pc \in Holding => call[k].pc \in Holding,
         r.pc \in {"lock", "recheck", "finish"} /\ lock = k => r.budget = "spent",
         r.pc \notin {"free", "done"},
         r.pc \in {"lock", "read"} => r.passes < MaxPasses,
         r.pc \in Bearing => call[k].pc \in Bearing,
         r.pc \in Bearing \ {"model"} => r.next \in OutcomeType /\ (r.next.new /\ r.next.spec.asks => r.rounds < MaxRounds)
  PROVE  CallInv(k, r)'
  <1>1. call[k] \in CallType /\ CallInv(k, call[k])
    BY CallTyped
  <1> QED
    BY <1>1 DEF CallInv, Holding, Bearing, Asked, Asks

LEMMA DestroyStep ==
  ASSUME Inv, NEW k \in Calls, NEW ok \in BOOLEAN, call[k].pc \in Live, With(k, Destroyed(k, ok)),
         UNCHANGED <<posted, replies, specs, lock>>, Rest'
  PROVE  Inv'
  <1>1. PICK r : r = Destroyed(k, ok)
    OBVIOUS
  <1>2. r \in CallType /\ CallInv(k, r)' /\ With(k, r)
    BY <1>1, DestroyedSound
  <1>3. Moves(k, r)
    BY <1>2 DEF Moves, LockMoves
  <1> QED
    BY <1>2, <1>3, CallMoves

LEMMA TryLockStep ==
  ASSUME Inv, NEW k \in Calls, TryLock(k)
  PROVE  Inv'
  <1>1. call[k] \in CallType /\ CallInv(k, call[k]) /\ call[k].pc = "lock" /\ call[k].budget = "ample"
        /\ UNCHANGED <<posted, replies, specs>> /\ Rest'
    BY CallTyped, RestKept DEF TryLock, chat
  <1>2. CASE lock = None
    <2>1. PICK r : r = [call[k] EXCEPT !.pc = "read"]
      OBVIOUS
    <2>2. r \in CallType /\ r.pc = "read" /\ r.passes = call[k].passes
      BY <1>1, <2>1 DEF CallType, Live
    <2>3. lock' = k /\ With(k, r)
      BY <1>2, <2>1 DEF TryLock
    <2>4. CallInv(k, r)'
      BY <1>1, <2>2, <2>3 DEF CallInv, Holding, Bearing
    <2> QED
      BY <1>1, <1>2, <2>2, <2>3, <2>4, CallMoves DEF Moves, LockMoves
  <1>3. CASE lock # None
    <2>1. PICK r : r = [call[k] EXCEPT !.pc = "finish"]
      OBVIOUS
    <2>2. r \in CallType /\ r.pc = "finish"
      BY <1>1, <2>1 DEF CallType, Live
    <2>3. lock' = lock /\ With(k, r)
      BY <1>3, <2>1 DEF TryLock
    <2>4. lock # k
      BY <1>1 DEF CallInv
    <2>5. CallInv(k, r)'
      BY <2>2, <2>3, <2>4 DEF CallInv, Holding, Bearing
    <2> QED
      BY <1>1, <2>2, <2>3, <2>5, CallMoves DEF Moves, LockMoves
  <1> QED
    BY <1>2, <1>3

\* The newest message has no reply: that would be newer.
LEMMA NewestUnanswered ==
  ASSUME Inv, NEW c \in Ids, Newest(c)
  PROVE  c \in Asked /\ \A i \in DOMAIN replies : replies[i].re # c
  <1> SUFFICES ASSUME NEW i \in DOMAIN replies, replies[i].re = c PROVE FALSE
    BY DEF Newest
  <1>1. replies[i].at \in Times /\ replies[i].at = posted[c].at + 1
    BY DEF Inv, ChatInv, Times
  <1>2. posted[c].at \in Nat
    BY DEF Inv, TypeOK
  <1> QED
    BY <1>1, <1>2 DEF Newest

LEMMA SpecsFinite ==
  ASSUME TypeOK
  PROVE  IsFiniteSet({n \in DOMAIN specs : specs[n].asks}) /\ Asks \in Nat /\ Len(specs) \in Nat
         /\ DOMAIN specs = 1 .. Len(specs)
  <1>1. DOMAIN specs = 1 .. Len(specs) /\ Len(specs) \in Nat
    BY LenProperties DEF TypeOK
  <1>2. IsFiniteSet({n \in DOMAIN specs : specs[n].asks})
    <2>1. IsFiniteSet(DOMAIN specs) /\ {n \in DOMAIN specs : specs[n].asks} \in SUBSET DOMAIN specs
      BY <1>1, FS_Interval
    <2> QED
      BY <2>1, FS_Subset
  <1> QED
    BY <1>1, <1>2, FS_CardinalityType DEF Asks

LEMMA ReadStep ==
  ASSUME Inv, NEW k \in Calls, Read(k)
  PROVE  Inv'
  <1>1. call[k] \in CallType /\ CallInv(k, call[k]) /\ call[k].pc = "read" /\ lock' = lock
        /\ UNCHANGED <<posted, replies, specs>> /\ Rest'
    BY CallTyped DEF Read, Inv, TypeOK, Rest
  <1>2. lock = k /\ call[k].passes < MaxPasses
    BY <1>1 DEF CallInv, Holding
  <1>3. CASE With(k, [call[k] EXCEPT !.pc = "unlock"])
    <2>1. PICK r : r = [call[k] EXCEPT !.pc = "unlock"]
      OBVIOUS
    <2>2. r \in CallType /\ r.pc = "unlock"
      BY <1>1, <2>1 DEF CallType, Live
    <2>3. CallInv(k, r)'
      BY <1>1, <1>2, <2>2 DEF CallInv, Holding, Bearing
    <2>4. With(k, r)
      BY <1>3, <2>1
    <2> QED
      BY <1>1, <2>2, <2>3, <2>4, CallMoves DEF Moves, LockMoves
  <1>4. ASSUME NEW c \in Ids, Newest(c),
               With(k, [call[k] EXCEPT !.pc = "model", !.target = c, !.base = Len(specs),
                          !.rounds = Cardinality({n \in DOMAIN specs : specs[n].asks})])
        PROVE  Inv'
    <2>1. PICK r : r = [call[k] EXCEPT !.pc = "model", !.target = c, !.base = Len(specs), !.rounds = Asks]
      OBVIOUS
    <2>2. Len(specs) \in Nat /\ Asks \in Nat
      BY SpecsFinite DEF Inv
    <2>3. r \in CallType /\ r.pc = "model" /\ r.target = c /\ r.base = Len(specs) /\ r.rounds = Asks
          /\ r.passes = call[k].passes
      BY <1>1, <2>1, <2>2 DEF CallType, Live
    <2>4. c \in Asked /\ \A i \in DOMAIN replies : replies[i].re # c
      BY <1>4, NewestUnanswered
    <2>5. CallInv(k, r)'
      BY <1>1, <1>2, <2>3, <2>4 DEF CallInv, Holding, Bearing, Asked, Asks
    <2>6. With(k, r)
      BY <1>4, <2>1 DEF Asks
    <2> QED
      BY <1>1, <2>3, <2>5, <2>6, CallMoves DEF Moves, LockMoves
  <1> QED
    BY <1>3, <1>4 DEF Read

\* What may come of a model answer: a new version asks only while rounds are left.
LEMMA OutcomeSound ==
  ASSUME Inv, NEW k \in Calls, call[k] \in CallType, call[k].base = Len(specs), NEW out \in Outcomes(k)
  PROVE  out \in OutcomeType /\ (out.new /\ out.spec.asks => call[k].rounds < MaxRounds)
  <1>1. Spec0 \in SpecType /\ Said \in OutcomeType /\ ~Said.new /\ Transient \in OutcomeType /\ ~Transient.new
    BY DEF Spec0, SpecType, Said, Transient, OutcomeType
  <1>2. Base(call[k].base) \in SpecType
    <2>1. specs \in Seq(SpecType) /\ call[k].base \in Nat
      BY DEF Inv, TypeOK, CallType
    <2> QED
      BY <1>1, <2>1, ElementOfSeq, LenProperties DEF Base
  <1>3. ASSUME NEW a \in Answers
        PROVE  LET d == Decided(Base(call[k].base), call[k].rounds, a) IN
               d \in SpecType /\ (d.asks => call[k].rounds < MaxRounds)
    <2>1. a \in [caps : BOOLEAN, question : BOOLEAN]
      BY IntakeAssumption
    <2>2. PICK kept \in BOOLEAN : kept = (a.question /\ RoundsLeft(Base(call[k].base), call[k].rounds))
      BY <2>1, <1>2 DEF SpecType, RoundsLeft
    <2>3. Decided(Base(call[k].base), call[k].rounds, a) = [caps |-> a.caps, settled |-> a.caps /\ ~kept, asks |-> kept]
      BY <2>2 DEF Decided
    <2>4. PICK caps \in BOOLEAN, settled \in BOOLEAN : caps = a.caps /\ settled = (a.caps /\ ~kept)
      BY <2>1, <2>2
    <2>5. [caps |-> caps, settled |-> settled, asks |-> kept] \in SpecType
      BY DEF SpecType
    <2>6. kept => call[k].rounds < MaxRounds
      BY <2>2 DEF RoundsLeft
    <2> QED
      BY <2>3, <2>4, <2>5, <2>6
  <1>4. ASSUME NEW a \in Answers, NEW new \in BOOLEAN,
               out = [kind |-> "spec", spec |-> Decided(Base(call[k].base), call[k].rounds, a), new |-> new]
        PROVE  out \in OutcomeType /\ (out.new /\ out.spec.asks => call[k].rounds < MaxRounds)
    <2>1. PICK d \in SpecType : d = Decided(Base(call[k].base), call[k].rounds, a) /\ (d.asks => call[k].rounds < MaxRounds)
      BY <1>3
    <2> QED
      BY <1>4, <2>1 DEF OutcomeType
  <1>5. CASE out \in Decisions(call[k].base, call[k].rounds)
    BY <1>4, <1>5 DEF Decisions
  <1> QED
    BY <1>1, <1>5 DEF Outcomes

LEMMA ModelStep ==
  ASSUME Inv, NEW k \in Calls, Model(k)
  PROVE  Inv'
  <1>1. call[k] \in CallType /\ CallInv(k, call[k]) /\ call[k].pc = "model" /\ lock' = lock
        /\ UNCHANGED <<posted, replies, specs>> /\ Rest'
    BY CallTyped, RestKept DEF Model, chat
  <1>2. PICK out \in Outcomes(k), left \in {call[k].budget} \cup {l \in {"reserve"} : "slow" \in Trouble} :
          With(k, [call[k] EXCEPT !.pc = "close", !.next = out, !.budget = left])
    BY DEF Model
  <1>3. out \in OutcomeType /\ (out.new /\ out.spec.asks => call[k].rounds < MaxRounds)
    BY <1>1, OutcomeSound DEF CallInv, Bearing
  <1>4. left \in {"ample", "reserve", "spent"}
    BY <1>1 DEF CallType
  <1>5. PICK r : r = [call[k] EXCEPT !.pc = "close", !.next = out, !.budget = left]
    OBVIOUS
  <1>6. r \in CallType /\ r.pc = "close" /\ r.target = call[k].target /\ r.base = call[k].base
        /\ r.rounds = call[k].rounds /\ r.passes = call[k].passes /\ r.next = out
    BY <1>1, <1>3, <1>4, <1>5 DEF CallType, Live
  <1>7. CallInv(k, r)'
    BY <1>1, <1>3, <1>6, GoesOn DEF Holding, Bearing
  <1>8. With(k, r)
    BY <1>2, <1>5
  <1> QED
    BY <1>1, <1>6, <1>7, <1>8, CallMoves DEF Moves, LockMoves

LEMMA CloseStep ==
  ASSUME Inv, NEW k \in Calls, Close(k)
  PROVE  Inv'
  <1>1. call[k] \in CallType /\ CallInv(k, call[k]) /\ call[k].pc = "close" /\ lock' = lock
        /\ UNCHANGED <<posted, replies, specs>> /\ Rest'
    BY CallTyped, RestKept DEF Close, chat
  <1>2. CASE With(k, Destroyed(k, FALSE))
    BY <1>1, <1>2, DestroyStep DEF Live
  <1>3. ASSUME NEW pc \in {"handback", "write"}, With(k, [call[k] EXCEPT !.pc = pc])
        PROVE  Inv'
    <2>1. PICK r : r = [call[k] EXCEPT !.pc = pc]
      OBVIOUS
    <2>2. r \in CallType /\ r.pc = pc /\ r.target = call[k].target /\ r.base = call[k].base
          /\ r.rounds = call[k].rounds /\ r.passes = call[k].passes /\ r.next = call[k].next
      BY <1>1, <2>1 DEF CallType, Live
    <2>3. CallInv(k, r)'
      BY <1>1, <2>2, GoesOn DEF Holding, Bearing, CallInv
    <2>4. With(k, r)
      BY <1>3, <2>1
    <2> QED
      BY <1>1, <2>2, <2>3, <2>4, CallMoves DEF Moves, LockMoves
  <1>4. \/ With(k, Destroyed(k, FALSE))
        \/ With(k, [call[k] EXCEPT !.pc = "handback"]) \/ With(k, [call[k] EXCEPT !.pc = "write"])
    BY DEF Close
  <1> QED
    BY <1>2, <1>3, <1>4

\* A call that rests away from the conversation relies on nothing but not having the lock.
LEMMA RestingSound ==
  ASSUME NEW k \in Calls, NEW r, r.pc \in {"free", "done", "dying"},
         lock' = k => r.pc = "dying"
  PROVE  CallInv(k, r)'
  BY DEF CallInv, Holding, Bearing

LEMMA HandBackStep ==
  ASSUME Inv, NEW k \in Calls, HandBack(k)
  PROVE  Inv'
  <1>1. call[k] \in CallType /\ CallInv(k, call[k]) /\ call[k].pc = "handback"
        /\ UNCHANGED <<posted, replies, specs>> /\ Rest'
    BY CallTyped, RestKept DEF HandBack, chat
  <1>2. CASE call[k].budget = "spent"
    BY <1>1, <1>2, DestroyStep DEF Live, HandBack
  <1>3. CASE call[k].budget # "spent"
    <2>1. lock = k /\ lock' = None /\ None # k
      BY <1>1, <1>3, IntakeAssumption DEF HandBack, CallInv, Holding, Bearing
    <2>2. PICK r : r = [Free EXCEPT !.pc = "done"]
      OBVIOUS
    <2>3. r \in CallType /\ r.pc = "done"
      <3>1. Free \in CallType
        BY FreeInType
      <3> QED
        BY <2>2, <3>1 DEF CallType
    <2>4. With(k, r)
      BY <1>3, <2>2 DEF HandBack
    <2>5. CallInv(k, r)'
      BY <2>1, <2>3, RestingSound
    <2> QED
      BY <1>1, <2>1, <2>3, <2>4, <2>5, CallMoves DEF Moves, LockMoves
  <1> QED
    BY <1>2, <1>3

\* The write: one more reply, directly after its message, and perhaps the next version.
LEMMA WrittenSound ==
  ASSUME Inv, NEW k \in Calls, call[k].pc \in {"write", "committing"}, SpecKeyFree(k), Written(k),
         posted' = posted
  PROVE  /\ replies' \in Seq([re : Ids, at : Nat]) /\ specs' \in Seq(SpecType)
         /\ status' \in {"asking", "planning"} /\ ChatInv' /\ OneReplyEach' /\ RoundsCapped'
  <1>1. call[k] \in CallType /\ CallInv(k, call[k])
    BY CallTyped
  <1> DEFINE c == call[k].target
  <1>2. /\ c \in Asked /\ \A i \in DOMAIN replies : replies[i].re # c
        /\ call[k].base = Len(specs) /\ call[k].rounds = Asks /\ call[k].next \in OutcomeType
        /\ call[k].next.new /\ call[k].next.spec.asks => call[k].rounds < MaxRounds
    BY <1>1 DEF CallInv, Bearing
  <1>3. replies \in Seq([re : Ids, at : Nat]) /\ specs \in Seq(SpecType) /\ posted \in [Ids -> [at : Nat, aged : BOOLEAN]]
    BY DEF Inv, TypeOK
  <1> DEFINE new == [re |-> c, at |-> posted[c].at + 1]
  <1>4. replies' = Append(replies, new) /\ new \in [re : Ids, at : Nat]
    BY <1>2, <1>3 DEF Written, RepliedAt, Asked
  <1>5. /\ replies' \in Seq([re : Ids, at : Nat]) /\ Len(replies) \in Nat
        /\ DOMAIN replies = 1 .. Len(replies) /\ DOMAIN replies' = 1 .. Len(replies) + 1
        /\ \A i \in DOMAIN replies : replies'[i] = replies[i]
        /\ replies'[Len(replies) + 1] = new
    <2> HIDE DEF new
    <2>1. /\ Append(replies, new) \in Seq([re : Ids, at : Nat]) /\ Len(Append(replies, new)) = Len(replies) + 1
          /\ \A i \in 1 .. Len(replies) : Append(replies, new)[i] = replies[i]
          /\ Append(replies, new)[Len(replies) + 1] = new
      BY <1>3, <1>4, AppendProperties
    <2>2. Len(replies) \in Nat /\ DOMAIN replies = 1 .. Len(replies)
      BY <1>3, LenProperties
    <2>3. DOMAIN Append(replies, new) = 1 .. Len(replies) + 1
      BY <2>1, LenProperties
    <2> QED
      BY <1>4, <2>1, <2>2, <2>3
  <1>6. \A i \in DOMAIN replies' : i \in DOMAIN replies \/ i = Len(replies) + 1
    BY <1>5
  <1>7. ChatInv'
    <2>1. \A c1, d1 \in Asked' : c1 # d1 => posted'[c1].at + 2 <= posted'[d1].at \/ posted'[d1].at + 2 <= posted'[c1].at
      BY DEF Inv, ChatInv, Asked
    <2>2. ASSUME NEW i \in DOMAIN replies' PROVE replies'[i].re \in Asked' /\ replies'[i].at = posted'[replies'[i].re].at + 1
      <3>1. CASE i \in DOMAIN replies
        BY <3>1, <1>5 DEF Inv, ChatInv, Asked
      <3>2. CASE i = Len(replies) + 1
        BY <3>2, <1>2, <1>5 DEF Asked
      <3> QED
        BY <3>1, <3>2, <1>6, <2>2
    <2> QED
      BY <2>1, <2>2 DEF ChatInv
  <1>8. OneReplyEach'
    <2> SUFFICES ASSUME NEW i \in DOMAIN replies', NEW j \in DOMAIN replies', replies'[i].re = replies'[j].re
                 PROVE  i = j
      BY DEF OneReplyEach
    <2>1. CASE i \in DOMAIN replies /\ j \in DOMAIN replies
      BY <2>1, <1>5 DEF Inv, OneReplyEach
    <2>2. new.re = c
      OBVIOUS
    <2> HIDE DEF new
    <2>3. CASE i \in DOMAIN replies /\ j = Len(replies) + 1
      BY <2>2, <2>3, <1>2, <1>5
    <2>4. CASE j \in DOMAIN replies /\ i = Len(replies) + 1
      BY <2>2, <2>4, <1>2, <1>5
    <2> QED
      BY <2>1, <2>3, <2>4, <1>6
  <1>9. specs' \in Seq(SpecType) /\ RoundsCapped'
    <2>1. CASE ~call[k].next.new
      BY <2>1, <1>3 DEF Written, Inv, RoundsCapped
    <2>2. CASE call[k].next.new
      <3>1. PICK s \in SpecType : s = call[k].next.spec
        BY <1>2 DEF OutcomeType
      <3>2. specs' = Append(specs, s)
        BY <2>2, <3>1 DEF Written
      <3>3. /\ specs' \in Seq(SpecType) /\ Len(specs) \in Nat /\ DOMAIN specs = 1 .. Len(specs)
            /\ DOMAIN specs' = 1 .. Len(specs) + 1
            /\ \A n \in DOMAIN specs : specs'[n] = specs[n]
            /\ specs'[Len(specs) + 1] = s
        <4>1. /\ specs' \in Seq(SpecType) /\ Len(specs') = Len(specs) + 1
              /\ \A n \in 1 .. Len(specs) : specs'[n] = specs[n]
              /\ specs'[Len(specs) + 1] = s
          BY <1>3, <3>2, AppendProperties
        <4>2. Len(specs) \in Nat /\ DOMAIN specs = 1 .. Len(specs)
          BY <1>3, LenProperties
        <4>3. DOMAIN specs' = 1 .. Len(specs) + 1
          BY <4>1, LenProperties
        <4> QED
          BY <4>1, <4>2, <4>3
      <3> DEFINE A == {n \in DOMAIN specs : specs[n].asks}
                 B == {n \in DOMAIN specs' : specs'[n].asks}
      <3>4. IsFiniteSet(A) /\ Asks = Cardinality(A) /\ Asks \in Nat /\ Asks <= MaxRounds
        BY SpecsFinite DEF Inv, Asks, RoundsCapped
      <3>5. B = IF s.asks THEN A \cup {Len(specs) + 1} ELSE A
        BY <3>3
      <3>6. Cardinality(B) <= MaxRounds
        <4>1. CASE ~s.asks
          BY <4>1, <3>4, <3>5
        <4>2. CASE s.asks
          <5>1. Asks < MaxRounds
            BY <4>2, <2>2, <3>1, <1>2
          <5>2. Len(specs) + 1 \notin A
            BY <3>3
          <5> HIDE DEF A, B
          <5>3. Cardinality(A \cup {Len(specs) + 1}) = Cardinality(A) + 1
            BY <3>4, <5>2, FS_AddElement
          <5> QED
            BY <4>2, <3>4, <3>5, <5>1, <5>3, IntakeAssumption
        <4> QED
          BY <4>1, <4>2
      <3> QED
        BY <3>3, <3>6 DEF RoundsCapped
    <2> QED
      BY <2>1, <2>2
  <1>10. status' \in {"asking", "planning"}
    BY DEF Written
  <1> QED
    BY <1>5, <1>7, <1>8, <1>9, <1>10

\* After a write the call goes on as r; nobody else is between a read and a write.
LEMMA WriteMoves ==
  ASSUME Inv, NEW k \in Calls, call[k].pc \in {"write", "committing"}, SpecKeyFree(k), Written(k),
         UNCHANGED <<posted, sched, recovery, lock, faults>>,
         NEW r \in CallType, With(k, r), CallInv(k, r)'
  PROVE  Inv'
  <1>1. /\ replies' \in Seq([re : Ids, at : Nat]) /\ specs' \in Seq(SpecType)
        /\ status' \in {"asking", "planning"} /\ ChatInv' /\ OneReplyEach' /\ RoundsCapped'
    BY WrittenSound
  <1>2. call' \in [Calls -> CallType]
    BY CallTyped DEF With
  <1>3. TypeOK'
    BY <1>1, <1>2 DEF Inv, TypeOK, CallType
  <1>4. lock = k
    BY CallTyped DEF CallInv, Holding, Bearing
  <1>5. ASSUME NEW j \in Calls PROVE CallInv(j, call[j])'
    <2>1. CASE j = k
      <3>1. call'[j] = r
        BY <2>1, CallTyped DEF With
      <3> QED
        BY <2>1, <3>1 DEF CallInv
    <2>2. CASE j # k
      <3>1. call'[j] = call[j] /\ CallInv(j, call[j]) /\ lock # j
        BY <2>2, <1>4, CallTyped DEF With
      <3>2. call[j].pc \notin Holding
        BY <3>1 DEF CallInv
      <3> QED
        BY <3>1, <3>2 DEF CallInv, Holding
    <2> QED
      BY <2>1, <2>2
  <1> QED
    BY <1>1, <1>3, <1>5 DEF Inv

LEMMA WriteStep ==
  ASSUME Inv, NEW k \in Calls, Write(k)
  PROVE  Inv'
  <1>1. call[k] \in CallType /\ CallInv(k, call[k]) /\ call[k].pc = "write" /\ lock = k /\ lock' = lock
        /\ call[k].passes < MaxPasses
    BY CallTyped DEF Write, CallInv, Holding, Bearing
  <1>2. PICK n : n = call[k].passes + 1
    OBVIOUS
  <1>3. n \in 0..MaxPasses
    BY <1>1, <1>2, IntakeAssumption DEF CallType
  <1>4. PICK pc \in {"read", "unlock"} : pc = IF n < MaxPasses /\ call[k].budget = "ample" THEN "read" ELSE "unlock"
    OBVIOUS
  <1>5. PICK r : r = [Free EXCEPT !.mayRetry = call[k].mayRetry, !.budget = call[k].budget, !.passes = n, !.ok = TRUE,
                        !.pc = pc]
    OBVIOUS
  <1>6. r \in CallType /\ r.pc = pc /\ r.passes = n
    <2>2. Free \in CallType
      BY FreeInType
    <2>3. call[k].mayRetry \in BOOLEAN /\ call[k].budget \in {"ample", "reserve", "spent"}
      BY <1>1 DEF CallType
    <2>4. r \in CallType
      BY <1>3, <1>5, <2>2, <2>3 DEF CallType, Live
    <2>5. r.pc = pc /\ r.passes = n
      BY <1>5, <2>2 DEF CallType
    <2> QED
      BY <2>4, <2>5
  <1>7. With(k, r)
    BY <1>2, <1>4, <1>5 DEF Write
  <1>8. CallInv(k, r)'
    BY <1>1, <1>4, <1>6 DEF CallInv, Holding, Bearing
  <1> QED
    BY <1>1, <1>6, <1>7, <1>8, WriteMoves DEF Write

LEMMA LateCommitStep ==
  ASSUME Inv, NEW k \in Calls, LateCommit(k)
  PROVE  Inv'
  <1>1. call[k] \in CallType /\ call[k].pc = "committing"
    BY CallTyped DEF LateCommit
  <1>2. PICK ok \in BOOLEAN : ok = call[k].ok
    BY <1>1 DEF CallType
  <1>3. PICK r : r = [Free EXCEPT !.pc = "dying", !.ok = ok]
    OBVIOUS
  <1>4. r \in CallType /\ r.pc = "dying"
    BY <1>3, FreeTyped
  <1>5. With(k, r)
    BY <1>2, <1>3 DEF LateCommit
  <1>6. CallInv(k, r)'
    BY <1>4, RestingSound
  <1> QED
    BY <1>1, <1>4, <1>5, <1>6, WriteMoves DEF LateCommit

LEMMA UnlockStep ==
  ASSUME Inv, NEW k \in Calls, Unlock(k)
  PROVE  Inv'
  <1>1. call[k] \in CallType /\ CallInv(k, call[k]) /\ call[k].pc = "unlock" /\ lock = k
        /\ UNCHANGED <<posted, replies, specs>> /\ Rest'
    BY CallTyped, RestKept DEF Unlock, chat, CallInv, Holding
  <1>2. PICK r : r = [call[k] EXCEPT !.pc = "recheck"]
    OBVIOUS
  <1>3. r \in CallType /\ r.pc = "recheck" /\ r.budget = call[k].budget
    BY <1>1, <1>2 DEF CallType, Live
  <1>4. With(k, r)
    BY <1>2 DEF Unlock
  <1>5. lock' = IF call[k].budget # "spent" THEN None ELSE lock
    BY <1>1 DEF Unlock
  <1>6. CallInv(k, r)'
    BY <1>3, <1>5, IntakeAssumption DEF CallInv, Holding, Bearing
  <1> QED
    BY <1>1, <1>3, <1>4, <1>5, <1>6, CallMoves DEF Moves, LockMoves

LEMMA RecheckStep ==
  ASSUME Inv, NEW k \in Calls, Recheck(k)
  PROVE  Inv'
  <1>1. call[k] \in CallType /\ CallInv(k, call[k]) /\ call[k].pc = "recheck" /\ lock' = lock
        /\ UNCHANGED <<posted, replies, specs>> /\ Rest'
    BY CallTyped, RestKept DEF Recheck, chat
  <1>2. PICK pc \in {"lock", "finish"} : pc = IF More(k) THEN "lock" ELSE "finish"
    OBVIOUS
  <1>3. PICK r : r = [call[k] EXCEPT !.pc = pc]
    OBVIOUS
  <1>4. r \in CallType /\ r.pc = pc /\ r.budget = call[k].budget /\ r.passes = call[k].passes
    BY <1>1, <1>2, <1>3 DEF CallType, Live
  <1>5. With(k, r)
    BY <1>2, <1>3 DEF Recheck
  <1>6. CallInv(k, r)'
    BY <1>1, <1>2, <1>4 DEF CallInv, Holding, Bearing, More
  <1> QED
    BY <1>1, <1>4, <1>5, <1>6, CallMoves DEF Moves, LockMoves

LEMMA FinishStep ==
  ASSUME Inv, NEW k \in Calls, Finish(k)
  PROVE  Inv'
  <1>1. call[k] \in CallType /\ CallInv(k, call[k]) /\ call[k].pc = "finish" /\ lock' = lock
        /\ UNCHANGED <<posted, replies, specs>> /\ Rest'
    BY CallTyped, RestKept DEF Finish, chat
  <1>2. CASE call[k].budget = "spent"
    BY <1>1, <1>2, DestroyStep DEF Live, Finish, Released
  <1>3. CASE call[k].budget # "spent"
    <2>1. PICK r : r = [Free EXCEPT !.pc = "done", !.ok = TRUE]
      OBVIOUS
    <2>2. r \in CallType /\ r.pc = "done"
      BY <2>1, FreeTyped
    <2>3. With(k, r)
      BY <1>3, <2>1 DEF Finish, Released
    <2>4. lock' # k
      BY <1>1, <1>3 DEF CallInv
    <2>5. CallInv(k, r)'
      BY <2>2, <2>4, RestingSound
    <2> QED
      BY <1>1, <2>2, <2>3, <2>5, CallMoves DEF Moves, LockMoves
  <1> QED
    BY <1>2, <1>3

LEMMA SpendStep ==
  ASSUME Inv, NEW k \in Calls, Spend(k)
  PROVE  Inv'
  <1>1. call[k] \in CallType /\ CallInv(k, call[k]) /\ call[k].pc \in Live /\ call[k].budget # "spent" /\ lock' = lock
        /\ UNCHANGED <<posted, replies, specs>>
    BY CallTyped DEF Spend, chat
  <1>2. Rest'
    BY IntakeAssumption DEF Spend, Fault, Rest, Inv, TypeOK, chat
  <1>3. PICK left \in {"reserve", "spent"} : With(k, [call[k] EXCEPT !.budget = left])
    BY DEF Spend
  <1>4. PICK r : r = [call[k] EXCEPT !.budget = left]
    OBVIOUS
  <1>5. r \in CallType /\ r.pc = call[k].pc /\ r.target = call[k].target /\ r.base = call[k].base
        /\ r.rounds = call[k].rounds /\ r.passes = call[k].passes /\ r.next = call[k].next
    BY <1>1, <1>4 DEF CallType
  <1>6. CallInv(k, r)'
    BY <1>1, <1>5 DEF CallInv, Holding, Bearing, Asked, Asks
  <1>7. With(k, r)
    BY <1>3, <1>4
  <1> QED
    BY <1>1, <1>2, <1>5, <1>6, <1>7, CallMoves DEF Moves, LockMoves

LEMMA SessionEndsStep ==
  ASSUME Inv, NEW k \in Calls, SessionEnds(k)
  PROVE  Inv'
  <1>1. call[k] \in CallType /\ UNCHANGED <<posted, replies, specs>> /\ Rest'
    BY CallTyped, RestKept DEF SessionEnds, chat
  <1>2. PICK ok \in BOOLEAN : ok = call[k].ok
    BY <1>1 DEF CallType
  <1>3. PICK r : r = [Free EXCEPT !.pc = "done", !.ok = ok]
    OBVIOUS
  <1>4. r \in CallType /\ r.pc = "done"
    BY <1>3, FreeTyped
  <1>5. With(k, r) /\ LockMoves(k) /\ lock' # k
    BY <1>2, <1>3, IntakeAssumption DEF SessionEnds, LockMoves
  <1>6. CallInv(k, r)'
    BY <1>4, <1>5, RestingSound
  <1> QED
    BY <1>1, <1>4, <1>5, <1>6, CallMoves DEF Moves

LEMMA DiscardStep ==
  ASSUME Inv, NEW k \in Calls, Discard(k)
  PROVE  Inv'
  <1>1. CallInv(k, call[k]) /\ call[k].pc = "done" /\ UNCHANGED <<posted, replies, specs>> /\ Rest' /\ lock' = lock
    BY CallTyped, RestKept DEF Discard, chat
  <1>2. PICK r : r = [Free EXCEPT !.pc = "free", !.ok = FALSE]
    OBVIOUS
  <1>3. r \in CallType /\ r.pc = "free"
    BY <1>2, FreeTyped
  <1>4. With(k, r) /\ lock' # k
    BY <1>1, <1>2 DEF Discard, Free, CallInv
  <1>5. CallInv(k, r)'
    BY <1>3, <1>4, RestingSound
  <1> QED
    BY <1>1, <1>3, <1>4, <1>5, CallMoves DEF Moves, LockMoves

LEMMA TurnStep ==
  ASSUME Inv, NEW k \in Calls, Turn(k) \/ Spend(k) \/ Break(k) \/ LateCommit(k)
  PROVE  Inv'
  <1>1. CASE OutOfBudget(k) \/ Expire(k)
    BY <1>1, DestroyStep, RestKept DEF OutOfBudget, Expire, Live, chat
  <1>2. CASE Break(k)
    <2>1. Rest'
      BY <1>2, IntakeAssumption DEF Break, Fault, Rest, Inv, TypeOK, chat
    <2> QED
      BY <1>2, <2>1, DestroyStep DEF Break, chat
  <1> QED
    BY <1>1, <1>2, TryLockStep, ReadStep, ModelStep, CloseStep, HandBackStep, WriteStep, UnlockStep, RecheckStep,
       FinishStep, SpendStep, SessionEndsStep, DiscardStep, LateCommitStep DEF Turn

(***************************************************************************)
(* Messages, schedulers and time.                                          *)
(***************************************************************************)

\* A scheduler and a recovery entry keep their types, whatever step is taken.
SchedType ==
  [pc : {"idle", "start", "wait"}, again : BOOLEAN, attempt : 0..2, call : Calls \cup {None}]

LEMMA SchedSound ==
  ASSUME NEW s \in SchedType
  PROVE  Idle \in SchedType /\ Triggered(s) \in SchedType /\ Finished(s) \in SchedType /\ Failed(s) \in SchedType
  <1>1. Idle \in SchedType
    BY DEF Idle, SchedType
  <1>2. 0 \in 0..2 /\ 1 \in 0..2 /\ 2 \in 0..2
    OBVIOUS
  <1>3. [Idle EXCEPT !.pc = "start", !.attempt = 1] \in SchedType
    BY <1>1, <1>2 DEF SchedType
  <1>4. Triggered(s) \in SchedType
    BY <1>3 DEF Triggered, SchedType
  <1>5. Finished(s) \in SchedType
    BY <1>1, <1>3 DEF Finished
  <1>6. [s EXCEPT !.pc = "start", !.attempt = 2, !.call = None] \in SchedType
    BY <1>2 DEF SchedType
  <1>7. Failed(s) \in SchedType
    BY <1>5, <1>6 DEF Failed
  <1> QED
    BY <1>1, <1>4, <1>5, <1>7

LEMMA SchedTyped ==
  ASSUME Inv
  PROVE  sched \in [Gateways -> SchedType] /\ recovery \in [Gateways -> {"none", "checking", "done"}]
  BY DEF Inv, TypeOK, SchedType

\* A step of a scheduler alone.
LEMMA SchedStep ==
  ASSUME Inv, UNCHANGED <<posted, replies, specs, lock, call>>, Rest'
  PROVE  Inv'
  <1>1. TypeOK'
    BY DEF Inv, TypeOK, Rest
  <1>2. ChatInv' /\ OneReplyEach' /\ RoundsCapped'
    BY DEF Inv, ChatInv, OneReplyEach, RoundsCapped, Asked
  <1>3. \A k \in Calls : CallInv(k, call[k])'
    BY DEF Inv, CallInv, Asked, Asks
  <1> QED
    BY <1>1, <1>2, <1>3 DEF Inv

LEMMA RecoverStep ==
  ASSUME Inv, NEW g \in Gateways, Recover(g)
  PROVE  Inv'
  <1>1. UNCHANGED <<posted, replies, specs, status, lock, call, faults>>
    BY DEF Recover, RecoverBegin, RecoverEnd, RecoverAgain, chat
  <1>2. sched' \in [Gateways -> SchedType]
    <2>1. sched[g] \in SchedType /\ sched \in [Gateways -> SchedType]
      BY SchedTyped
    <2>2. Triggered(sched[g]) \in SchedType
      BY <2>1, SchedSound
    <2>3. sched' = sched \/ sched' = [sched EXCEPT ![g] = Triggered(sched[g])]
      BY DEF Recover, RecoverBegin, RecoverEnd, RecoverAgain
    <2> QED
      BY <2>1, <2>2, <2>3
  <1>3. recovery' \in [Gateways -> {"none", "checking", "done"}]
    BY SchedTyped DEF Recover, RecoverBegin, RecoverEnd, RecoverAgain
  <1>4. Rest'
    BY <1>1, <1>2, <1>3 DEF Rest, Inv, TypeOK, SchedType
  <1> QED
    BY <1>1, <1>4, SchedStep

LEMMA LossStep ==
  ASSUME Inv, NEW g \in Gateways, NetworkError(g) \/ Timeout(g) \/ Restart(g)
  PROVE  Inv'
  <1>1. UNCHANGED <<posted, replies, specs, status, lock, call>> /\ faults' \in 0..MaxFaults
    BY IntakeAssumption DEF NetworkError, Timeout, Restart, Fault, chat, Inv, TypeOK
  <1>2. sched' \in [Gateways -> SchedType]
    <2>1. sched[g] \in SchedType /\ sched \in [Gateways -> SchedType]
      BY SchedTyped
    <2>2. Failed(sched[g]) \in SchedType /\ Finished(sched[g]) \in SchedType /\ Idle \in SchedType
      BY <2>1, SchedSound
    <2>3. \/ sched' = [sched EXCEPT ![g] = Failed(sched[g])] \/ sched' = [sched EXCEPT ![g] = Finished(sched[g])]
          \/ sched' = [sched EXCEPT ![g] = Idle]
      BY DEF NetworkError, Timeout, Restart
    <2> QED
      BY <2>1, <2>2, <2>3
  <1>3. recovery' \in [Gateways -> {"none", "checking", "done"}]
    BY SchedTyped DEF NetworkError, Timeout, Restart
  <1>4. Rest'
    BY <1>1, <1>2, <1>3 DEF Rest, Inv, TypeOK, SchedType
  <1> QED
    BY <1>1, <1>4, SchedStep

LEMMA SendStep ==
  ASSUME Inv, NEW g \in Gateways, Send(g)
  PROVE  Inv'
  <1>1. UNCHANGED <<posted, replies, specs, status, recovery, lock, faults>>
    BY DEF Send, chat
  <1>2. PICK k \in Calls :
          /\ call[k] = Free
          /\ call' = [call EXCEPT ![k] = [Free EXCEPT !.pc = "lock", !.mayRetry = sched[g].attempt = 1]]
          /\ sched' = [sched EXCEPT ![g] = [sched[g] EXCEPT !.pc = "wait", !.call = k]]
    BY DEF Send
  <1>3. Rest'
    <2>1. sched[g] \in SchedType
      BY SchedTyped
    <2>2. [sched[g] EXCEPT !.pc = "wait", !.call = k] \in SchedType
      BY <2>1 DEF SchedType
    <2>3. sched' \in [Gateways -> SchedType]
      BY <1>2, <2>2, SchedTyped
    <2> QED
      BY <1>1, <2>3 DEF Rest, Inv, TypeOK, SchedType
  <1>4. PICK retry \in BOOLEAN : retry = (sched[g].attempt = 1)
    OBVIOUS
  <1>5. PICK r : r = [Free EXCEPT !.pc = "lock", !.mayRetry = retry]
    OBVIOUS
  <1>6. r \in CallType /\ r.pc = "lock" /\ r.passes = 0
    <2>2. Free \in CallType
      BY FreeInType
    <2>3. r \in CallType
      BY <1>5, <2>2 DEF CallType, Live
    <2>4. r.pc = "lock"
      BY <1>5, <2>2 DEF CallType
    <2>5. r.passes = 0
      BY <1>5 DEF Free
    <2> QED
      BY <2>3, <2>4, <2>5
  <1>7. With(k, r)
    BY <1>2, <1>4, <1>5 DEF With
  <1>8. lock # k
    <2>1. CallInv(k, call[k]) /\ call[k].pc = "free"
      BY <1>2, CallTyped DEF Free
    <2> QED
      BY <2>1 DEF CallInv
  <1>9. CallInv(k, r)'
    BY <1>1, <1>6, <1>8, IntakeAssumption DEF CallInv, Holding, Bearing
  <1> QED
    BY <1>1, <1>3, <1>6, <1>7, <1>9, CallMoves DEF Moves, LockMoves

LEMMA ReceiveStep ==
  ASSUME Inv, NEW g \in Gateways, Receive(g)
  PROVE  Inv'
  <1> DEFINE k == sched[g].call
  <1>1. UNCHANGED <<posted, replies, specs, status, recovery, lock, faults>> /\ call[k].pc = "done"
    BY DEF Receive, chat
  <1>2. Rest'
    <2>1. sched[g] \in SchedType
      BY SchedTyped
    <2>2. Failed(sched[g]) \in SchedType /\ Finished(sched[g]) \in SchedType
      BY <2>1, SchedSound
    <2>3. sched' \in [Gateways -> SchedType]
      BY <2>2, SchedTyped DEF Receive
    <2> QED
      BY <1>1, <2>3 DEF Rest, Inv, TypeOK, SchedType
  <1>3. call' = [call EXCEPT ![k] = Free]
    BY DEF Receive
  <1>4. CASE k \notin Calls
    <2>1. call' = call
      <3> HIDE DEF k
      <3>1. call \in [Calls -> CallType]
        BY DEF Inv, TypeOK, CallType
      <3> QED
        BY <1>3, <1>4, <3>1
    <2> QED
      BY <1>1, <1>2, <2>1, SchedStep
  <1>5. CASE k \in Calls
    <2>1. PICK c \in Calls : c = k
      BY <1>5
    <2> HIDE DEF k
    <2>2. PICK r : r = [Free EXCEPT !.pc = "free", !.ok = FALSE]
      OBVIOUS
    <2>3. r \in CallType /\ r.pc = "free"
      BY <2>2, FreeTyped
    <2>4. With(c, r)
      <3>1. r = Free
        BY <2>2 DEF Free
      <3> QED
        BY <1>3, <2>1, <3>1 DEF With
    <2>5. lock' # c
      BY <1>1, <2>1, CallTyped DEF CallInv
    <2>6. CallInv(c, r)'
      BY <2>3, <2>5, RestingSound
    <2> QED
      BY <1>1, <1>2, <2>3, <2>4, <2>6, CallMoves DEF Moves, LockMoves
  <1> QED
    BY <1>4, <1>5

\* A new message: two microseconds after everything said, so nothing before it changes.
LEMMA PostStep ==
  ASSUME Inv, NEW g \in Gateways, NEW c \in Ids, Post(g, c)
  PROVE  Inv'
  <1>1. posted[c].at = 0 /\ UNCHANGED <<replies, specs, status, recovery, lock, call, faults>>
    BY DEF Post
  <1>2. PICK now \in Clock : posted' = [posted EXCEPT ![c] = [at |-> PostedAt(now), aged |-> FALSE]]
    BY DEF Post
  <1>3. PICK p \in Nat : p = PostedAt(now) /\ p # 0 /\ \A t \in Times : t + 2 <= p
    BY PostedLast DEF Inv
  <1>4. posted \in [Ids -> [at : Nat, aged : BOOLEAN]] /\ posted' = [posted EXCEPT ![c] = [at |-> p, aged |-> FALSE]]
    BY <1>2, <1>3 DEF Inv, TypeOK
  <1>5. c \notin Asked /\ Asked' = Asked \cup {c} /\ posted'[c].at = p /\ \A d \in Asked : posted'[d] = posted[d]
    BY <1>1, <1>3, <1>4 DEF Asked
  <1>6. Rest'
    <2>1. sched[g] \in SchedType
      BY SchedTyped
    <2>2. Triggered(sched[g]) \in SchedType
      BY <2>1, SchedSound
    <2>3. sched' \in [Gateways -> SchedType]
      BY <2>2, SchedTyped DEF Post
    <2> QED
      BY <1>1, <2>3 DEF Rest, Inv, TypeOK, SchedType
  <1>7. TypeOK'
    <2>1. [at |-> p, aged |-> FALSE] \in [at : Nat, aged : BOOLEAN]
      OBVIOUS
    <2>2. posted' \in [Ids -> [at : Nat, aged : BOOLEAN]]
      BY <1>4, <2>1
    <2> QED
      BY <1>1, <1>6, <2>2 DEF Inv, TypeOK, Rest
  <1>8. ChatInv'
    <2>1. ASSUME NEW d \in Asked PROVE posted[d].at \in Nat /\ posted[d].at + 2 <= p
      BY <1>3, <1>4 DEF Times, Asked
    <2>2. ASSUME NEW d \in Asked', NEW e \in Asked', d # e
          PROVE  posted'[d].at + 2 <= posted'[e].at \/ posted'[e].at + 2 <= posted'[d].at
      <3>1. CASE d = c
        BY <3>1, <2>1, <2>2, <1>5
      <3>2. CASE e = c
        BY <3>2, <2>1, <2>2, <1>5
      <3>3. CASE d # c /\ e # c
        BY <3>3, <2>2, <1>5 DEF Inv, ChatInv
      <3> QED
        BY <3>1, <3>2, <3>3
    <2>3. \A i \in DOMAIN replies' : replies'[i].re \in Asked' /\ replies'[i].at = posted'[replies'[i].re].at + 1
      BY <1>1, <1>5 DEF Inv, ChatInv
    <2> QED
      BY <2>2, <2>3 DEF ChatInv
  <1>9. OneReplyEach' /\ RoundsCapped'
    BY <1>1 DEF Inv, OneReplyEach, RoundsCapped
  <1>10. \A k \in Calls : CallInv(k, call[k])'
    BY <1>1, <1>5 DEF Inv, CallInv, Asks
  <1> QED
    BY <1>7, <1>8, <1>9, <1>10 DEF Inv

LEMMA AgeStep ==
  ASSUME Inv, NEW c \in Ids, Age(c)
  PROVE  Inv'
  <1>1. posted \in [Ids -> [at : Nat, aged : BOOLEAN]] /\ posted' = [posted EXCEPT ![c] = [posted[c] EXCEPT !.aged = TRUE]]
        /\ UNCHANGED <<replies, specs, status, sched, recovery, lock, call, faults>>
    BY DEF Age, Inv, TypeOK
  <1>2. posted' \in [Ids -> [at : Nat, aged : BOOLEAN]] /\ \A d \in Ids : posted'[d].at = posted[d].at
    BY <1>1
  <1>3. Asked' = Asked /\ Asked \subseteq Ids
    BY <1>2 DEF Asked
  <1>4. TypeOK'
    BY <1>1, <1>2 DEF Inv, TypeOK
  <1>5. ChatInv'
    BY <1>1, <1>2, <1>3 DEF Inv, ChatInv
  <1>6. OneReplyEach' /\ RoundsCapped'
    BY <1>1 DEF Inv, OneReplyEach, RoundsCapped
  <1>7. \A k \in Calls : CallInv(k, call[k])'
    BY <1>1, <1>3 DEF Inv, CallInv, Asks
  <1> QED
    BY <1>4, <1>5, <1>6, <1>7 DEF Inv

LEMMA Step ==
  ASSUME Inv, [Next]_vars
  PROVE  Inv'
  <1>1. CASE UNCHANGED vars
    <2>1. UNCHANGED <<posted, replies, specs, status, sched, recovery, lock, call, faults>>
      BY <1>1 DEF vars, chat
    <2>2. Rest'
      BY <2>1, RestKept
    <2> QED
      BY <2>1, <2>2, SchedStep
  <1>2. CASE Next
    BY <1>2, PostStep, RecoverStep, LossStep, SendStep, ReceiveStep, TurnStep, AgeStep DEF Next
  <1> QED
    BY <1>1, <1>2

(***************************************************************************)
(* What follows.                                                           *)
(***************************************************************************)

\* A reply that ends the transcript answers the last question: any later one would be two
\* microseconds after the one answered, hence after the reply.
LEMMA Buries ==
  ASSUME Inv
  PROVE  NoQuestionBuried
  <1> SUFFICES ASSUME NEW i \in DOMAIN replies, \A t \in Times : t <= replies[i].at, NEW c \in Asked
               PROVE  posted[c].at <= posted[replies[i].re].at
    BY DEF NoQuestionBuried
  <1>1. PICK d \in Asked : d = replies[i].re /\ replies[i].at = posted[d].at + 1
    BY DEF Inv, ChatInv
  <1>2. posted[c].at \in Nat /\ posted[d].at \in Nat /\ posted[c].at \in Times
    BY DEF Inv, TypeOK, Asked, Times
  <1>3. posted[c].at <= posted[d].at + 1
    BY <1>1, <1>2
  <1>4. c = d \/ posted[c].at + 2 <= posted[d].at \/ posted[d].at + 2 <= posted[c].at
    BY DEF Inv, ChatInv
  <1> QED
    BY <1>1, <1>2, <1>3, <1>4

\* Messages, specs, schedulers and calls keep the shapes chat-store.ts, intake.ts and handler.ts
\* give them, and no call answers more than its passes.
THEOREM TurnsTyped == Spec => []TypeOK
  <1>1. Inv => TypeOK
    BY DEF Inv
  <1> QED
    BY <1>1, Initially, Step, PTL DEF Spec

\* Whatever turns are retried, abandoned, timed out or raced: handler.ts writes at most one
\* reply to a message and at most the rounds it may ask, no reply hides a later question, and
\* the advisory lock is never left on a connection that is back in the pool.
THEOREM TurnsCorrect == Spec => []TurnsSound
  <1>1. ASSUME Inv PROVE TurnsSound
    <2>1. LockNotLeaked
      BY <1>1 DEF Inv, CallInv, LockNotLeaked
    <2> QED
      BY <1>1, <2>1, Buries DEF Inv, TurnsSound
  <1> QED
    BY <1>1, Initially, Step, PTL DEF Spec

\* decide.ts always decides a version of the spec on the version right before it: whoever
\* writes holds the lock since it read, even when the COMMIT applies after its connection is gone.
THEOREM VersionsInSequence == Spec => SpecsInSequence
  <1>1. ASSUME Inv, [Next]_vars PROVE [DecidedInSequence]_vars
    <2> SUFFICES ASSUME Next, specs' # specs
                 PROVE  \E k \in Calls : call[k].pc \in {"write", "committing"} /\ call[k].base = Len(specs) /\ lock = k
      BY <1>1 DEF DecidedInSequence
    <2>1. PICK k \in Calls : Write(k) \/ LateCommit(k)
      BY DEF Next, Post, Recover, RecoverBegin, RecoverEnd, RecoverAgain, Send, Receive, NetworkError, Timeout, Restart,
         Turn, OutOfBudget, TryLock, Read, Model, Close, HandBack, Unlock, Recheck, Finish, Expire, SessionEnds,
         Discard, Spend, Break, Age, chat
    <2>2. call[k].pc \in {"write", "committing"}
      BY <2>1 DEF Write, LateCommit
    <2> QED
      BY <1>1, <2>2, CallTyped DEF CallInv, Holding, Bearing
  <1> QED
    BY <1>1, Initially, Step, PTL DEF Spec, SpecsInSequence

=============================================================================
