----------------------------- MODULE IntakeTurns -----------------------------
(***************************************************************************)
(* One build's conversation: the gateway stores user messages and asks     *)
(* intake for turns in the background (chat-store.ts, build-routes.ts,     *)
(* intake.ts); intake answers the newest message under an advisory lock    *)
(* that lives on the connection of the call (handler.ts) and decides what  *)
(* becomes of the spec (decide.ts).                                        *)
(*                                                                         *)
(* A call that runs out of budget destroys its connection.  The server may *)
(* end that session later, and a COMMIT it had received may still apply.   *)
(***************************************************************************)
EXTENDS Naturals, Sequences, FiniteSets

CONSTANTS Ids,       \* client message ids
          Gateways,  \* gateway instances
          Calls,     \* intake's database connections, one per call
          None,
          Clock,     \* readings of the database clock, never zero
          MaxPasses, \* turns one call answers at most
          MaxRounds, \* MAX_CLARIFICATION_ROUNDS
          Answers,   \* what the model may answer: has the patched spec capabilities, is there a question
          Trouble,   \* what the model's provider does: "slow" answers, "transient" failures
          MaxFaults  \* bound: lost calls, timeouts, slow or failing queries, restarts

ASSUME IntakeAssumption ==
  /\ IsFiniteSet(Ids) /\ Clock \subseteq Nat \ {0} /\ Clock # {}
  /\ None \notin Ids \cup Gateways \cup Calls
  /\ MaxPasses \in Nat \ {0} /\ MaxRounds \in Nat /\ MaxFaults \in Nat
  /\ Answers \subseteq [caps : BOOLEAN, question : BOOLEAN] /\ Trouble \subseteq {"slow", "transient"}

VARIABLES
  posted,  \* user messages: created_at and whether more than 60 s passed
  replies, \* assistant messages, in the order they were inserted
  specs,   \* builds.specs, by version
  status,  \* builds.status
  sched,   \* each instance's turn scheduler
  recovery,\* each instance's recoveredAt entry and its check under way
  lock,    \* the call whose session holds the advisory lock
  call,    \* the calls
  faults

chat == <<posted, replies, specs, status>>
vars == <<chat, sched, recovery, lock, call, faults>>

NotPosted == [at |-> 0, aged |-> FALSE]
Idle == [pc |-> "idle", again |-> FALSE, attempt |-> 0, call |-> None]
Free == [pc |-> "free", mayRetry |-> FALSE, budget |-> "ample", target |-> None, base |-> 0,
         rounds |-> 0, next |-> None, passes |-> 0, ok |-> FALSE]

Init ==
  /\ posted = [c \in Ids |-> NotPosted]
  /\ replies = <<>>
  /\ specs = <<>>
  /\ status = "asking"
  /\ sched = [g \in Gateways |-> Idle]
  /\ recovery = [g \in Gateways |-> "none"]
  /\ lock = None
  /\ call = [k \in Calls |-> Free]
  /\ faults = 0

(***************************************************************************)
(* The transcript.                                                         *)
(***************************************************************************)

Asked == {c \in Ids : posted[c].at # 0}
Times == {posted[c].at : c \in Asked} \cup {replies[i].at : i \in DOMAIN replies}

\* The newest message is this user message.
Newest(c) == c \in Asked /\ \A t \in Times : t <= posted[c].at

Unanswered == \E c \in Ids : Newest(c)

\* greatest(clock_timestamp(), max(created_at) + 2 microseconds)
PostedAt(now) ==
  CHOOSE t \in {now} \cup {x + 2 : x \in Times} : \A x \in {now} \cup {y + 2 : y \in Times} : x <= t

\* Directly after the message it answers.
RepliedAt(c, now) == posted[c].at + 1

(***************************************************************************)
(* The gateway.                                                            *)
(***************************************************************************)

\* trigger(): start a turn, or one more after the one that is running.
Triggered(s) ==
  IF s.pc = "idle" THEN [Idle EXCEPT !.pc = "start", !.attempt = 1] ELSE [s EXCEPT !.again = TRUE]

\* A user message less than a minute old and without a reply: TURN_IN_PROGRESS.
Pending == \E c \in Ids : Newest(c) /\ ~posted[c].aged

\* createBuild and submitUserMessage; a repeated client message id changes nothing.
Post(g, c) ==
  /\ posted[c].at = 0 /\ ~Pending
  /\ \E now \in Clock : posted' = [posted EXCEPT ![c] = [at |-> PostedAt(now), aged |-> FALSE]]
  /\ sched' = [sched EXCEPT ![g] = Triggered(@)]
  /\ UNCHANGED <<replies, specs, status, recovery, lock, call, faults>>

\* recoverLostTurn: claim the check before the query...
RecoverBegin(g) ==
  /\ sched[g].pc = "idle" /\ recovery[g] = "none"
  /\ recovery' = [recovery EXCEPT ![g] = "checking"]
  /\ UNCHANGED <<chat, sched, lock, call, faults>>

Lost == Unanswered /\ ~Pending

\* ...and trigger a turn if the newest message has waited for a minute.
RecoverEnd(g) ==
  /\ recovery[g] = "checking"
  /\ recovery' = [recovery EXCEPT ![g] = IF Lost THEN "done" ELSE "none"]
  /\ sched' = IF Lost THEN [sched EXCEPT ![g] = Triggered(@)] ELSE sched
  /\ UNCHANGED <<chat, lock, call, faults>>

\* RECOVERY_INTERVAL_MS has passed.
RecoverAgain(g) ==
  /\ recovery[g] = "done"
  /\ recovery' = [recovery EXCEPT ![g] = "none"]
  /\ UNCHANGED <<chat, sched, lock, call, faults>>

\* runOnce posts /v1/turns; a free connection takes the call.
Send(g) ==
  /\ sched[g].pc = "start"
  /\ \E k \in Calls :
       /\ call[k] = Free
       /\ call' = [call EXCEPT ![k] = [Free EXCEPT !.pc = "lock", !.mayRetry = sched[g].attempt = 1]]
       /\ sched' = [sched EXCEPT ![g] = [@ EXCEPT !.pc = "wait", !.call = k]]
  /\ UNCHANGED <<chat, recovery, lock, faults>>

\* runOnce returns; again starts one more run, with a first attempt.
Finished(s) == IF s.again THEN [Idle EXCEPT !.pc = "start", !.attempt = 1] ELSE Idle

\* A first attempt that failed with a 5xx or on the network is retried after a pause.
Failed(s) == IF s.attempt = 1 THEN [s EXCEPT !.pc = "start", !.attempt = 2, !.call = None] ELSE Finished(s)

\* The call's response arrives.
Receive(g) ==
  LET k == sched[g].call IN
  /\ sched[g].pc = "wait" /\ call[k].pc = "done"
  /\ sched' = [sched EXCEPT ![g] = IF call[k].ok THEN Finished(@) ELSE Failed(@)]
  /\ call' = [call EXCEPT ![k] = Free]
  /\ UNCHANGED <<chat, recovery, lock, faults>>

Fault == faults < MaxFaults /\ faults' = faults + 1

\* The connection to intake breaks; intake may be working on the call.
NetworkError(g) ==
  /\ Fault /\ sched[g].pc = "wait"
  /\ sched' = [sched EXCEPT ![g] = Failed(@)]
  /\ UNCHANGED <<chat, recovery, lock, call>>

\* INTAKE_TIMEOUT_MS: not retried.
Timeout(g) ==
  /\ Fault /\ sched[g].pc = "wait"
  /\ sched' = [sched EXCEPT ![g] = Finished(@)]
  /\ UNCHANGED <<chat, recovery, lock, call>>

\* The instance restarts and forgets its running turns.
Restart(g) ==
  /\ Fault
  /\ sched' = [sched EXCEPT ![g] = Idle]
  /\ recovery' = [recovery EXCEPT ![g] = "none"]
  /\ UNCHANGED <<chat, lock, call>>

(***************************************************************************)
(* decide(): what one model answer does to the spec.                       *)
(***************************************************************************)

Spec0 == [caps |-> FALSE, settled |-> FALSE, asks |-> FALSE]
Base(n) == IF n = 0 THEN Spec0 ELSE specs[n]

\* A question survives while rounds are left and the spec is not settled.
RoundsLeft(b, rounds) == ~b.settled /\ rounds < MaxRounds

\* The spec after a model answer: its merged patch has known capabilities, or none,
\* and it asks about a solver-relevant field, or not.
Decided(b, rounds, answer) ==
  LET kept == answer.question /\ RoundsLeft(b, rounds)
  IN [caps |-> answer.caps, settled |-> answer.caps /\ ~kept, asks |-> kept]

\* A version is written when the spec changed, here or in details the model leaves
\* out, or a question is asked.
Decisions(n, rounds) ==
  LET some == {Decided(Base(n), rounds, a) : a \in Answers}
  IN {[kind |-> "spec", spec |-> s, new |-> TRUE] : s \in some}
     \cup {[kind |-> "spec", spec |-> s, new |-> FALSE] :
             s \in {d \in some : n # 0 /\ d = Base(n) /\ ~d.asks}}

\* A reply without a decision: out of scope, off topic, refused, late; or a
\* failure of the model's provider.
Said == [kind |-> "reply", spec |-> Spec0, new |-> FALSE]
Transient == [Said EXCEPT !.kind = "transient"]

(***************************************************************************)
(* A call of intake.                                                       *)
(***************************************************************************)

With(k, r) == call' = [call EXCEPT ![k] = r]

\* The connection is destroyed: nothing more is sent on it.
Destroyed(k, ok) ==
  IF call[k].pc = "write" THEN [call[k] EXCEPT !.pc = "committing", !.ok = ok]
  ELSE [Free EXCEPT !.pc = "dying", !.ok = ok]

\* Another pass needs budget for a model call.
OutOfBudget(k) ==
  /\ call[k].pc = "lock" /\ call[k].budget # "ample"
  /\ With(k, Destroyed(k, FALSE))
  /\ UNCHANGED <<chat, sched, recovery, lock, faults>>

\* pg_try_advisory_lock: a busy lock ends the call.
TryLock(k) ==
  /\ call[k].pc = "lock" /\ call[k].budget = "ample"
  /\ IF lock = None
     THEN lock' = k /\ With(k, [call[k] EXCEPT !.pc = "read"])
     ELSE lock' = lock /\ With(k, [call[k] EXCEPT !.pc = "finish"])
  /\ UNCHANGED <<chat, sched, recovery, faults>>

\* answerLatest: read the transcript, the latest spec and the rounds used.
Read(k) ==
  /\ call[k].pc = "read"
  /\ \/ /\ ~Unanswered
        /\ With(k, [call[k] EXCEPT !.pc = "unlock"])
        /\ UNCHANGED status
     \/ \E c \in Ids :
          /\ Newest(c)
          /\ With(k, [call[k] EXCEPT !.pc = "model", !.target = c, !.base = Len(specs),
                        !.rounds = Cardinality({n \in DOMAIN specs : specs[n].asks})])
          /\ status' = "specifying"
  /\ UNCHANGED <<posted, replies, specs, sched, recovery, lock, faults>>

Outcomes(k) ==
  Decisions(call[k].base, call[k].rounds) \cup {Said}
    \cup {t \in {Transient} : "transient" \in Trouble}

\* runTurn under its deadline, which leaves the reserve for the write.
Model(k) ==
  /\ call[k].pc = "model"
  /\ \E out \in Outcomes(k), left \in {call[k].budget} \cup {l \in {"reserve"} : "slow" \in Trouble} :
       /\ call[k].budget # "ample" => left = call[k].budget
       /\ With(k, [call[k] EXCEPT !.pc = "close", !.next = out, !.budget = left])
  /\ UNCHANGED <<chat, sched, recovery, lock, faults>>

\* The turn's handle is closed: without time for that the connection is destroyed.  A
\* transient failure is handed back if the caller may retry.
Close(k) ==
  /\ call[k].pc = "close"
  /\ With(k, IF call[k].budget = "spent" THEN Destroyed(k, FALSE)
             ELSE IF call[k].next = Transient /\ call[k].mayRetry THEN [call[k] EXCEPT !.pc = "handback"]
             ELSE [call[k] EXCEPT !.pc = "write"])
  /\ UNCHANGED <<chat, sched, recovery, lock, faults>>

\* TurnRetryableError: nothing written, the lock released, a 503.
HandBack(k) ==
  /\ call[k].pc = "handback"
  /\ IF call[k].budget = "spent"
     THEN lock' = lock /\ With(k, Destroyed(k, FALSE))
     ELSE lock' = (IF lock = k THEN None ELSE lock) /\ With(k, [Free EXCEPT !.pc = "done"])
  /\ UNCHANGED <<chat, sched, recovery, faults>>

\* The write transaction: the reply, perhaps a spec version, the build's status.
Written(k) ==
  LET out == call[k].next IN
  /\ \E now \in Clock : replies' = Append(replies, [re |-> call[k].target, at |-> RepliedAt(call[k].target, now)])
  /\ specs' = IF out.new THEN Append(specs, out.spec) ELSE specs
  /\ status' = IF (IF out.kind = "spec" THEN out.spec.settled ELSE Base(call[k].base).settled)
               THEN "planning" ELSE "asking"

\* specs has the primary key (build_id, version): version base + 1 must be new.
SpecKeyFree(k) == call[k].next.new => call[k].base = Len(specs)

Write(k) ==
  /\ call[k].pc = "write" /\ SpecKeyFree(k)
  /\ Written(k)
  /\ LET n == call[k].passes + 1
     IN With(k, [Free EXCEPT !.mayRetry = call[k].mayRetry, !.budget = call[k].budget, !.passes = n, !.ok = TRUE,
                   !.pc = IF n < MaxPasses /\ call[k].budget = "ample" THEN "read" ELSE "unlock"])
  /\ UNCHANGED <<posted, sched, recovery, lock, faults>>

\* The finally block: unlock, if there is time for it.
Unlock(k) ==
  /\ call[k].pc = "unlock"
  /\ lock' = IF lock = k /\ call[k].budget # "spent" THEN None ELSE lock
  /\ With(k, [call[k] EXCEPT !.pc = "recheck"])
  /\ UNCHANGED <<chat, sched, recovery, faults>>

\* Mutant: the call ends after unlocking.
More_Never(k) == FALSE

\* A message stored while the lock was held would otherwise wait: its own call was a noop.
More(k) == Unanswered /\ call[k].passes < MaxPasses

Recheck(k) ==
  /\ call[k].pc = "recheck"
  /\ With(k, [call[k] EXCEPT !.pc = IF More(k) THEN "lock" ELSE "finish"])
  /\ UNCHANGED <<chat, sched, recovery, lock, faults>>

\* Mutant: the connection goes back to the pool however the cleanup went.
Released_Always(k) == [Free EXCEPT !.pc = "done", !.ok = TRUE]

\* handle.close rejects without time for cleanup: the connection is destroyed.
Released(k) ==
  IF call[k].budget = "spent" THEN Destroyed(k, TRUE) ELSE [Free EXCEPT !.pc = "done", !.ok = TRUE]

Finish(k) ==
  /\ call[k].pc = "finish"
  /\ With(k, Released(k))
  /\ UNCHANGED <<chat, sched, recovery, lock, faults>>

Live == {"lock", "read", "model", "close", "handback", "write", "unlock", "recheck", "finish"}

\* The database is slow: only the reserve is left, or not even enough for cleanup.
Spend(k) ==
  /\ Fault /\ call[k].pc \in Live /\ call[k].budget # "spent"
  /\ \E left \in {"reserve", "spent"} :
       call[k].budget # left /\ With(k, [call[k] EXCEPT !.budget = left])
  /\ UNCHANGED <<chat, sched, recovery, lock>>

\* The race over the whole call is lost: 503.
Expire(k) ==
  /\ call[k].pc \in Live /\ call[k].budget = "spent"
  /\ With(k, Destroyed(k, FALSE))
  /\ UNCHANGED <<chat, sched, recovery, lock, faults>>

\* A query fails or times out, or intake's instance dies: 5xx.
Break(k) ==
  /\ Fault /\ call[k].pc \in Live
  /\ With(k, Destroyed(k, FALSE))
  /\ UNCHANGED <<chat, sched, recovery, lock>>

\* The server applies a COMMIT it had received before the connection was destroyed.
LateCommit(k) ==
  /\ call[k].pc = "committing" /\ SpecKeyFree(k)
  /\ Written(k)
  /\ With(k, [Free EXCEPT !.pc = "dying", !.ok = call[k].ok])
  /\ UNCHANGED <<posted, sched, recovery, lock, faults>>

\* Mutant: the lock is on a connection of its own and ends before the write's session.
SessionEnds_LockFirst(k) ==
  \/ /\ call[k].pc \in {"dying", "committing"} /\ lock = k
     /\ lock' = None
     /\ UNCHANGED <<chat, sched, recovery, call, faults>>
  \/ /\ call[k].pc = "dying" /\ lock # k
     /\ With(k, [Free EXCEPT !.pc = "done", !.ok = call[k].ok])
     /\ UNCHANGED <<chat, sched, recovery, lock, faults>>

\* The server ends the session, its transaction and its lock together.
SessionEnds(k) ==
  /\ call[k].pc \in {"dying", "committing"}
  /\ lock' = IF lock = k THEN None ELSE lock
  /\ With(k, [Free EXCEPT !.pc = "done", !.ok = call[k].ok])
  /\ UNCHANGED <<chat, sched, recovery, faults>>

\* Nobody waits for this call any more.
Discard(k) ==
  /\ call[k].pc = "done" /\ \A g \in Gateways : sched[g].call # k
  /\ With(k, Free)
  /\ UNCHANGED <<chat, sched, recovery, lock, faults>>

\* A minute passes without a reply.
Age(c) ==
  /\ Newest(c) /\ ~posted[c].aged
  /\ posted' = [posted EXCEPT ![c] = [@ EXCEPT !.aged = TRUE]]
  /\ UNCHANGED <<replies, specs, status, sched, recovery, lock, call, faults>>

Recover(g) == RecoverBegin(g) \/ RecoverEnd(g) \/ RecoverAgain(g)

Turn(k) ==
  \/ OutOfBudget(k) \/ TryLock(k) \/ Read(k) \/ Model(k) \/ Close(k) \/ HandBack(k) \/ Write(k) \/ Unlock(k)
  \/ Recheck(k) \/ Finish(k) \/ Expire(k) \/ SessionEnds(k) \/ Discard(k)

Next ==
  \/ \E g \in Gateways : \E c \in Ids : Post(g, c)
  \/ \E g \in Gateways : Recover(g) \/ Send(g) \/ Receive(g) \/ NetworkError(g) \/ Timeout(g) \/ Restart(g)
  \/ \E k \in Calls : Turn(k) \/ Spend(k) \/ Break(k) \/ LateCommit(k)
  \/ \E c \in Ids : Age(c)

\* Gateways and intake keep running, and time passes.
Fairness ==
  /\ \A g \in Gateways : WF_vars(Send(g)) /\ WF_vars(Receive(g))
  /\ \A k \in Calls : WF_vars(Turn(k))

\* Moreover the owner's browser refetches the transcript (the portal's "Check for a reply").
Refetching ==
  /\ \A g \in Gateways : WF_vars(Recover(g))
  /\ \A c \in Ids : WF_vars(Age(c))

Spec == Init /\ [][Next]_vars
FairSpec == Spec /\ Fairness
RefetchSpec == FairSpec /\ Refetching

(***************************************************************************)
(* Properties.                                                             *)
(***************************************************************************)

SpecType == [caps : BOOLEAN, settled : BOOLEAN, asks : BOOLEAN]
OutcomeType == [kind : {"spec", "reply", "transient"}, spec : SpecType, new : BOOLEAN]

\* Messages, specs, schedulers and calls have the shapes the code gives them, and no
\* call answers more than MaxPasses messages.
TypeOK ==
  /\ posted \in [Ids -> [at : Nat, aged : BOOLEAN]]
  /\ replies \in Seq([re : Ids, at : Nat])
  /\ specs \in Seq(SpecType)
  /\ status \in {"asking", "specifying", "planning"}
  /\ sched \in [Gateways -> [pc : {"idle", "start", "wait"}, again : BOOLEAN, attempt : 0..2,
                             call : Calls \cup {None}]]
  /\ recovery \in [Gateways -> {"none", "checking", "done"}]
  /\ lock \in Calls \cup {None}
  /\ call \in [Calls ->
       [pc : Live \cup {"free", "committing", "dying", "done"}, mayRetry : BOOLEAN,
        budget : {"ample", "reserve", "spent"}, target : Ids \cup {None}, base : Nat,
        rounds : Nat, next : OutcomeType \cup {None}, passes : 0..MaxPasses, ok : BOOLEAN]]
  /\ faults \in 0..MaxFaults

\* Whatever calls are retried, abandoned or raced, a message gets at most one reply
\* ("exactly one reply", handler.ts and intake.ts).
OneReplyEach ==
  \A i, j \in DOMAIN replies : replies[i].re = replies[j].re => i = j

\* A reply never hides a later question: if the transcript ends in a reply, it
\* answers the last question.
NoQuestionBuried ==
  \A i \in DOMAIN replies :
    (\A t \in Times : t <= replies[i].at) => \A c \in Asked : posted[c].at <= posted[replies[i].re].at

\* The lock is never left on a connection that went back to the pool, where every
\* later turn of the build would find it busy.
LockNotLeaked == \A k \in Calls : lock = k => call[k].pc \notin {"free", "done"}

\* A new spec version is always decided on the version right before it: no turn
\* overwrites the outcome of another.
DecidedInSequence ==
  specs' # specs =>
    \E k \in Calls : call[k].pc \in {"write", "committing"} /\ call[k].base = Len(specs) /\ lock = k
SpecsInSequence == [][DecidedInSequence]_vars

\* No conversation asks in more than MaxRounds versions, edits after settling included.
RoundsCapped == Cardinality({n \in DOMAIN specs : specs[n].asks}) <= MaxRounds

\* However calls are retried, abandoned or raced: at most one reply per message and round
\* limit, replies never bury a question, and no session keeps the lock of a finished call.
TurnsSound == OneReplyEach /\ NoQuestionBuried /\ LockNotLeaked /\ RoundsCapped

Answered(c) == \E i \in DOMAIN replies : replies[i].re = c
Superseded(c) == \E d \in Asked : posted[d].at > posted[c].at

\* Every question is answered, or followed by a later one: no race for the lock, lost call
\* or stopped instance leaves the last message of a conversation without a turn.
EveryQuestionAnswered == []<>(\A c \in Asked : Answered(c) \/ Superseded(c))
==============================================================================
