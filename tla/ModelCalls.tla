----------------------------- MODULE ModelCalls -----------------------------
(***************************************************************************)
(* Every path on which the product pays for a language model: sensor       *)
(* questions and device chat of the ask service, reached through the       *)
(* gateway's proxies, and intake's structured calls under a build's token  *)
(* ceiling.  Modelled are the daily allowances, the request ledgers, the   *)
(* tool loop, the retries of a structured call, metering, and deadlines or *)
(* disconnects that end a call anywhere.                                   *)
(*                                                                         *)
(* A reserving transaction holds an advisory lock, so each transaction is  *)
(* one action.  A model response costs one unit.  Questions, tool results  *)
(* and replies are left out: what counts is which calls were made, paid    *)
(* for, recorded and answered.                                             *)
(***************************************************************************)
EXTENDS Integers, FiniteSets

CONSTANTS Calls,         \* requests of browsers and turns of intake; a call's id is its request_id
          Actors,        \* the users of one tenant
          ActorLimit,    \* daily requests of one user
          TenantLimit,   \* daily requests of the tenant
          GlobalLimit,   \* daily requests of everyone
          Concurrency,   \* calls one ask instance serves at a time
          MaxIterations, \* model calls of one chat turn
          MaxCalls,      \* MAX_CALLS of a structured call
          Reconnects,    \* length of CONNECTION_BACKOFF_MS
          Ceiling,       \* token ceiling of the build
          MaxFaults      \* bound: lost inserts, failing providers, repeated deliveries, revoked members

ASSUME ModelCallsAssumption ==
  /\ {ActorLimit, TenantLimit, GlobalLimit, Concurrency, MaxIterations, MaxCalls} \subseteq Nat \ {0}
  /\ {Reconnects, Ceiling, MaxFaults} \subseteq Nat

VARIABLES
  call,     \* per call: kind, request, actor, step, counters, what it knows of its usage, answer
  row,      \* sensor_ask_requests and device_chat_requests, by request id
  active,   \* calls the ask instance is serving
  owner,    \* who the build intake works on belongs to: an anonymous cookie or a tenant
  ledger,   \* tokens in builds.llm_calls of that build, by the owner its rows name
  paid,     \* what the provider charged per call
  member,   \* actors that are members of the device's tenant
  provider, \* a provider is configured
  faults

vars == <<call, row, active, owner, ledger, paid, member, provider, faults>>

Kinds == {"ask", "chat"}
Owners == {"anon", "tenant"}
New == [kind |-> "ask", req |-> 0, actor |-> 0, pc |-> "new", calls |-> 0, tries |-> 0,
        metered |-> 0, known |-> TRUE, tools |-> FALSE, ok |-> FALSE, truncated |-> FALSE, repaired |-> FALSE,
        owner |-> "anon", resp |-> 0]
NoRow == [kind |-> "none", actor |-> 0, outcome |-> "none", attempted |-> FALSE, known |-> FALSE,
          cost |-> 0, recent |-> FALSE]
Unknown == -1

Init ==
  /\ call = [c \in Calls |-> New] /\ row = [c \in Calls |-> NoRow]
  /\ active = 0 /\ owner = "anon" /\ ledger = [o \in Owners |-> 0] /\ paid = [c \in Calls |-> 0]
  /\ member = Actors /\ provider \in BOOLEAN /\ faults = 0

Fault == faults < MaxFaults /\ faults' = faults + 1
At(c, pc) == call[c].pc = pc
Goto(c, pc) == call' = [call EXCEPT ![c].pc = pc]

\* The codes the gateway's two clients pass on; any other becomes 503.
ChatCodes == {200, 403, 404, 422, 429}
AskCodes == {200, 403, 404, 410, 422, 429}
Shown(kind, code) == IF code \in (IF kind = "ask" THEN AskCodes ELSE ChatCodes) THEN code ELSE 503

\* A call is over; only what it answered is kept.
Failed(c, code) ==
  call' = [call EXCEPT ![c] = [New EXCEPT !.kind = call[c].kind, !.req = call[c].req, !.actor = call[c].actor,
                !.pc = "done", !.resp = code]]

\* Mutant: the slot of an aborted call is not given back.
Ended_SlotKept(c, code) ==
  Failed(c, Shown(call[c].kind, code)) /\ active' = IF code = 503 THEN active ELSE active - 1

\* Leave the ask service with a response; the finally block frees the slot.
Ended(c, code) == Failed(c, Shown(call[c].kind, code)) /\ active' = active - 1

(***************************************************************************)
(* The gateway's proxies: registerSensorAsk and registerDeviceChat.        *)
(***************************************************************************)

\* The session's actor asks about a device of its tenant; the request id is the gateway's.
Ask(c, k, a) ==
  /\ At(c, "new")
  /\ call' = [call EXCEPT ![c] = [@ EXCEPT !.kind = k, !.req = c, !.actor = a,
                !.pc = IF a \in member THEN "sent" ELSE "done", !.resp = IF a \in member THEN 0 ELSE 404]]
  /\ UNCHANGED <<row, active, owner, ledger, paid, member, provider, faults>>

\* The same request reaches the service a second time.
Redeliver(c, d) ==
  /\ Fault /\ At(c, "new") /\ ~At(d, "new") /\ call[d].req = d
  /\ call[d].kind \in Kinds
  /\ call' = [call EXCEPT ![c] = [@ EXCEPT !.kind = call[d].kind, !.req = d,
                !.actor = call[d].actor, !.pc = "sent"]]
  /\ UNCHANGED <<row, active, owner, ledger, paid, member, provider>>

(***************************************************************************)
(* The ask service.                                                        *)
(***************************************************************************)

\* buildApp: a slot or 429.
Enter(c) ==
  /\ At(c, "sent")
  /\ IF active >= Concurrency
     THEN Failed(c, 429) /\ UNCHANGED active
     ELSE Goto(c, "reserve") /\ active' = active + 1
  /\ UNCHANGED <<row, owner, ledger, paid, member, provider, faults>>

\* Requests of this ledger in the last 24 hours.
Recent(k) == {r \in Calls : row[r].kind = k /\ row[r].recent}
RecentOf(k, a) == {r \in Recent(k) : row[r].actor = a}

\* Mutant: only finished requests count.
Allowed_Finished(k, a) ==
  LET done == {r \in Recent(k) : row[r].outcome # "reserved"} IN
  Cardinality(done) < GlobalLimit /\ Cardinality(done) < TenantLimit
    /\ Cardinality({r \in done : row[r].actor = a}) < ActorLimit

\* The counts under the advisory lock leave room.
Allowed(k, a) ==
  /\ Cardinality(Recent(k)) < GlobalLimit /\ Cardinality(Recent(k)) < TenantLimit
  /\ Cardinality(RecentOf(k, a)) < ActorLimit

Duplicate(r) == row[r].kind # "none"

Reserved(c) ==
  row' = [row EXCEPT ![call[c].req] = [NoRow EXCEPT !.kind = call[c].kind,
            !.actor = call[c].actor, !.outcome = "reserved", !.recent = TRUE]]

\* Mutant: an accepted request is taken as already reserved and runs again.
Reserve_Again(c) ==
  LET x == call[c] IN
  /\ At(c, "reserve")
  /\ IF x.actor \notin member THEN Ended(c, 404) /\ UNCHANGED row
     ELSE IF ~Duplicate(x.req) /\ ~Allowed(x.kind, x.actor) THEN Ended(c, 429) /\ UNCHANGED row
     ELSE Goto(c, "context") /\ UNCHANGED active
            /\ IF Duplicate(x.req) THEN UNCHANGED row ELSE Reserved(c)
  /\ UNCHANGED <<owner, ledger, paid, member, provider, faults>>

\* reserve: authorize, refuse a duplicate, count, insert.
Reserve(c) ==
  LET x == call[c] IN
  /\ At(c, "reserve")
  /\ IF x.actor \notin member THEN Ended(c, 404) /\ UNCHANGED row
     ELSE IF Duplicate(x.req) THEN Ended(c, 409) /\ UNCHANGED row
     ELSE IF ~Allowed(x.kind, x.actor) THEN Ended(c, 429) /\ UNCHANGED row
     ELSE Reserved(c) /\ Goto(c, "context") /\ UNCHANGED active
  /\ UNCHANGED <<owner, ledger, paid, member, provider, faults>>

\* Both reads authorize again; without a provider the turn goes straight to its end.
Read(c) == Goto(c, IF provider THEN "start" ELSE "finish") /\ UNCHANGED active

Context(c) ==
  /\ At(c, "context") /\ call[c].kind = "chat"
  /\ IF call[c].actor \in member THEN Read(c) ELSE Ended(c, 404)
  /\ UNCHANGED <<row, owner, ledger, paid, member, provider, faults>>

\* A question's window may have expired or hold too many points.
Evidence(c) ==
  /\ At(c, "context") /\ call[c].kind = "ask"
  /\ IF call[c].actor \in member
     THEN Read(c) \/ \E code \in {410, 422} : Ended(c, code)
     ELSE Ended(c, 404)
  /\ UNCHANGED <<row, owner, ledger, paid, member, provider, faults>>

Started(c) == row' = [row EXCEPT ![call[c].req].attempted = TRUE]

\* started: model_attempted is committed before the first model call.
Start(c) ==
  /\ At(c, "start") /\ Started(c) /\ Goto(c, "model")
  /\ UNCHANGED <<active, owner, ledger, paid, member, provider, faults>>

\* Mutant: a call that returned no usage is not held against the total.
KnownAfterError_Kept(x) == x.known

\* The loop made one more call than it metered.
KnownAfterError(x) == FALSE

\* accumulate: the turn's usage is the sum over its calls.
Metered(x) == [x EXCEPT !.calls = @ + 1, !.metered = @ + 1]

\* One response of the tool loop: metered, then read.  "unusable" stands for a refusal, a
\* truncation and an answer without text.
Respond(c, stop) ==
  /\ At(c, "model") /\ call[c].kind = "chat"
  /\ paid' = [paid EXCEPT ![c] = @ + 1]
  /\ call' = [call EXCEPT ![c] = [Metered(@) EXCEPT
       !.ok = stop = "end_turn", !.pc = IF stop = "tool_use" THEN "tools" ELSE "finish"]]
  /\ UNCHANGED <<row, active, owner, ledger, member, provider, faults>>

\* The tools of a response run, each authorized again; one that fails, is refused or is unknown
\* gives the model an error to go on with and counts as a tool call all the same.
RunTools(c) ==
  /\ At(c, "tools")
  /\ call' = [call EXCEPT ![c] = [@ EXCEPT !.tools = TRUE,
       !.pc = IF call[c].calls < MaxIterations THEN "model" ELSE "finish"]]
  /\ UNCHANGED <<row, active, owner, ledger, paid, member, provider, faults>>

\* A sensor question makes one call; an answer that is no intent leaves the evidence.
Classify(c, usable) ==
  /\ At(c, "model") /\ call[c].kind = "ask"
  /\ paid' = [paid EXCEPT ![c] = @ + 1]
  /\ call' = [call EXCEPT ![c] = [Metered(@) EXCEPT !.ok = usable, !.pc = "finish"]]
  /\ UNCHANGED <<row, active, owner, ledger, member, provider, faults>>

\* The insert of a chat call into llm_calls fails: its usage becomes unknown.
InsertFails(c) ==
  /\ Fault /\ call[c].kind = "chat" /\ call[c].metered > 0 /\ call[c].pc \in {"model", "tools", "finish"}
  /\ call' = [call EXCEPT ![c].known = FALSE]
  /\ UNCHANGED <<row, active, owner, ledger, paid, member, provider>>

\* The provider fails, charged or not.
ProviderFails(c) ==
  LET x == call[c] IN
  /\ Fault /\ At(c, "model") /\ x.kind \in Kinds
  /\ \E charge \in {0, 1} : paid' = [paid EXCEPT ![c] = @ + charge]
  /\ call' = [call EXCEPT ![c] = [x EXCEPT !.calls = x.calls + 1, !.pc = "finish",
                !.known = KnownAfterError(x)]]
  /\ UNCHANGED <<row, active, owner, ledger, member, provider>>

\* What finish records: a chat turn says whether the model read data, a question only
\* whether the model's intent was used.
Outcome(x) ==
  IF x.kind = "ask" THEN (IF x.ok THEN "model" ELSE "evidence_only")
  ELSE IF ~x.ok THEN "unavailable" ELSE IF x.tools THEN "model" ELSE "no_tool"

\* A question's usage is known when a response came back, a chat turn's when every call of
\* the loop was metered and stored.
UsageKnown(x) == IF x.kind = "ask" THEN x.metered > 0 ELSE x.known

\* finish: the totals are NULL where a call was attempted and its usage is not known.
Finished(c) ==
  LET x == call[c]  r == row[x.req]  known == ~r.attempted \/ UsageKnown(x) IN
  row' = [row EXCEPT ![x.req] = [r EXCEPT !.outcome = Outcome(x), !.known = known,
            !.cost = IF known THEN x.metered ELSE Unknown]]

Finish(c) ==
  /\ At(c, "finish") /\ call[c].kind \in Kinds
  /\ Finished(c) /\ Ended(c, 200)
  /\ UNCHANGED <<owner, ledger, paid, member, provider, faults>>

\* The deadline or a disconnect.  A transaction in progress may have committed; after it
\* every step throws, the fallback's finish too, so the call ends with 503.
Abort(c) ==
  /\ call[c].pc \in {"reserve", "context", "start", "model", "tools", "finish"} /\ call[c].kind \in Kinds
  /\ Ended(c, 503)
  /\ \/ UNCHANGED row
     \/ At(c, "reserve") /\ call[c].actor \in member /\ ~Duplicate(call[c].req)
          /\ Allowed(call[c].kind, call[c].actor) /\ Reserved(c)
     \/ At(c, "start") /\ Started(c)
     \/ At(c, "finish") /\ Finished(c)
  /\ paid' = IF At(c, "model") THEN [paid EXCEPT ![c] = @ + 1] ELSE paid
  /\ UNCHANGED <<owner, ledger, member, provider, faults>>

(***************************************************************************)
(* callStructured, as intake uses it.                                      *)
(***************************************************************************)
IntakeTurn(c) ==
  /\ At(c, "new") /\ provider
  /\ \A d \in Calls : call[d].kind = "intake" => At(d, "done")   \* the session lock of the build
  /\ call' = [call EXCEPT ![c] = [@ EXCEPT !.kind = "intake", !.req = c, !.pc = "ceiling",
                !.owner = owner]]
  /\ UNCHANGED <<row, active, owner, ledger, paid, member, provider, faults>>

BuildTokensUsed == ledger["anon"] + ledger["tenant"]

\* Mutant: the ceiling is read once per turn.
Spent_FirstCall(c) == call[c].calls = 0 /\ BuildTokensUsed >= Ceiling

Spent(c) == BuildTokensUsed >= Ceiling

\* The token ceiling is read before every call.
ReadCeiling(c) ==
  /\ At(c, "ceiling")
  /\ IF Spent(c) THEN Failed(c, 402) ELSE Goto(c, "model")
  /\ UNCHANGED <<row, active, owner, ledger, paid, member, provider, faults>>

\* Mutant: the row names the owner the turn started with.
RowOwner_Captured(x) == x.owner

\* llmCallsInserter locks the build's row and reads its owner again.
RowOwner(x) == owner

\* meter.record: the response is logged, then stored; an insert that fails loses the row.
Record(x) ==
  \/ ledger' = [ledger EXCEPT ![RowOwner(x)] = @ + 1] /\ UNCHANGED faults
  \/ Fault /\ UNCHANGED ledger

\* A truncation is retried once with more tokens, an output that does not validate once with
\* what was wrong about it; refusals stop.
Retruncate(x, stop) == stop = "max_tokens" /\ ~x.truncated
Repair(x, stop) == stop = "invalid" /\ ~x.repaired

\* At most MaxCalls responses in all, each recorded before it is read.
RespondStructured(c, stop) ==
  LET x == call[c] IN
  /\ At(c, "model") /\ x.kind = "intake"
  /\ paid' = [paid EXCEPT ![c] = @ + 1]
  /\ Record(x)
  /\ IF x.calls + 1 < MaxCalls /\ (Retruncate(x, stop) \/ Repair(x, stop))
     THEN call' = [call EXCEPT ![c] = [x EXCEPT !.calls = x.calls + 1, !.pc = "ceiling",
            !.truncated = x.truncated \/ stop = "max_tokens", !.repaired = x.repaired \/ stop = "invalid"]]
     ELSE Failed(c, IF stop = "valid" THEN 200 ELSE 422)
  /\ UNCHANGED <<row, active, owner, member, provider>>

\* The request never reached the provider: retried after a pause, without a call counted.
Reconnect(c) ==
  LET x == call[c] IN
  /\ Fault /\ At(c, "model") /\ x.kind = "intake"
  /\ IF x.tries < Reconnects
     THEN call' = [call EXCEPT ![c] = [x EXCEPT !.tries = x.tries + 1, !.pc = "ceiling"]]
     ELSE Failed(c, 502)
  /\ UNCHANGED <<row, active, owner, ledger, paid, member, provider>>

\* The turn's deadline: an answer under way is lost, charged all the same.
TurnDeadline(c) ==
  /\ call[c].kind = "intake" /\ call[c].pc \in {"ceiling", "model"}
  /\ Failed(c, 504)
  /\ paid' = IF At(c, "model") THEN [paid EXCEPT ![c] = @ + 1] ELSE paid
  /\ UNCHANGED <<row, active, owner, ledger, member, provider, faults>>

\* A sign-up claims the anonymous build: first its row, then the spend recorded so far.
ClaimBuild ==
  /\ owner = "anon" /\ owner' = "tenant"
  /\ ledger' = [anon |-> 0, tenant |-> ledger["tenant"] + ledger["anon"]]
  /\ UNCHANGED <<call, row, active, paid, member, provider, faults>>

(***************************************************************************)
(* Time and membership.                                                    *)
(***************************************************************************)
DayPasses(r) ==
  /\ row[r].recent
  /\ row' = [row EXCEPT ![r].recent = FALSE]
  /\ UNCHANGED <<call, active, owner, ledger, paid, member, provider, faults>>

LeaveTenant(a) ==
  /\ Fault /\ a \in member /\ member' = member \ {a}
  /\ UNCHANGED <<call, row, active, owner, ledger, paid, provider>>

Serve(c) ==
  \/ Enter(c) \/ Reserve(c) \/ Context(c) \/ Evidence(c) \/ Start(c) \/ Finish(c) \/ Abort(c)
  \/ (\E stop \in {"tool_use", "end_turn", "unusable"} : Respond(c, stop)) \/ RunTools(c)
  \/ \E usable \in BOOLEAN : Classify(c, usable)
  \/ ReadCeiling(c) \/ TurnDeadline(c)
  \/ \E stop \in {"valid", "invalid", "max_tokens", "refusal"} : RespondStructured(c, stop)

Next ==
  \/ \E c \in Calls, k \in Kinds, a \in Actors : Ask(c, k, a)
  \/ \E c, d \in Calls : Redeliver(c, d)
  \/ \E c \in Calls :
       \/ Enter(c) \/ Reserve(c) \/ Context(c) \/ Evidence(c) \/ Start(c) \/ Finish(c) \/ Abort(c)
       \/ (\E stop \in {"tool_use", "end_turn", "unusable"} : Respond(c, stop)) \/ RunTools(c)
       \/ \E usable \in BOOLEAN : Classify(c, usable)
       \/ InsertFails(c) \/ ProviderFails(c)
       \/ IntakeTurn(c) \/ ReadCeiling(c) \/ Reconnect(c) \/ TurnDeadline(c)
       \/ \E stop \in {"valid", "invalid", "max_tokens", "refusal"} : RespondStructured(c, stop)
  \/ \E r \in Calls : DayPasses(r)
  \/ \E a \in Actors : LeaveTenant(a)
  \/ ClaimBuild

\* The service and its timers run; nobody has to ask.
FairSpec == Init /\ [][Next]_vars /\ WF_vars(\E c \in Calls : Serve(c))

(***************************************************************************)
(* Properties.                                                             *)
(***************************************************************************)

\* No interleaving of reserving, running and aborted requests admits more than a day's
\* allowance of a user, the tenant or everyone (reserve in store.ts and converse-store.ts).
AllowanceHeld ==
  \A k \in Kinds :
    /\ Cardinality(Recent(k)) <= GlobalLimit /\ Cardinality(Recent(k)) <= TenantLimit
    /\ \A a \in Actors : Cardinality(RecentOf(k, a)) <= ActorLimit

\* "A refused turn must not have cost anything", and a request delivered twice is paid for
\* by one of its deliveries.
PaidOnce ==
  /\ \A c \in Calls : call[c].resp \in {404, 429} => paid[c] = 0
  /\ \A c, d \in Calls : call[c].kind \in Kinds /\ call[c].req = call[d].req
                          /\ paid[c] > 0 /\ paid[d] > 0 => c = d

\* A ledger row that says its usage is known says what the provider charged; whatever was
\* charged without a known usage left model_attempted behind.
SpendNotUnderstated ==
  \A c \in Calls : LET r == row[call[c].req] IN
    call[c].kind \in Kinds /\ ~At(c, "new") /\ paid[c] > 0 =>
      /\ r.attempted
      /\ r.known => r.cost = paid[c]

\* The build's stored tokens never pass its ceiling by a whole response, however often a
\* call is truncated, repaired or reconnected.
CeilingHeld == BuildTokensUsed <= Ceiling

\* "a row inserted after it with the pre-call attribution would stay anonymous forever": the
\* spend of a build always belongs to the build's owner, whenever the sign-up commits.
SpendFollowsOwner == ledger[CHOOSE o \in Owners : o # owner] = 0

\* What is recorded is what was spent: once per request, in full, by the build's owner and
\* under its ceiling.
SpendSound == PaidOnce /\ SpendNotUnderstated /\ CeilingHeld /\ SpendFollowsOwner

\* Every call ends and gives its slot back, with a provider that hangs, a client that
\* disconnects or a database that is lost.
CallsEnd == []<>(active = 0 /\ \A c \in Calls : call[c].pc \in {"new", "done"})
=============================================================================
