------------------------------ MODULE Accounts ------------------------------
(***************************************************************************)
(* Sign-in by email code, sessions, workspaces and the claim of anonymous  *)
(* work: auth-store.ts, authorized-write.ts, the owner of a build in       *)
(* build-routes.ts and chat-store.ts, and the metering of model calls      *)
(* (packages/llm meter.ts) that the claim races with.                      *)
(*                                                                         *)
(* A request runs its statements one after the other.  Transactions are    *)
(* READ COMMITTED: a statement sees what was committed when it started,    *)
(* and waits for rows another transaction has locked.  A transaction whose *)
(* statements nobody can tell apart, because they follow a lock taken      *)
(* first, is one action.                                                   *)
(***************************************************************************)
EXTENDS Naturals, Sequences, FiniteSets

CONSTANTS Users,       \* email addresses, normalized; one account each
          Tenants,     \* workspaces
          Others,      \* those that exist already, made by other people's sign-in
          Hashes,      \* anonymous owner cookies
          Builds,      \* ids a new build may get
          Requests,    \* requests under way at a time
          None,
          MaxAttempts, \* CODE_MAX_ATTEMPTS
          MaxCodes,    \* bound: codes issued
          MaxSessions  \* bound: sessions opened

ASSUME AccountsAssumption ==
  /\ None \notin Users \cup Tenants \cup Hashes \cup Builds
  /\ Tenants \cap Hashes = {} /\ Others \subseteq Tenants
  /\ MaxAttempts \in Nat \ {0} /\ MaxCodes \in Nat /\ MaxSessions \in Nat

VARIABLES
  codes,    \* users.email_codes, in the order of issue
  sessions, \* users.sessions, in the order of insertion
  members,  \* users.tenant_members per user, oldest first
  used,     \* tenants that exist
  build,    \* builds.builds: the owner columns
  calls,    \* builds.llm_calls: the owner columns of each build's rows
  req,      \* the requests
  missed    \* wrong guesses checked per code, for GuessesBounded

account == <<codes, sessions, members, used, missed>>
work == <<build, calls>>
vars == <<account, work, req>>

NoBuild == [tenant |-> None, anon |-> None]
Idle == [pc |-> "idle", user |-> None, guess |-> 0, late |-> {}, code |-> 0, session |-> 0,
         first |-> FALSE, tenant |-> None, anon |-> None, build |-> None, rows |-> {}]

Init ==
  /\ codes = <<>> /\ sessions = <<>> /\ missed = <<>>
  /\ members = [u \in Users |-> <<>>] /\ used = Others
  /\ build = [b \in Builds |-> NoBuild] /\ calls = {}
  /\ req = [r \in Requests |-> Idle]

(***************************************************************************)
(* Sessions and memberships.                                               *)
(***************************************************************************)

Exists(b) == build[b] # NoBuild
Belongs(u, t) == \E i \in DOMAIN members[u] : members[u][i].tenant = t
MayWrite(u, t) == \E i \in DOMAIN members[u] :
  members[u][i].tenant = t /\ members[u][i].role \in {"admin", "operator"}

\* liveSession: neither revoked nor expired.
Live(s) == s \in DOMAIN sessions /\ ~sessions[s].revoked /\ ~sessions[s].expired

\* sessionTenantIn: the active tenant, while its user is still a member.
SessionTenant(s) ==
  IF Live(s) /\ Belongs(sessions[s].user, sessions[s].tenant) THEN sessions[s].tenant ELSE None

\* Mutant: the family is read without FOR SHARE.
Shared_Never(s) == FALSE

\* A write transaction holds this session row FOR SHARE.
Shared(s) == \E r \in Requests : req[r].pc = "writing" /\ req[r].session = s

\* ... and this membership row.
SharedMember(u, t) ==
  \E r \in Requests : req[r].pc = "writing" /\ req[r].user = u /\ req[r].tenant = t

(***************************************************************************)
(* Codes.                                                                  *)
(***************************************************************************)

\* The advisory lock of an email address is held from the check of the code to the COMMIT.
Claiming == {"claim", "update", "move"}
Verifying == Claiming \cup {"verify"}
EmailBusy(u) == \E r \in Requests : req[r].pc \in Claiming /\ req[r].user = u

\* A new request invalidates the previous code.
Superseded(c, u) == IF c.email = u THEN [c EXCEPT !.consumed = TRUE] ELSE c

IssueCode(u) ==
  /\ Len(codes) < MaxCodes /\ ~EmailBusy(u)
  /\ codes' = Append([n \in DOMAIN codes |-> Superseded(codes[n], u)],
                     [email |-> u, attempts |-> 0, consumed |-> FALSE, expired |-> FALSE])
  /\ missed' = Append(missed, 0)
  /\ UNCHANGED <<sessions, members, used, work, req>>

\* verifyCode is called: `now` is read before the lock is waited for.
VerifyBegin(r, u, guess, h, s) ==
  /\ req[r] = Idle
  /\ Len(sessions) + Cardinality({q \in Requests : req[q].pc \in Verifying}) < MaxSessions
  /\ req' = [req EXCEPT ![r] = [Idle EXCEPT !.pc = "verify", !.user = u, !.guess = guess,
               !.late = {n \in DOMAIN codes : codes[n].expired}, !.anon = h, !.session = s]]
  /\ UNCHANGED <<account, work>>

\* The newest code of the address that is neither consumed nor expired.
LiveCodes(r) ==
  {n \in DOMAIN codes : codes[n].email = req[r].user /\ ~codes[n].consumed /\ n \notin req[r].late}
Newest(r, n) == n \in LiveCodes(r) /\ \A m \in LiveCodes(r) : m <= n

Dead(attempts) == attempts >= MaxAttempts

\* A wrong guess counts, although the request fails; or there is no code at all.
VerifyRejected(r) ==
  /\ req[r].pc = "verify" /\ ~EmailBusy(req[r].user)
  /\ \/ LiveCodes(r) = {} /\ UNCHANGED <<codes, missed>>
     \/ \E n \in DOMAIN codes :
          /\ Newest(r, n) /\ n # req[r].guess
          /\ codes' = [codes EXCEPT ![n].attempts = @ + 1, ![n].consumed = Dead(codes[n].attempts + 1)]
          /\ missed' = [missed EXCEPT ![n] = @ + 1]
  /\ req' = [req EXCEPT ![r] = Idle]
  /\ UNCHANGED <<sessions, members, used, work>>

\* The tenant of the new session: the current one of the same user, else the oldest
\* membership, else a personal tenant made for the occasion.
ActiveTenant(r, t) ==
  LET u == req[r].user
      s == req[r].session IN
  IF members[u] = <<>> THEN t \in Tenants \ used
  ELSE IF Live(s) /\ sessions[s].user = u /\ Belongs(u, sessions[s].tenant)
       THEN t = sessions[s].tenant ELSE t = members[u][1].tenant

\* The code is right, and the memberships are read: what follows is one transaction, under
\* the lock of the address.
VerifyMatch(r, t) ==
  /\ req[r].pc = "verify" /\ ~EmailBusy(req[r].user)
  /\ Newest(r, req[r].guess)
  /\ ActiveTenant(r, t)
  /\ \A q \in Requests : req[q].pc \in Claiming => req[q].tenant # t \/ t \in used
  /\ req' = [req EXCEPT ![r].pc = "claim", ![r].code = req[r].guess, ![r].tenant = t,
                         ![r].first = members[req[r].user] = <<>>]
  /\ UNCHANGED <<account, work>>

Anonymous(h) == {b \in Builds : build[b].anon = h /\ h # None}

\* A transaction that has changed or locked build b.
Locked(b) ==
  \E r \in Requests : \/ req[r].pc = "metered" /\ req[r].build = b
                      \/ req[r].pc = "move" /\ b \in req[r].rows

\* UPDATE builds: the rows the statement sees when it starts...
ClaimScan(r) ==
  /\ req[r].pc = "claim"
  /\ req' = [req EXCEPT ![r].pc = "update", ![r].rows = Anonymous(req[r].anon)]
  /\ UNCHANGED <<account, work>>

\* ...are locked once nobody else holds them, and checked again.
ClaimBuilds(r) ==
  /\ req[r].pc = "update" /\ \A b \in req[r].rows : ~Locked(b)
  /\ req' = [req EXCEPT ![r].pc = "move", ![r].rows = @ \cap Anonymous(req[r].anon)]
  /\ UNCHANGED <<account, work>>

\* UPDATE llm_calls with the same owner hash.
Moved(c, h, t) == IF c.anon = h /\ h # None THEN [c EXCEPT !.tenant = t, !.anon = None] ELSE c

\* Who had no membership gets the personal one, wherever created_at puts it beside an
\* invitation committed since the memberships were read.
Joined(r) ==
  LET own == [tenant |-> req[r].tenant, role |-> "admin"]
      rows == members[req[r].user] IN
  IF req[r].first THEN {<<own>> \o rows, Append(rows, own)} ELSE {rows}

\* The rest of the transaction and its COMMIT: code, membership, session, builds, calls.
ClaimCommit(r) ==
  LET u == req[r].user
      t == req[r].tenant IN
  /\ req[r].pc = "move"
  /\ codes' = [codes EXCEPT ![req[r].code].consumed = TRUE]
  /\ \E rows \in Joined(r) : members' = [members EXCEPT ![u] = rows]
  /\ used' = used \cup {t}
  /\ sessions' = Append(sessions, [user |-> u, tenant |-> t, revoked |-> FALSE, expired |-> FALSE, code |-> req[r].code])
  /\ build' = [b \in Builds |-> IF b \in req[r].rows THEN [tenant |-> t, anon |-> None] ELSE build[b]]
  /\ calls' = {Moved(c, req[r].anon, t) : c \in calls}
  /\ req' = [req EXCEPT ![r] = Idle]
  /\ UNCHANGED missed

\* The transaction fails half way: everything is rolled back, the code is still good.
ClaimAbort(r) ==
  /\ req[r].pc \in Claiming
  /\ req' = [req EXCEPT ![r] = Idle]
  /\ UNCHANGED <<account, work>>

(***************************************************************************)
(* Sign-out, switching workspaces, and writes that need a live session.    *)
(***************************************************************************)

\* revokeSessionFamily: find the live session...
SignOutBegin(r, s) ==
  /\ req[r] = Idle /\ Live(s)
  /\ req' = [req EXCEPT ![r] = [Idle EXCEPT !.pc = "signout", !.session = s]]
  /\ UNCHANGED <<account, work>>

\* ...then revoke it, once no write holds it.
SignOutEnd(r) ==
  /\ req[r].pc = "signout" /\ ~Shared(req[r].session)
  /\ sessions' = [sessions EXCEPT ![req[r].session].revoked = TRUE]
  /\ req' = [req EXCEPT ![r] = Idle]
  /\ UNCHANGED <<codes, members, used, missed, work>>

\* switchTenant, which locks the session row before anything else.
SwitchTenant(s, t) ==
  /\ Live(s) /\ ~Shared(s)
  /\ Belongs(sessions[s].user, t) /\ sessions[s].tenant # t
  /\ sessions' = [sessions EXCEPT ![s].tenant = t]
  /\ UNCHANGED <<codes, members, used, missed, work, req>>

\* withAuthorizedWrite: session, workspace the page expects, role; all locked FOR SHARE.
WriteBegin(r, s, expected) ==
  /\ req[r] = Idle /\ Live(s)
  /\ sessions[s].tenant = expected /\ MayWrite(sessions[s].user, expected)
  /\ req' = [req EXCEPT ![r] = [Idle EXCEPT !.pc = "writing", !.session = s,
                                 !.user = sessions[s].user, !.tenant = expected]]
  /\ UNCHANGED <<account, work>>

\* The expiry is checked once more before the COMMIT; an expired session rolls back.
WriteEnd(r) ==
  /\ req[r].pc = "writing"
  /\ req' = [req EXCEPT ![r] = IF sessions[req[r].session].expired THEN Idle
                               ELSE [Idle EXCEPT !.pc = "wrote", !.session = req[r].session, !.tenant = req[r].tenant]]
  /\ UNCHANGED <<account, work>>

Wrote(r) ==
  /\ req[r].pc = "wrote"
  /\ req' = [req EXCEPT ![r] = Idle]
  /\ UNCHANGED <<account, work>>

(***************************************************************************)
(* Builds and what their turns cost.                                       *)
(***************************************************************************)

\* ownerOf: who is asking, resolved before anything else and kept to the end.
Owner(s, h) == [tenant |-> SessionTenant(s), anon |-> h]
OwnedBy(b, o) ==
  /\ Exists(b)
  /\ \/ o.tenant # None /\ build[b].tenant = o.tenant
     \/ o.anon # None /\ build[b].tenant = None /\ build[b].anon = o.anon

\* A tenant wins over the cookie.
Payer(o) == IF o.tenant # None THEN [o EXCEPT !.anon = None] ELSE o

\* POST /v1/builds.
CreateBegin(r, s, h) ==
  LET o == Payer(Owner(s, h)) IN
  /\ req[r] = Idle /\ (o.tenant # None \/ o.anon # None)
  /\ req' = [req EXCEPT ![r] = [Idle EXCEPT !.pc = "create", !.tenant = o.tenant, !.anon = o.anon]]
  /\ UNCHANGED <<account, work>>

CreateEnd(r, b) ==
  /\ req[r].pc = "create" /\ ~Exists(b)
  /\ build' = [build EXCEPT ![b] = [tenant |-> req[r].tenant, anon |-> req[r].anon]]
  /\ req' = [req EXCEPT ![r] = Idle]
  /\ UNCHANGED <<account, calls>>

\* POST /messages: the build is looked up for the owner...
PostBegin(r, b, s, h) ==
  /\ req[r] = Idle /\ OwnedBy(b, Owner(s, h))
  /\ req' = [req EXCEPT ![r] = [Idle EXCEPT !.pc = "post", !.build = b, !.tenant = Owner(s, h).tenant, !.anon = h]]
  /\ UNCHANGED <<account, work>>

\* ...and once more with its row lock held.
Holds(r) == OwnedBy(req[r].build, [tenant |-> req[r].tenant, anon |-> req[r].anon])

PostEnd(r) ==
  /\ req[r].pc = "post" /\ ~Locked(req[r].build)
  /\ req' = [req EXCEPT ![r] = IF Holds(r) THEN [@ EXCEPT !.pc = "posted"] ELSE Idle]
  /\ UNCHANGED <<account, work>>

Posted(r) ==
  /\ req[r].pc = "posted"
  /\ req' = [req EXCEPT ![r] = Idle]
  /\ UNCHANGED <<account, work>>

\* A limit refuses the request, or the model call fails: nothing is stored.
Refuse(r) ==
  /\ req[r].pc \in {"create", "post", "model"}
  /\ req' = [req EXCEPT ![r] = Idle]
  /\ UNCHANGED <<account, work>>

\* A turn of a build reads whom to charge, then calls the model.
Charge(r, b) ==
  /\ req[r] = Idle /\ Exists(b)
  /\ req' = [req EXCEPT ![r] = [Idle EXCEPT !.pc = "model", !.build = b,
                                 !.tenant = build[b].tenant, !.anon = build[b].anon]]
  /\ UNCHANGED <<account, work>>

\* Mutant: the owner known when the turn started is charged, without the row lock.
MeterLock_Early(r) ==
  /\ req[r].pc = "model"
  /\ req' = [req EXCEPT ![r].pc = "metered", ![r].build = None, ![r].rows = {req[r].build}]
  /\ UNCHANGED <<account, work>>

\* llmCallsInserter: lock the build row and read its owner now...
MeterLock(r) ==
  LET b == req[r].build IN
  /\ req[r].pc = "model" /\ ~Locked(b)
  /\ req' = [req EXCEPT ![r].pc = "metered", ![r].tenant = build[b].tenant, ![r].anon = build[b].anon,
                        ![r].rows = {b}]
  /\ UNCHANGED <<account, work>>

\* ...insert the row and commit.
MeterInsert(r) ==
  /\ req[r].pc = "metered"
  /\ calls' = calls \cup {[build |-> b, tenant |-> req[r].tenant, anon |-> req[r].anon] : b \in req[r].rows}
  /\ req' = [req EXCEPT ![r] = Idle]
  /\ UNCHANGED <<account, build>>

(***************************************************************************)
(* Around the gateway: time, and operators who edit memberships.           *)
(***************************************************************************)

ExpireSession(s) ==
  /\ ~sessions[s].expired
  /\ sessions' = [sessions EXCEPT ![s].expired = TRUE]
  /\ UNCHANGED <<codes, members, used, missed, work, req>>

ExpireCode(n) ==
  /\ ~codes[n].expired
  /\ codes' = [codes EXCEPT ![n].expired = TRUE]
  /\ UNCHANGED <<sessions, members, used, missed, work, req>>

\* An operator adds, changes or removes a membership; a removal or change waits for writes.
Invite(u, t, role) ==
  /\ ~Belongs(u, t) /\ t \in used
  /\ members' = [members EXCEPT ![u] = Append(@, [tenant |-> t, role |-> role])]
  /\ UNCHANGED <<codes, sessions, used, missed, work, req>>

Demote(u, t) ==
  /\ MayWrite(u, t) /\ ~SharedMember(u, t)
  /\ members' = [members EXCEPT ![u] = [i \in DOMAIN @ |->
       IF @[i].tenant = t THEN [@[i] EXCEPT !.role = "viewer"] ELSE @[i]]]
  /\ UNCHANGED <<codes, sessions, used, missed, work, req>>

\* A list without its entry i.
Without(list, i) == [n \in 1 .. Len(list) - 1 |-> IF n < i THEN list[n] ELSE list[n + 1]]

Remove(u, t) ==
  /\ ~SharedMember(u, t)
  /\ \E i \in DOMAIN members[u] : /\ members[u][i].tenant = t
                                 /\ members' = [members EXCEPT ![u] = Without(@, i)]
  /\ UNCHANGED <<codes, sessions, used, missed, work, req>>

Cookies == Hashes \cup {None}
Tokens == 0..Len(sessions)

SignIn(r) ==
  \/ \E u \in Users, guess \in 0..Len(codes), h \in Cookies, s \in Tokens : VerifyBegin(r, u, guess, h, s)
  \/ VerifyRejected(r) \/ \E t \in Tenants : VerifyMatch(r, t)
  \/ ClaimScan(r) \/ ClaimBuilds(r) \/ ClaimCommit(r) \/ ClaimAbort(r)
SessionUse(r) ==
  \/ \E s \in DOMAIN sessions : SignOutBegin(r, s)
  \/ SignOutEnd(r)
  \/ \E s \in DOMAIN sessions, t \in Tenants : WriteBegin(r, s, t)
  \/ WriteEnd(r) \/ Wrote(r)
BuildUse(r) ==
  \/ \E s \in Tokens, h \in Cookies : CreateBegin(r, s, h)
  \/ \E b \in Builds : CreateEnd(r, b)
  \/ \E b \in Builds, s \in Tokens, h \in Cookies : PostBegin(r, b, s, h)
  \/ PostEnd(r) \/ Posted(r)
  \/ \E b \in Builds : Charge(r, b)
  \/ MeterLock(r) \/ MeterInsert(r) \/ Refuse(r)
Outside ==
  \/ \E u \in Users : IssueCode(u)
  \/ \E s \in DOMAIN sessions : ExpireSession(s) \/ \E t \in Tenants : SwitchTenant(s, t)
  \/ \E n \in DOMAIN codes : ExpireCode(n)
  \/ \E u \in Users, t \in Tenants : Demote(u, t) \/ Remove(u, t) \/ Invite(u, t, "operator")

Next == Outside \/ \E r \in Requests : SignIn(r) \/ SessionUse(r) \/ BuildUse(r)
Spec == Init /\ [][Next]_vars

(***************************************************************************)
(* Properties.                                                             *)
(***************************************************************************)

OwnerType == [tenant : Tenants \cup {None}, anon : Hashes \cup {None}]

\* Rows and requests have the shapes the schema gives them; every build has exactly one
\* owner (builds_owner_check).
TypeOK ==
  /\ codes \in Seq([email : Users, attempts : Nat, consumed : BOOLEAN, expired : BOOLEAN])
  /\ sessions \in Seq([user : Users, tenant : Tenants, revoked : BOOLEAN, expired : BOOLEAN, code : Nat])
  /\ members \in [Users -> Seq([tenant : Tenants, role : {"admin", "operator", "viewer"}])]
  /\ used \subseteq Tenants
  /\ build \in [Builds -> OwnerType]
  /\ \A b \in Builds : Exists(b) => (build[b].tenant = None) # (build[b].anon = None)
  /\ calls \subseteq [build : Builds, tenant : Tenants \cup {None}, anon : Hashes \cup {None}]

\* Guessing is bounded by the number of codes: no code is checked against more than
\* MaxAttempts wrong guesses, and it opens at most one session, however many requests race.
GuessesBounded ==
  /\ \A n \in DOMAIN codes : missed[n] <= MaxAttempts
  /\ \A s, q \in DOMAIN sessions : sessions[s].code = sessions[q].code => s = q

\* A write commits only with a session that is not signed out, in the workspace that is
\* still the session's, by a member who still may write there.
WritesFenced ==
  \A r \in Requests : req[r].pc = "writing" /\ req'[r].pc = "wrote" =>
    LET s == sessions[req[r].session] IN
    ~s.revoked /\ ~s.expired /\ s.tenant = req[r].tenant /\ MayWrite(s.user, s.tenant)

\* A message is stored only for whoever holds the build at that moment.
PostsFenced ==
  \A r \in Requests : req[r].pc = "post" /\ req'[r].pc = "posted" =>
    \/ build[req[r].build].tenant # None /\ build[req[r].build].tenant = req[r].tenant
    \/ build[req[r].build].tenant = None /\ build[req[r].build].anon = req[r].anon

\* What an anonymous build cost follows it into the tenant: no call of a claimed build
\* stays anonymous, calls that were in flight during the claim included (meter.ts).
SpendClaimed == \A c \in calls : build[c.build].tenant # None => c.anon = None

\* The rows are sound whatever races: one owner per build, every call of a claimed build with
\* its owner, and no code that answers more guesses or opens more sessions than it may.
AccountsSound == TypeOK /\ GuessesBounded /\ SpendClaimed

\* Nothing is stored on the strength of what a request found before it waited: each write and
\* each message is fenced by what holds when it commits.
RequestsFenced == [][WritesFenced /\ PostsFenced]_vars
=============================================================================
