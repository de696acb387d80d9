-------------------------- MODULE Accounts_proofs --------------------------
(***************************************************************************)
(* Proofs about Accounts, PortalCalls and EmailSignIn.  The invariant of   *)
(* Accounts says what each request still knows about the tables while it   *)
(* waits: the code it was given is still good, the builds it locked are    *)
(* still anonymous, the owner it read for a row is still the build's, the  *)
(* session it holds is still open.                                         *)
(***************************************************************************)
EXTENDS Accounts, EmailSignIn, PortalCalls, SequenceTheorems, FiniteSetTheorems, TLAPS

(***************************************************************************)
(* Shapes.                                                                 *)
(***************************************************************************)
CodeRow == [email : Users, attempts : Nat, consumed : BOOLEAN, expired : BOOLEAN]
SessionRow == [user : Users, tenant : Tenants, revoked : BOOLEAN, expired : BOOLEAN, code : Nat]
MemberRow == [tenant : Tenants, role : {"admin", "operator", "viewer"}]
CallRow == [build : Builds, tenant : Tenants \cup {None}, anon : Hashes \cup {None}]

Steps == Verifying \cup {"idle", "signout", "writing", "wrote", "create", "post", "posted", "model", "metered"}

RequestRow ==
  [pc : Steps, user : Users \cup {None}, guess : Nat, late : SUBSET Nat, code : Nat, session : Nat,
   first : BOOLEAN, tenant : Tenants \cup {None}, anon : Hashes \cup {None}, build : Builds \cup {None}, rows : SUBSET Builds]

OneOwner == \A b \in Builds : Exists(b) => (build[b].tenant = None) # (build[b].anon = None)

Shapes ==
  /\ codes \in Seq(CodeRow)
  /\ missed \in Seq(Nat) /\ Len(missed) = Len(codes)
  /\ sessions \in Seq(SessionRow)
  /\ members \in [Users -> Seq(MemberRow)]
  /\ used \subseteq Tenants
  /\ build \in [Builds -> OwnerType]
  /\ OneOwner
  /\ calls \subseteq CallRow
  /\ req \in [Requests -> RequestRow]

(***************************************************************************)
(* The tables.                                                             *)
(***************************************************************************)

\* Every wrong guess is counted in the row, and a code that is spent is consumed.
CodesInv ==
  \A n \in DOMAIN codes :
    /\ missed[n] = codes[n].attempts /\ codes[n].attempts <= MaxAttempts
    /\ ~codes[n].consumed => codes[n].attempts < MaxAttempts

\* The code that opened a session is consumed, and opened no other.
SessionsInv ==
  /\ \A s \in DOMAIN sessions : sessions[s].code \in DOMAIN codes /\ codes[sessions[s].code].consumed
  /\ \A s, q \in DOMAIN sessions : sessions[s].code = sessions[q].code => s = q

\* A call with an anonymous owner has the owner of its build.
CallsInv == \A c \in calls : c.anon # None => build[c.build].anon = c.anon

(***************************************************************************)
(* What a request x relies on while it waits.                              *)
(***************************************************************************)

\* The code it was right about.
Proven(x) ==
  /\ x.pc \in Verifying => x.user \in Users
  /\ x.pc \in Claiming => /\ x.tenant \in Tenants /\ x.code \in DOMAIN codes
                          /\ codes[x.code].email = x.user /\ ~codes[x.code].consumed

\* The builds it has found or locked.
Found(x) ==
  /\ x.pc = "create" => (x.tenant = None) # (x.anon = None)
  /\ x.pc \in {"post", "model", "metered"} => x.build \in Builds /\ Exists(x.build)
  /\ x.pc = "move" => \A b \in x.rows : x.anon # None /\ build[b].anon = x.anon
  /\ x.pc = "metered" => x.rows = {x.build} /\ build[x.build] = [tenant |-> x.tenant, anon |-> x.anon]

\* The session and the membership it holds FOR SHARE.
Held(x) ==
  /\ x.pc \in {"signout", "writing"} => x.session \in DOMAIN sessions
  /\ x.pc = "writing" =>
       /\ x.user \in Users /\ x.tenant \in Tenants
       /\ sessions[x.session].user = x.user /\ sessions[x.session].tenant = x.tenant
       /\ ~sessions[x.session].revoked /\ MayWrite(x.user, x.tenant)

Fits(x) == Proven(x) /\ Found(x) /\ Held(x)

\* What the locks keep apart: two claims for one address, and two transactions on one build.
Apart(x, y) ==
  /\ x.pc \in Claiming /\ y.pc \in Claiming => x.user # y.user
  /\ x.pc = "move" /\ y.pc = "move" => x.rows \cap y.rows = {}
  /\ x.pc = "move" /\ y.pc = "metered" => y.build \notin x.rows

RequestsInv ==
  /\ \A r \in Requests : Fits(req[r])
  /\ \A r, q \in Requests : r # q => Apart(req[r], req[q])

Inv == Shapes /\ CodesInv /\ SessionsInv /\ CallsInv /\ RequestsInv

(***************************************************************************)
(* A request moves on and no table changes.                                *)
(***************************************************************************)

LEMMA IdleRow == Idle \in RequestRow /\ Fits(Idle) /\ \A y : Apart(Idle, y) /\ Apart(y, Idle)
  BY AccountsAssumption DEF Idle, RequestRow, Steps, Verifying, Claiming, Fits, Proven, Found, Held, Apart

LEMMA RequestStep ==
  ASSUME Inv, NEW r \in Requests, NEW x \in RequestRow, Fits(x),
         \A q \in Requests \ {r} : Apart(x, req[q]) /\ Apart(req[q], x),
         req' = [req EXCEPT ![r] = x], UNCHANGED <<account, work>>
  PROVE  Inv'
  <1>1. Shapes'
    BY DEF Inv, Shapes, account, work, OneOwner, Exists
  <1>2. CodesInv' /\ SessionsInv' /\ CallsInv'
    BY DEF Inv, CodesInv, SessionsInv, CallsInv, account, work
  <1>3. \A y : Fits(y)' <=> Fits(y)
    BY DEF account, work, Fits, Proven, Found, Held, Exists, MayWrite
  <1>4. ASSUME NEW q \in Requests PROVE Fits(req[q])'
    <2>1. req'[q] = IF q = r THEN x ELSE req[q]
      BY DEF Inv, Shapes
    <2>2. Fits(req'[q])
      BY <2>1 DEF Inv, RequestsInv
    <2> QED
      BY <2>2 DEF account, work, Fits, Proven, Found, Held, Exists, MayWrite
  <1>5. ASSUME NEW q \in Requests, NEW p \in Requests, p # q PROVE Apart(req[p], req[q])'
    <2>1. req'[q] = (IF q = r THEN x ELSE req[q]) /\ req'[p] = (IF p = r THEN x ELSE req[p])
      BY DEF Inv, Shapes
    <2>2. Apart(req'[p], req'[q])
      BY <2>1, <1>5 DEF Inv, RequestsInv
    <2> QED
      BY <2>2 DEF Apart
  <1> QED
    BY <1>1, <1>2, <1>4, <1>5 DEF Inv, RequestsInv

\* A request that ends leaves the others as they are.
LEMMA Ends ==
  ASSUME Inv, NEW r \in Requests, req' = [req EXCEPT ![r] = Idle]
  PROVE  /\ req' \in [Requests -> RequestRow]
         /\ \A q \in Requests : req'[q] = IF q = r THEN Idle ELSE req[q]
         /\ \A q, p \in Requests : p # q => Apart(req[p], req[q])'
  <1>1. req' \in [Requests -> RequestRow] /\ \A q \in Requests : req'[q] = IF q = r THEN Idle ELSE req[q]
    BY IdleRow DEF Inv, Shapes
  <1>2. ASSUME NEW q \in Requests, NEW p \in Requests, p # q PROVE Apart(req[p], req[q])'
    <2>1. Apart(req'[p], req'[q])
      BY <1>1, <1>2, IdleRow DEF Inv, RequestsInv
    <2> QED
      BY <2>1 DEF Apart
  <1> QED
    BY <1>1, <1>2

LEMMA SignInSteps ==
  ASSUME Inv, NEW r \in Requests,
         \/ \E u \in Users, guess \in 0..Len(codes), h \in Cookies, s \in Tokens : VerifyBegin(r, u, guess, h, s)
         \/ \E t \in Tenants : VerifyMatch(r, t)
         \/ ClaimScan(r) \/ ClaimBuilds(r) \/ ClaimAbort(r)
  PROVE  Inv'
  <1> USE AccountsAssumption
  <1>0. req[r] \in RequestRow /\ Fits(req[r]) /\ \A q \in Requests \ {r} : Apart(req[r], req[q]) /\ Apart(req[q], req[r])
    BY DEF Inv, Shapes, RequestsInv
  <1>1. ASSUME NEW u \in Users, NEW guess \in 0..Len(codes), NEW h \in Cookies, NEW s \in Tokens, VerifyBegin(r, u, guess, h, s)
        PROVE  Inv'
    <2> DEFINE x == [Idle EXCEPT !.pc = "verify", !.user = u, !.guess = guess,
                       !.late = {n \in DOMAIN codes : codes[n].expired}, !.anon = h, !.session = s]
    <2>1. {n \in DOMAIN codes : codes[n].expired} \in SUBSET Nat /\ guess \in Nat /\ s \in Nat /\ h \in Hashes \cup {None}
      BY DEF Inv, Shapes, Tokens, Cookies
    <2>2. x \in RequestRow
      BY <2>1 DEF Idle, RequestRow, Steps, Verifying
    <2>3. Fits(x) /\ \A y : Apart(x, y) /\ Apart(y, x)
      BY DEF Idle, Fits, Proven, Found, Held, Apart, Verifying, Claiming
    <2> HIDE DEF x
    <2>4. req' = [req EXCEPT ![r] = x] /\ UNCHANGED <<account, work>>
      BY <1>1 DEF VerifyBegin, x
    <2> QED
      BY <2>2, <2>3, <2>4, RequestStep
  <1>2. ASSUME NEW t \in Tenants, VerifyMatch(r, t) PROVE Inv'
    <2> DEFINE x == [req[r] EXCEPT !.pc = "claim", !.code = req[r].guess, !.tenant = t,
                                !.first = members[req[r].user] = <<>>]
    <2>1. /\ req[r].pc = "verify" /\ ~EmailBusy(req[r].user) /\ req[r].guess \in LiveCodes(r)
          /\ req' = [req EXCEPT ![r] = [@ EXCEPT !.pc = "claim", !.code = req[r].guess, !.tenant = t,
                                              !.first = members[req[r].user] = <<>>]]
          /\ UNCHANGED <<account, work>>
      BY <1>2 DEF VerifyMatch, Newest
    <2>2. x \in RequestRow
      BY <1>0 DEF RequestRow, Steps, Verifying, Claiming
    <2>3. Fits(x)
      BY <1>0, <2>1 DEF RequestRow, Fits, Proven, Found, Held, LiveCodes, Verifying, Claiming
    <2>4. \A q \in Requests \ {r} : Apart(x, req[q]) /\ Apart(req[q], x)
      BY <1>0, <2>1 DEF RequestRow, Apart, EmailBusy, Claiming
    <2>5. req' = [req EXCEPT ![r] = x]
      BY <2>1 DEF Inv, Shapes
    <2> HIDE DEF x
    <2> QED
      BY <2>1, <2>2, <2>3, <2>4, <2>5, RequestStep
  <1>3. ASSUME ClaimScan(r) PROVE Inv'
    <2> DEFINE x == [req[r] EXCEPT !.pc = "update", !.rows = Anonymous(req[r].anon)]
    <2>1. req[r].pc = "claim" /\ req' = [req EXCEPT ![r] = x] /\ UNCHANGED <<account, work>>
      BY <1>3 DEF ClaimScan, Inv, Shapes
    <2>2. x \in RequestRow
      BY <1>0 DEF RequestRow, Steps, Verifying, Claiming, Anonymous
    <2>3. Fits(x)
      BY <1>0, <2>1 DEF RequestRow, Fits, Proven, Found, Held, Verifying, Claiming
    <2>4. \A q \in Requests \ {r} : Apart(x, req[q]) /\ Apart(req[q], x)
      BY <1>0, <2>1 DEF RequestRow, Apart, Claiming
    <2> HIDE DEF x
    <2> QED
      BY <2>1, <2>2, <2>3, <2>4, RequestStep
  <1>4. ASSUME ClaimBuilds(r) PROVE Inv'
    <2> DEFINE x == [req[r] EXCEPT !.pc = "move", !.rows = req[r].rows \cap Anonymous(req[r].anon)]
    <2>1. /\ req[r].pc = "update" /\ (\A b \in req[r].rows : ~Locked(b))
          /\ req' = [req EXCEPT ![r] = x] /\ UNCHANGED <<account, work>>
      BY <1>4 DEF ClaimBuilds, Inv, Shapes
    <2>2. x \in RequestRow
      BY <1>0 DEF RequestRow, Steps, Verifying, Claiming
    <2>3. Fits(x)
      BY <1>0, <2>1 DEF RequestRow, Fits, Proven, Found, Held, Verifying, Claiming, Anonymous
    <2>4. \A q \in Requests \ {r} : Apart(x, req[q]) /\ Apart(req[q], x)
      BY <1>0, <2>1 DEF RequestRow, Apart, Claiming, Locked
    <2> HIDE DEF x
    <2> QED
      BY <2>1, <2>2, <2>3, <2>4, RequestStep
  <1>5. ASSUME ClaimAbort(r) PROVE Inv'
    BY <1>5, IdleRow, RequestStep DEF ClaimAbort
  <1> QED
    BY <1>1, <1>2, <1>3, <1>4, <1>5

LEMMA SessionSteps ==
  ASSUME Inv, NEW r \in Requests,
         \/ \E s \in DOMAIN sessions : SignOutBegin(r, s)
         \/ \E s \in DOMAIN sessions, t \in Tenants : WriteBegin(r, s, t)
         \/ WriteEnd(r) \/ Wrote(r)
  PROVE  Inv'
  <1> USE AccountsAssumption
  <1>0. /\ req[r] \in RequestRow /\ Fits(req[r])
        /\ \A s \in DOMAIN sessions : s \in Nat /\ sessions[s] \in SessionRow
    BY DEF Inv, Shapes, RequestsInv
  <1>1. ASSUME NEW s \in DOMAIN sessions, SignOutBegin(r, s) PROVE Inv'
    <2> DEFINE x == [Idle EXCEPT !.pc = "signout", !.session = s]
    <2>1. x \in RequestRow
      BY <1>0 DEF Idle, RequestRow, Steps
    <2>2. Fits(x) /\ \A y : Apart(x, y) /\ Apart(y, x)
      BY DEF Idle, Fits, Proven, Found, Held, Apart, Verifying, Claiming
    <2>3. req' = [req EXCEPT ![r] = x] /\ UNCHANGED <<account, work>>
      BY <1>1 DEF SignOutBegin
    <2> HIDE DEF x
    <2> QED
      BY <2>1, <2>2, <2>3, RequestStep
  <1>2. ASSUME NEW s \in DOMAIN sessions, NEW t \in Tenants, WriteBegin(r, s, t) PROVE Inv'
    <2> DEFINE x == [Idle EXCEPT !.pc = "writing", !.session = s, !.user = sessions[s].user, !.tenant = t]
    <2>1. /\ Live(s) /\ sessions[s].tenant = t /\ MayWrite(sessions[s].user, t)
          /\ req' = [req EXCEPT ![r] = x] /\ UNCHANGED <<account, work>>
      BY <1>2 DEF WriteBegin
    <2>2. x \in RequestRow
      BY <1>0 DEF Idle, RequestRow, SessionRow, Steps
    <2>3. Fits(x) /\ \A y : Apart(x, y) /\ Apart(y, x)
      BY <1>0, <2>1 DEF Idle, Live, SessionRow, Fits, Proven, Found, Held, Apart, Verifying, Claiming
    <2> HIDE DEF x
    <2> QED
      BY <2>1, <2>2, <2>3, RequestStep
  <1>3. ASSUME WriteEnd(r) PROVE Inv'
    <2> DEFINE x == IF sessions[req[r].session].expired THEN Idle
                    ELSE [Idle EXCEPT !.pc = "wrote", !.session = req[r].session, !.tenant = req[r].tenant]
    <2>1. req' = [req EXCEPT ![r] = x] /\ UNCHANGED <<account, work>>
      BY <1>3 DEF WriteEnd
    <2>2. x \in RequestRow
      BY <1>0, IdleRow DEF Idle, RequestRow, Steps
    <2>3. Fits(x) /\ \A y : Apart(x, y) /\ Apart(y, x)
      BY IdleRow DEF Idle, Fits, Proven, Found, Held, Apart, Verifying, Claiming
    <2> HIDE DEF x
    <2> QED
      BY <2>1, <2>2, <2>3, RequestStep
  <1>4. ASSUME Wrote(r) PROVE Inv'
    BY <1>4, IdleRow, RequestStep DEF Wrote
  <1> QED
    BY <1>1, <1>2, <1>3, <1>4

LEMMA BuildSteps ==
  ASSUME Inv, NEW r \in Requests,
         \/ \E s \in Tokens, h \in Cookies : CreateBegin(r, s, h)
         \/ \E b \in Builds, s \in Tokens, h \in Cookies : PostBegin(r, b, s, h)
         \/ PostEnd(r) \/ Posted(r) \/ Refuse(r)
         \/ \E b \in Builds : Charge(r, b)
         \/ MeterLock(r)
  PROVE  Inv'
  <1> USE AccountsAssumption
  <1>0. /\ req[r] \in RequestRow /\ Fits(req[r])
        /\ \A q \in Requests \ {r} : Apart(req[r], req[q]) /\ Apart(req[q], req[r])
        /\ \A b \in Builds : build[b] \in OwnerType
    BY DEF Inv, Shapes, RequestsInv
  <1>1. \A s, h : h \in Cookies => Owner(s, h) \in OwnerType /\ Payer(Owner(s, h)) \in OwnerType
    <2>1. \A s : SessionTenant(s) \in Tenants \cup {None}
      <3>1. \A s \in DOMAIN sessions : sessions[s] \in SessionRow
        BY DEF Inv, Shapes
      <3>2. \A s \in DOMAIN sessions : sessions[s].tenant \in Tenants
        BY <3>1 DEF SessionRow
      <3> QED
        BY <3>2 DEF SessionTenant, Live
    <2> QED
      BY <2>1 DEF Owner, Payer, OwnerType, Cookies
  <1>2. ASSUME NEW s \in Tokens, NEW h \in Cookies, CreateBegin(r, s, h) PROVE Inv'
    <2> DEFINE o == Payer(Owner(s, h))
               x == [Idle EXCEPT !.pc = "create", !.tenant = o.tenant, !.anon = o.anon]
    <2>1. (o.tenant # None \/ o.anon # None) /\ req' = [req EXCEPT ![r] = x] /\ UNCHANGED <<account, work>>
      BY <1>2 DEF CreateBegin
    <2>2. x \in RequestRow
      BY <1>1 DEF Idle, RequestRow, Steps, OwnerType
    <2>3. (o.tenant = None) # (o.anon = None)
      BY <2>1 DEF Payer, Owner
    <2>4. Fits(x) /\ \A y : Apart(x, y) /\ Apart(y, x)
      BY <2>3 DEF Idle, Fits, Proven, Found, Held, Apart, Verifying, Claiming
    <2> HIDE DEF x
    <2> QED
      BY <2>1, <2>2, <2>4, RequestStep
  <1>3. ASSUME NEW b \in Builds, NEW s \in Tokens, NEW h \in Cookies, PostBegin(r, b, s, h) PROVE Inv'
    <2> DEFINE x == [Idle EXCEPT !.pc = "post", !.build = b, !.tenant = Owner(s, h).tenant, !.anon = h]
    <2>1. Exists(b) /\ req' = [req EXCEPT ![r] = x] /\ UNCHANGED <<account, work>>
      BY <1>3 DEF PostBegin, OwnedBy
    <2>2. x \in RequestRow
      BY <1>1 DEF Idle, RequestRow, Steps, OwnerType, Cookies
    <2>3. Fits(x) /\ \A y : Apart(x, y) /\ Apart(y, x)
      BY <2>1 DEF Idle, Fits, Proven, Found, Held, Apart, Verifying, Claiming
    <2> HIDE DEF x
    <2> QED
      BY <2>1, <2>2, <2>3, RequestStep
  <1>4. ASSUME PostEnd(r) PROVE Inv'
    <2> DEFINE x == IF Holds(r) THEN [req[r] EXCEPT !.pc = "posted"] ELSE Idle
    <2>1. req' = [req EXCEPT ![r] = x] /\ UNCHANGED <<account, work>>
      BY <1>4 DEF PostEnd, Inv, Shapes
    <2>2. x \in RequestRow
      BY <1>0, IdleRow DEF RequestRow, Steps
    <2>3. Fits(x) /\ \A y : Apart(x, y) /\ Apart(y, x)
      BY <1>0, IdleRow DEF RequestRow, Fits, Proven, Found, Held, Apart, Verifying, Claiming
    <2> HIDE DEF x
    <2> QED
      BY <2>1, <2>2, <2>3, RequestStep
  <1>5. ASSUME Posted(r) \/ Refuse(r) PROVE Inv'
    BY <1>5, IdleRow, RequestStep DEF Posted, Refuse
  <1>6. ASSUME NEW b \in Builds, Charge(r, b) PROVE Inv'
    <2> DEFINE x == [Idle EXCEPT !.pc = "model", !.build = b, !.tenant = build[b].tenant, !.anon = build[b].anon]
    <2>1. Exists(b) /\ req' = [req EXCEPT ![r] = x] /\ UNCHANGED <<account, work>>
      BY <1>6 DEF Charge
    <2>2. x \in RequestRow
      BY <1>0 DEF Idle, RequestRow, Steps, OwnerType
    <2>3. Fits(x) /\ \A y : Apart(x, y) /\ Apart(y, x)
      BY <2>1 DEF Idle, Fits, Proven, Found, Held, Apart, Verifying, Claiming
    <2> HIDE DEF x
    <2> QED
      BY <2>1, <2>2, <2>3, RequestStep
  <1>7. ASSUME MeterLock(r) PROVE Inv'
    <2> DEFINE b == req[r].build
               x == [req[r] EXCEPT !.pc = "metered", !.tenant = build[b].tenant, !.anon = build[b].anon, !.rows = {b}]
    <2>1. /\ req[r].pc = "model" /\ ~Locked(b)
          /\ req' = [req EXCEPT ![r] = x] /\ UNCHANGED <<account, work>>
      BY <1>7 DEF MeterLock, Inv, Shapes
    <2>2. b \in Builds /\ Exists(b)
      BY <1>0, <2>1 DEF Fits, Found
    <2>3. x \in RequestRow
      BY <1>0, <2>2 DEF RequestRow, Steps, OwnerType
    <2>4. Fits(x)
      BY <1>0, <2>1, <2>2 DEF RequestRow, OwnerType, Fits, Proven, Found, Held, Verifying, Claiming
    <2>5. \A q \in Requests \ {r} : Apart(x, req[q]) /\ Apart(req[q], x)
      BY <1>0, <2>1 DEF RequestRow, Apart, Claiming, Locked
    <2> HIDE DEF x
    <2> QED
      BY <2>1, <2>3, <2>4, <2>5, RequestStep
  <1> QED
    BY <1>2, <1>3, <1>4, <1>5, <1>6, <1>7

(***************************************************************************)
(* The codes change.                                                       *)
(***************************************************************************)

\* A new table of codes that forgets none, leaves a consumed one consumed, and keeps the
\* one every claim relies on.
LEMMA CodesStep ==
  ASSUME Inv, codes' \in Seq(CodeRow), missed' \in Seq(Nat), Len(missed') = Len(codes'), CodesInv',
         \A n \in DOMAIN codes : n \in DOMAIN codes' /\ (codes[n].consumed => codes'[n].consumed),
         req' \in [Requests -> RequestRow],
         \A q \in Requests :
           \/ req'[q] = Idle
           \/ /\ req'[q] = req[q]
              /\ req[q].pc \in Claiming => codes'[req[q].code].email = req[q].user /\ ~codes'[req[q].code].consumed,
         \A q, p \in Requests : p # q => Apart(req[p], req[q])',
         UNCHANGED <<sessions, members, used, work>>
  PROVE  Inv'
  <1>1. Shapes'
    BY DEF Inv, Shapes, work, OneOwner, Exists
  <1>2. SessionsInv' /\ CallsInv'
    BY DEF Inv, SessionsInv, CallsInv, work
  <1>3. ASSUME NEW q \in Requests PROVE Fits(req[q])'
    <2>1. CASE req'[q] = Idle
      BY <2>1, AccountsAssumption DEF Idle, Fits, Proven, Found, Held, Verifying, Claiming
    <2>2. CASE req'[q] # Idle
      <3>1. /\ req'[q] = req[q] /\ Fits(req[q])
            /\ req[q].pc \in Claiming => codes'[req[q].code].email = req[q].user /\ ~codes'[req[q].code].consumed
        BY <2>2 DEF Inv, RequestsInv
      <3>2. Proven(req[q])'
        BY <3>1 DEF Fits, Proven
      <3>3. Found(req[q])'
        BY <3>1 DEF Fits, Found, Exists, work
      <3>4. Held(req[q])'
        BY <3>1 DEF Fits, Held, MayWrite
      <3> QED
        BY <3>2, <3>3, <3>4 DEF Fits
    <2> QED
      BY <2>1, <2>2
  <1> QED
    BY <1>1, <1>2, <1>3 DEF Inv, RequestsInv

LEMMA IssueKeeps ==
  ASSUME Inv, NEW u \in Users, IssueCode(u)
  PROVE  Inv'
  <1> DEFINE old == [n \in DOMAIN codes |-> Superseded(codes[n], u)]
             new == [email |-> u, attempts |-> 0, consumed |-> FALSE, expired |-> FALSE]
  <1>1. Len(codes) \in Nat /\ DOMAIN codes = 1..Len(codes) /\ \A n \in DOMAIN codes : codes[n] \in CodeRow
    BY DEF Inv, Shapes
  <1>2. \A n \in DOMAIN codes : Superseded(codes[n], u) \in CodeRow
    BY <1>1 DEF Superseded, CodeRow
  <1>3. old \in Seq(CodeRow) /\ Len(old) = Len(codes) /\ \A n \in DOMAIN codes : old[n] = Superseded(codes[n], u)
    BY <1>1, <1>2, IsASeq
  <1>4. new \in CodeRow
    BY DEF CodeRow
  <1>5. /\ codes' = Append(old, new) /\ missed' = Append(missed, 0) /\ ~EmailBusy(u)
        /\ UNCHANGED <<sessions, members, used, work, req>>
    BY DEF IssueCode
  <1> HIDE DEF old, new
  <1>6. /\ codes' \in Seq(CodeRow) /\ Len(codes') = Len(codes) + 1
        /\ \A n \in DOMAIN codes : codes'[n] = Superseded(codes[n], u)
        /\ codes'[Len(codes) + 1] = new
    BY <1>1, <1>3, <1>4, <1>5, AppendProperties
  <1>7. /\ missed' \in Seq(Nat) /\ Len(missed') = Len(codes) + 1
        /\ \A n \in DOMAIN codes : missed'[n] = missed[n]
        /\ missed'[Len(codes) + 1] = 0
    BY <1>1, <1>5, AppendProperties DEF Inv, Shapes
  <1>8. DOMAIN codes' = 1..Len(codes) + 1
    BY <1>6
  <1>9. CodesInv'
    <2> SUFFICES ASSUME NEW n \in DOMAIN codes'
                 PROVE  /\ missed'[n] = codes'[n].attempts /\ codes'[n].attempts <= MaxAttempts
                        /\ ~codes'[n].consumed => codes'[n].attempts < MaxAttempts
      BY DEF CodesInv
    <2>1. CASE n \in DOMAIN codes
      BY <1>1, <1>6, <1>7, <2>1 DEF Inv, CodesInv, Superseded, CodeRow
    <2>2. CASE n = Len(codes) + 1
      BY <1>6, <1>7, <2>2, AccountsAssumption DEF new
    <2> QED
      BY <1>1, <1>8, <2>1, <2>2
  <1>10. \A n \in DOMAIN codes : n \in DOMAIN codes' /\ (codes[n].consumed => codes'[n].consumed)
    BY <1>1, <1>6, <1>8 DEF Superseded, CodeRow
  <1>11. ASSUME NEW q \in Requests, req[q].pc \in Claiming
         PROVE  codes'[req[q].code].email = req[q].user /\ ~codes'[req[q].code].consumed
    <2>1. req[q].code \in DOMAIN codes /\ codes[req[q].code].email = req[q].user /\ ~codes[req[q].code].consumed
      BY <1>11 DEF Inv, RequestsInv, Fits, Proven
    <2>2. req[q].user # u
      BY <1>5, <1>11 DEF EmailBusy
    <2> QED
      BY <1>6, <2>1, <2>2 DEF Superseded
  <1>12. req' \in [Requests -> RequestRow] /\ (\A q \in Requests : req'[q] = req[q])
         /\ \A q, p \in Requests : p # q => Apart(req[p], req[q])'
    BY <1>5 DEF Inv, Shapes, RequestsInv, Apart
  <1> QED
    BY <1>5, <1>6, <1>7, <1>9, <1>10, <1>11, <1>12, CodesStep

LEMMA RejectKeeps ==
  ASSUME Inv, NEW r \in Requests, VerifyRejected(r)
  PROVE  Inv'
  <1>1. /\ req[r].pc = "verify" /\ ~EmailBusy(req[r].user)
        /\ req' = [req EXCEPT ![r] = Idle] /\ UNCHANGED <<sessions, members, used, work>>
    BY DEF VerifyRejected
  <1>2. /\ req' \in [Requests -> RequestRow]
        /\ \A q \in Requests : req'[q] = IF q = r THEN Idle ELSE req[q]
        /\ \A q, p \in Requests : p # q => Apart(req[p], req[q])'
    BY <1>1, Ends
  <1>3. CASE UNCHANGED <<codes, missed>>
    <2>1. UNCHANGED <<account, work>>
      BY <1>1, <1>3 DEF account
    <2> QED
      BY <1>1, <2>1, IdleRow, RequestStep
  <1>4. ASSUME NEW n \in DOMAIN codes, Newest(r, n),
               codes' = [codes EXCEPT ![n].attempts = @ + 1, ![n].consumed = Dead(codes[n].attempts + 1)],
               missed' = [missed EXCEPT ![n] = @ + 1]
        PROVE  Inv'
    <2>0. codes[n].email = req[r].user /\ ~codes[n].consumed
      BY <1>4 DEF Newest, LiveCodes
    <2> DEFINE dead == Dead(codes[n].attempts + 1)
               row == [codes[n] EXCEPT !.attempts = @ + 1, !.consumed = dead]
    <2>1. /\ codes \in Seq(CodeRow) /\ missed \in Seq(Nat) /\ Len(missed) = Len(codes)
          /\ DOMAIN codes = 1..Len(codes) /\ DOMAIN missed = 1..Len(codes)
          /\ codes[n] \in CodeRow /\ missed[n] \in Nat
      BY DEF Inv, Shapes
    <2>a. dead \in BOOLEAN
      BY DEF Dead
    <2>b. ~dead => ~Dead(codes[n].attempts + 1)
      OBVIOUS
    <2>c. ASSUME NEW c \in CodeRow, NEW a \in Nat, NEW d \in BOOLEAN
          PROVE  [c EXCEPT !.attempts = a, !.consumed = d] \in CodeRow
      BY DEF CodeRow
    <2>2. row \in CodeRow
      <3>1. codes[n].attempts + 1 \in Nat
        BY <2>1 DEF CodeRow
      <3> QED
        BY <2>1, <2>a, <2>c, <3>1
    <2>3. codes' = [codes EXCEPT ![n] = row]
      BY <1>4, <2>1 DEF CodeRow
    <2> HIDE DEF dead
    <2>4. /\ row.email = codes[n].email /\ row.attempts = codes[n].attempts + 1
          /\ ~row.consumed => ~Dead(codes[n].attempts + 1)
      BY <2>1, <2>a, <2>b DEF CodeRow
    <2> HIDE DEF row
    <2>5. /\ codes' \in Seq(CodeRow) /\ Len(codes') = Len(codes) /\ DOMAIN codes' = DOMAIN codes
          /\ \A m \in DOMAIN codes : codes'[m] = IF m = n THEN row ELSE codes[m]
      BY <2>1, <2>2, <2>3, ExceptSeq
    <2>6. /\ missed' \in Seq(Nat) /\ Len(missed') = Len(codes)
          /\ \A m \in DOMAIN codes : missed'[m] = IF m = n THEN missed[n] + 1 ELSE missed[m]
      BY <1>4, <2>1, ExceptSeq
    <2>7. CodesInv'
      <3>1. codes[n].attempts < MaxAttempts /\ codes[n].attempts \in Nat /\ MaxAttempts \in Nat
        BY <2>0, <2>1, AccountsAssumption DEF Inv, CodesInv, CodeRow
      <3> SUFFICES ASSUME NEW m \in DOMAIN codes
                   PROVE  /\ missed'[m] = codes'[m].attempts /\ codes'[m].attempts <= MaxAttempts
                          /\ ~codes'[m].consumed => codes'[m].attempts < MaxAttempts
        BY <2>5 DEF CodesInv
      <3>2. CASE m = n
        BY <2>1, <2>4, <2>5, <2>6, <3>1, <3>2 DEF Inv, CodesInv, Dead
      <3>3. CASE m # n
        BY <2>5, <2>6, <3>3 DEF Inv, CodesInv
      <3> QED
        BY <3>2, <3>3
    <2>8. \A m \in DOMAIN codes : m \in DOMAIN codes' /\ (codes[m].consumed => codes'[m].consumed)
      BY <2>0, <2>5
    <2>9. ASSUME NEW q \in Requests, q # r, req[q].pc \in Claiming
          PROVE  codes'[req[q].code].email = req[q].user /\ ~codes'[req[q].code].consumed
      <3>1. req[q].code \in DOMAIN codes /\ codes[req[q].code].email = req[q].user /\ ~codes[req[q].code].consumed
        BY <2>9 DEF Inv, RequestsInv, Fits, Proven
      <3>2. req[q].user # req[r].user
        BY <1>1, <2>9 DEF EmailBusy
      <3> QED
        BY <2>0, <2>5, <3>1, <3>2
    <2> QED
      BY <1>1, <1>2, <2>5, <2>6, <2>7, <2>8, <2>9, CodesStep
  <1> QED
    BY <1>3, <1>4 DEF VerifyRejected

LEMMA ExpireCodeKeeps ==
  ASSUME Inv, NEW n \in DOMAIN codes, ExpireCode(n)
  PROVE  Inv'
  <1> DEFINE row == [codes[n] EXCEPT !.expired = TRUE]
  <1>1. codes \in Seq(CodeRow) /\ DOMAIN codes = 1..Len(codes) /\ codes[n] \in CodeRow
    BY DEF Inv, Shapes
  <1>2. row \in CodeRow /\ row.email = codes[n].email /\ row.attempts = codes[n].attempts /\ row.consumed = codes[n].consumed
    BY <1>1 DEF CodeRow
  <1>3. codes' = [codes EXCEPT ![n] = row] /\ UNCHANGED <<sessions, members, used, missed, work, req>>
    BY DEF ExpireCode
  <1> HIDE DEF row
  <1>4. /\ codes' \in Seq(CodeRow) /\ Len(codes') = Len(codes) /\ DOMAIN codes' = DOMAIN codes
        /\ \A m \in DOMAIN codes : codes'[m] = IF m = n THEN row ELSE codes[m]
    BY <1>1, <1>2, <1>3, ExceptSeq
  <1>5. CodesInv'
    BY <1>2, <1>3, <1>4 DEF Inv, CodesInv
  <1>6. \A q \in Requests : req[q].pc \in Claiming =>
          codes'[req[q].code].email = req[q].user /\ ~codes'[req[q].code].consumed
    BY <1>2, <1>4 DEF Inv, RequestsInv, Fits, Proven
  <1>7. req' \in [Requests -> RequestRow] /\ (\A q \in Requests : req'[q] = req[q])
        /\ \A q, p \in Requests : p # q => Apart(req[p], req[q])'
    BY <1>3 DEF Inv, Shapes, RequestsInv, Apart
  <1>8. missed' \in Seq(Nat) /\ Len(missed') = Len(codes')
    BY <1>3, <1>4 DEF Inv, Shapes
  <1> QED
    BY <1>2, <1>3, <1>4, <1>5, <1>6, <1>7, <1>8, CodesStep

(***************************************************************************)
(* The sessions or the memberships change.                                 *)
(***************************************************************************)

LEMMA HeldStep ==
  ASSUME Inv, sessions' \in Seq(SessionRow), DOMAIN sessions' = DOMAIN sessions,
         \A s \in DOMAIN sessions : sessions'[s].code = sessions[s].code,
         members' \in [Users -> Seq(MemberRow)],
         req' \in [Requests -> RequestRow],
         \A q \in Requests : req'[q] = Idle \/ (req'[q] = req[q] /\ Held(req[q])'),
         \A q, p \in Requests : p # q => Apart(req[p], req[q])',
         UNCHANGED <<codes, missed, used, work>>
  PROVE  Inv'
  <1>1. Shapes' /\ CodesInv' /\ SessionsInv' /\ CallsInv'
    BY DEF Inv, Shapes, work, OneOwner, Exists, CodesInv, SessionsInv, CallsInv
  <1>2. ASSUME NEW q \in Requests PROVE Fits(req[q])'
    <2>1. CASE req'[q] = Idle
      BY <2>1, AccountsAssumption DEF Idle, Fits, Proven, Found, Held, Verifying, Claiming
    <2>2. CASE req'[q] = req[q] /\ Held(req[q])'
      <3>1. Proven(req[q])' /\ Found(req[q])'
        BY <2>2 DEF Inv, RequestsInv, Fits, Proven, Found, Exists, work
      <3> QED
        BY <2>2, <3>1 DEF Fits
    <2> QED
      BY <2>1, <2>2
  <1> QED
    BY <1>1, <1>2 DEF Inv, RequestsInv

\* One row of the sessions changes, and no write holds it if its workspace changes or it is revoked.
LEMMA OneSession ==
  ASSUME Inv, NEW s \in DOMAIN sessions, NEW row \in SessionRow, row.code = sessions[s].code, row.user = sessions[s].user,
         Shared(s) => row.tenant = sessions[s].tenant /\ row.revoked = sessions[s].revoked,
         sessions' = [sessions EXCEPT ![s] = row],
         req' \in [Requests -> RequestRow], \A q \in Requests : req'[q] \in {Idle, req[q]},
         \A q, p \in Requests : p # q => Apart(req[p], req[q])',
         UNCHANGED <<codes, members, used, missed, work>>
  PROVE  Inv'
  <1>1. sessions \in Seq(SessionRow) /\ DOMAIN sessions = 1..Len(sessions)
    BY DEF Inv, Shapes
  <1>2. /\ sessions' \in Seq(SessionRow) /\ DOMAIN sessions' = DOMAIN sessions
        /\ \A q \in DOMAIN sessions : sessions'[q] = IF q = s THEN row ELSE sessions[q]
    BY <1>1, ExceptSeq
  <1>3. ASSUME NEW q \in Requests, req'[q] = req[q] PROVE Held(req[q])'
    <2>1. Held(req[q])
      BY DEF Inv, RequestsInv, Fits
    <2>2. req[q].pc = "writing" /\ req[q].session = s => Shared(s)
      BY DEF Shared
    <2>3. \A u, t : MayWrite(u, t)' <=> MayWrite(u, t)
      BY DEF MayWrite
    <2>4. req[q].pc \in {"signout", "writing"} => req[q].session \in DOMAIN sessions'
      BY <1>2, <2>1 DEF Held
    <2>5. ASSUME req[q].pc = "writing"
          PROVE  /\ req[q].user \in Users /\ req[q].tenant \in Tenants
                 /\ sessions'[req[q].session].user = req[q].user /\ sessions'[req[q].session].tenant = req[q].tenant
                 /\ ~sessions'[req[q].session].revoked /\ MayWrite(req[q].user, req[q].tenant)'
      <3>1. /\ req[q].session \in DOMAIN sessions /\ req[q].user \in Users /\ req[q].tenant \in Tenants
            /\ sessions[req[q].session].user = req[q].user /\ sessions[req[q].session].tenant = req[q].tenant
            /\ ~sessions[req[q].session].revoked /\ MayWrite(req[q].user, req[q].tenant)
        BY <2>1, <2>5 DEF Held
      <3>2. CASE req[q].session = s
        BY <1>2, <1>3, <2>2, <2>3, <2>5, <3>1, <3>2
      <3>3. CASE req[q].session # s
        BY <1>2, <1>3, <2>3, <3>1, <3>3
      <3> QED
        BY <3>2, <3>3
    <2> QED
      BY <1>3, <2>4, <2>5 DEF Held
  <1>4. members' \in [Users -> Seq(MemberRow)]
    BY DEF Inv, Shapes
  <1> QED
    BY <1>2, <1>3, <1>4, HeldStep

LEMMA SessionsKeep ==
  ASSUME Inv,
         \/ \E r \in Requests : SignOutEnd(r)
         \/ \E s \in DOMAIN sessions : ExpireSession(s) \/ \E t \in Tenants : SwitchTenant(s, t)
  PROVE  Inv'
  <1>1. \A s \in DOMAIN sessions : sessions[s] \in SessionRow
    BY DEF Inv, Shapes
  <1>2. req' = req => /\ req' \in [Requests -> RequestRow] /\ \A q \in Requests : req'[q] \in {Idle, req[q]}
                      /\ \A q, p \in Requests : p # q => Apart(req[p], req[q])'
    BY DEF Inv, Shapes, RequestsInv, Apart
  <1>3. ASSUME NEW r \in Requests, SignOutEnd(r) PROVE Inv'
    <2> DEFINE s == req[r].session
               row == [sessions[s] EXCEPT !.revoked = TRUE]
    <2>1. /\ req[r].pc = "signout" /\ ~Shared(s) /\ req' = [req EXCEPT ![r] = Idle]
          /\ sessions' = [sessions EXCEPT ![s].revoked = TRUE] /\ UNCHANGED <<codes, members, used, missed, work>>
      BY <1>3 DEF SignOutEnd
    <2>2. s \in DOMAIN sessions
      BY <2>1 DEF Inv, RequestsInv, Fits, Held
    <2>3. row \in SessionRow /\ row.code = sessions[s].code /\ row.user = sessions[s].user
      BY <1>1, <2>2 DEF SessionRow
    <2>4. sessions' = [sessions EXCEPT ![s] = row]
      BY <2>1
    <2>5. /\ req' \in [Requests -> RequestRow] /\ \A q \in Requests : req'[q] \in {Idle, req[q]}
          /\ \A q, p \in Requests : p # q => Apart(req[p], req[q])'
      BY <2>1, Ends
    <2> HIDE DEF s, row
    <2> QED
      BY <2>1, <2>2, <2>3, <2>4, <2>5, OneSession
  <1>4. ASSUME NEW s \in DOMAIN sessions, ExpireSession(s) PROVE Inv'
    <2> DEFINE row == [sessions[s] EXCEPT !.expired = TRUE]
    <2>1. /\ row \in SessionRow /\ row.code = sessions[s].code /\ row.user = sessions[s].user
          /\ row.tenant = sessions[s].tenant /\ row.revoked = sessions[s].revoked
      BY <1>1 DEF SessionRow
    <2>2. sessions' = [sessions EXCEPT ![s] = row] /\ UNCHANGED <<codes, members, used, missed, work, req>>
      BY <1>4 DEF ExpireSession
    <2> HIDE DEF row
    <2> QED
      BY <1>2, <2>1, <2>2, OneSession
  <1>5. ASSUME NEW s \in DOMAIN sessions, NEW t \in Tenants, SwitchTenant(s, t) PROVE Inv'
    <2> DEFINE row == [sessions[s] EXCEPT !.tenant = t]
    <2>1. row \in SessionRow /\ row.code = sessions[s].code /\ row.user = sessions[s].user
      BY <1>1 DEF SessionRow
    <2>2. ~Shared(s) /\ sessions' = [sessions EXCEPT ![s] = row] /\ UNCHANGED <<codes, members, used, missed, work, req>>
      BY <1>5 DEF SwitchTenant
    <2> HIDE DEF row
    <2> QED
      BY <1>2, <2>1, <2>2, OneSession
  <1> QED
    BY <1>3, <1>4, <1>5

\* The rows of one user change, and every membership a write holds keeps its right to write.
LEMMA OneMember ==
  ASSUME Inv, NEW u \in Users, NEW rows \in Seq(MemberRow),
         members' = [members EXCEPT ![u] = rows],
         \A t \in Tenants : SharedMember(u, t) /\ MayWrite(u, t) =>
           \E i \in DOMAIN rows : rows[i].tenant = t /\ rows[i].role \in {"admin", "operator"},
         UNCHANGED <<codes, sessions, used, missed, work, req>>
  PROVE  Inv'
  <1>1. members' \in [Users -> Seq(MemberRow)] /\ \A v \in Users : members'[v] = IF v = u THEN rows ELSE members[v]
    BY DEF Inv, Shapes
  <1>2. ASSUME NEW q \in Requests PROVE Held(req[q])'
    <2>1. Held(req[q])
      BY DEF Inv, RequestsInv, Fits
    <2>2. ASSUME req[q].pc = "writing" PROVE MayWrite(req[q].user, req[q].tenant)'
      <3>1. SharedMember(req[q].user, req[q].tenant)
        BY <2>2 DEF SharedMember
      <3>2. req[q].user \in Users /\ req[q].tenant \in Tenants /\ MayWrite(req[q].user, req[q].tenant)
        BY <2>1, <2>2 DEF Held
      <3> QED
        BY <1>1, <3>1, <3>2 DEF MayWrite
    <2> QED
      BY <2>1, <2>2 DEF Held
  <1>3. /\ req' \in [Requests -> RequestRow] /\ sessions' \in Seq(SessionRow)
        /\ \A q, p \in Requests : p # q => Apart(req[p], req[q])'
    BY DEF Inv, Shapes, RequestsInv, Apart
  <1> QED
    BY <1>1, <1>2, <1>3, HeldStep

LEMMA MembersKeep ==
  ASSUME Inv, NEW u \in Users, NEW t \in Tenants, Demote(u, t) \/ Remove(u, t) \/ Invite(u, t, "operator")
  PROVE  Inv'
  <1>1. /\ members[u] \in Seq(MemberRow) /\ Len(members[u]) \in Nat /\ DOMAIN members[u] = 1..Len(members[u])
        /\ \A i \in DOMAIN members[u] : members[u][i] \in MemberRow
    BY DEF Inv, Shapes
  <1>2. CASE Demote(u, t)
    <2> DEFINE row(i) == IF members[u][i].tenant = t THEN [members[u][i] EXCEPT !.role = "viewer"] ELSE members[u][i]
               rows == [i \in DOMAIN members[u] |-> row(i)]
    <2>1. \A i \in DOMAIN members[u] : row(i) \in MemberRow
      BY <1>1 DEF MemberRow
    <2>2. rows \in Seq(MemberRow) /\ DOMAIN rows = DOMAIN members[u]
      BY <1>1, <2>1, IsASeq
    <2>3. /\ ~SharedMember(u, t) /\ members' = [members EXCEPT ![u] = rows]
          /\ UNCHANGED <<codes, sessions, used, missed, work, req>>
      BY <1>2 DEF Demote, Inv, Shapes
    <2>4. ASSUME NEW o \in Tenants, SharedMember(u, o), MayWrite(u, o)
          PROVE  \E i \in DOMAIN rows : rows[i].tenant = o /\ rows[i].role \in {"admin", "operator"}
      <3>1. o # t
        BY <2>3, <2>4
      <3>2. PICK i \in DOMAIN members[u] : members[u][i].tenant = o /\ members[u][i].role \in {"admin", "operator"}
        BY <2>4 DEF MayWrite
      <3>3. rows[i] = members[u][i]
        BY <3>1, <3>2
      <3> QED
        BY <2>2, <3>2, <3>3
    <2>5. rows \in Seq(MemberRow)
      BY <2>2
    <2> HIDE DEF rows, row
    <2> QED
      BY <2>3, <2>4, <2>5, OneMember
  <1>3. CASE Remove(u, t)
    <2>1. PICK i \in DOMAIN members[u] : members[u][i].tenant = t /\ members' = [members EXCEPT ![u] = Without(@, i)]
      BY <1>3 DEF Remove
    <2> DEFINE rows == Without(members[u], i)
    <2>2. /\ ~SharedMember(u, t) /\ members' = [members EXCEPT ![u] = rows]
          /\ UNCHANGED <<codes, sessions, used, missed, work, req>>
      BY <1>3, <2>1 DEF Remove, Inv, Shapes
    <2>3. Len(members[u]) - 1 \in Nat
      BY <1>1
    <2>4. /\ DOMAIN rows = 1 .. Len(members[u]) - 1
          /\ \A n \in DOMAIN rows : rows[n] = IF n < i THEN members[u][n] ELSE members[u][n + 1]
      BY DEF Without
    <2>5. \A n \in 1 .. Len(members[u]) - 1 : (IF n < i THEN members[u][n] ELSE members[u][n + 1]) \in MemberRow
      BY <1>1
    <2>6. rows \in Seq(MemberRow)
      BY <2>3, <2>5, IsASeq DEF Without
    <2>7. ASSUME NEW o \in Tenants, SharedMember(u, o), MayWrite(u, o)
          PROVE  \E n \in DOMAIN rows : rows[n].tenant = o /\ rows[n].role \in {"admin", "operator"}
      <3>1. o # t
        BY <2>2, <2>7
      <3>2. PICK n \in DOMAIN members[u] : members[u][n].tenant = o /\ members[u][n].role \in {"admin", "operator"}
        BY <2>7 DEF MayWrite
      <3>3. n # i
        BY <2>1, <3>1, <3>2
      <3>4. CASE n < i
        <4>1. n \in DOMAIN rows /\ rows[n] = members[u][n]
          BY <1>1, <2>4, <3>4
        <4> QED
          BY <3>2, <4>1
      <3>5. CASE n > i
        <4>1. n - 1 \in DOMAIN rows /\ ~(n - 1 < i) /\ (n - 1) + 1 = n
          BY <1>1, <2>4, <3>5
        <4>2. rows[n - 1] = members[u][n]
          BY <2>4, <4>1
        <4> QED
          BY <3>2, <4>1, <4>2
      <3> QED
        BY <1>1, <3>3, <3>4, <3>5
    <2> HIDE DEF rows
    <2> QED
      BY <2>2, <2>6, <2>7, OneMember
  <1>4. CASE Invite(u, t, "operator")
    <2> DEFINE new == [tenant |-> t, role |-> "operator"]
               rows == Append(members[u], new)
    <2>1. members' = [members EXCEPT ![u] = rows] /\ UNCHANGED <<codes, sessions, used, missed, work, req>>
      BY <1>4 DEF Invite, Inv, Shapes
    <2>2. new \in MemberRow
      BY DEF MemberRow
    <2>3. /\ rows \in Seq(MemberRow) /\ DOMAIN members[u] \subseteq DOMAIN rows
          /\ \A i \in DOMAIN members[u] : rows[i] = members[u][i]
      BY <1>1, <2>2, AppendProperties
    <2> HIDE DEF rows
    <2>4. \A o \in Tenants : MayWrite(u, o) =>
            \E i \in DOMAIN rows : rows[i].tenant = o /\ rows[i].role \in {"admin", "operator"}
      BY <2>3 DEF MayWrite
    <2> QED
      BY <2>1, <2>3, <2>4, OneMember
  <1> QED
    BY <1>2, <1>3, <1>4

(***************************************************************************)
(* The builds and the calls change.                                        *)
(***************************************************************************)

LEMMA CreateKeeps ==
  ASSUME Inv, NEW r \in Requests, NEW b \in Builds, CreateEnd(r, b)
  PROVE  Inv'
  <1> DEFINE row == [tenant |-> req[r].tenant, anon |-> req[r].anon]
  <1>1. /\ req[r].pc = "create" /\ ~Exists(b)
        /\ build' = [build EXCEPT ![b] = row] /\ req' = [req EXCEPT ![r] = Idle]
        /\ UNCHANGED <<account, calls>>
    BY DEF CreateEnd
  <1>2. row \in OwnerType /\ (row.tenant = None) # (row.anon = None)
    <2>1. req[r] \in RequestRow /\ Found(req[r])
      BY DEF Inv, Shapes, RequestsInv, Fits
    <2> QED
      BY <1>1, <2>1 DEF RequestRow, OwnerType, Found
  <1> HIDE DEF row
  <1>3. /\ req' \in [Requests -> RequestRow]
        /\ \A q \in Requests : req'[q] = IF q = r THEN Idle ELSE req[q]
        /\ \A q, p \in Requests : p # q => Apart(req[p], req[q])'
    BY <1>1, Ends
  <1>4. build' \in [Builds -> OwnerType] /\ \A o \in Builds : build'[o] = IF o = b THEN row ELSE build[o]
    BY <1>1, <1>2 DEF Inv, Shapes
  <1>5. \A o \in Builds : Exists(o) => build'[o] = build[o]
    BY <1>1, <1>4
  <1>6. Shapes' /\ CodesInv' /\ SessionsInv'
    BY <1>1, <1>2, <1>3, <1>4 DEF Inv, Shapes, account, OneOwner, Exists, CodesInv, SessionsInv
  <1>7. CallsInv'
    <2> SUFFICES ASSUME NEW c \in calls, c.anon # None PROVE build'[c.build].anon = c.anon
      BY <1>1 DEF CallsInv
    <2>1. c.build \in Builds /\ build[c.build].anon = c.anon
      BY DEF Inv, Shapes, CallRow, CallsInv
    <2>2. Exists(c.build)
      BY <2>1 DEF Exists, NoBuild
    <2> QED
      BY <1>5, <2>1, <2>2
  <1>8. ASSUME NEW q \in Requests PROVE Fits(req[q])'
    <2>1. CASE req'[q] = Idle
      BY <2>1, AccountsAssumption DEF Idle, Fits, Proven, Found, Held, Verifying, Claiming
    <2>2. CASE q # r
      <3>1. req'[q] = req[q] /\ Fits(req[q]) /\ req[q] \in RequestRow
        BY <1>3, <2>2 DEF Inv, Shapes, RequestsInv
      <3>2. Proven(req[q])' /\ Held(req[q])'
        BY <1>1, <3>1 DEF Fits, Proven, Held, MayWrite, account
      <3>3. \A o \in Builds : Exists(o) => Exists(o)'
        BY <1>5 DEF Exists
      <3>4. \A o \in Builds : build[o].anon # None => build'[o] = build[o]
        BY <1>5 DEF Exists, NoBuild
      <3>5. Found(req[q])'
        BY <1>5, <3>1, <3>3, <3>4 DEF Fits, Found, RequestRow
      <3> QED
        BY <3>2, <3>5 DEF Fits
    <2> QED
      BY <1>3, <2>1, <2>2
  <1> QED
    BY <1>3, <1>6, <1>7, <1>8 DEF Inv, RequestsInv

LEMMA InsertKeeps ==
  ASSUME Inv, NEW r \in Requests, MeterInsert(r)
  PROVE  Inv'
  <1> DEFINE new == {[build |-> b, tenant |-> req[r].tenant, anon |-> req[r].anon] : b \in req[r].rows}
  <1>1. /\ req[r].pc = "metered" /\ calls' = calls \cup new /\ req' = [req EXCEPT ![r] = Idle]
        /\ UNCHANGED <<account, build>>
    BY DEF MeterInsert
  <1>2. req[r] \in RequestRow /\ Found(req[r])
    BY DEF Inv, Shapes, RequestsInv, Fits
  <1>3. new \subseteq CallRow /\ \A c \in new : c.anon # None => build[c.build].anon = c.anon
    BY <1>1, <1>2 DEF RequestRow, CallRow, Found
  <1> HIDE DEF new
  <1>4. /\ req' \in [Requests -> RequestRow]
        /\ \A q \in Requests : req'[q] = IF q = r THEN Idle ELSE req[q]
        /\ \A q, p \in Requests : p # q => Apart(req[p], req[q])'
    BY <1>1, Ends
  <1>5. Shapes' /\ CodesInv' /\ SessionsInv' /\ CallsInv'
    BY <1>1, <1>3, <1>4 DEF Inv, Shapes, account, OneOwner, Exists, CodesInv, SessionsInv, CallsInv
  <1>6. ASSUME NEW q \in Requests PROVE Fits(req[q])'
    <2>1. Fits(req'[q])
      BY <1>4, IdleRow DEF Inv, RequestsInv
    <2> QED
      BY <1>1, <2>1 DEF account, Fits, Proven, Found, Held, Exists, MayWrite
  <1> QED
    BY <1>4, <1>5, <1>6 DEF Inv, RequestsInv

\* The claim commits: the one transaction that writes every table.
LEMMA ClaimKeeps ==
  ASSUME Inv, NEW r \in Requests, ClaimCommit(r)
  PROVE  Inv'
  <1> DEFINE u == req[r].user
             t == req[r].tenant
             h == req[r].anon
             k == req[r].code
             begun == [user |-> u, tenant |-> t, revoked |-> FALSE, expired |-> FALSE, code |-> k]
             spent == [codes[k] EXCEPT !.consumed = TRUE]
  <1>1. /\ req[r].pc = "move"
        /\ codes' = [codes EXCEPT ![k].consumed = TRUE]
        /\ \E rows \in Joined(r) : members' = [members EXCEPT ![u] = rows]
        /\ used' = used \cup {t}
        /\ sessions' = Append(sessions, begun)
        /\ build' = [b \in Builds |-> IF b \in req[r].rows THEN [tenant |-> t, anon |-> None] ELSE build[b]]
        /\ calls' = {Moved(c, h, t) : c \in calls}
        /\ req' = [req EXCEPT ![r] = Idle] /\ missed' = missed
    BY DEF ClaimCommit
  <1>2. /\ req[r] \in RequestRow /\ u \in Users /\ t \in Tenants
        /\ k \in DOMAIN codes /\ codes[k].email = u /\ ~codes[k].consumed
        /\ \A b \in req[r].rows : h # None /\ build[b].anon = h
    BY <1>1 DEF Inv, Shapes, RequestsInv, Fits, Proven, Found, Verifying, Claiming
  <1>3. /\ req' \in [Requests -> RequestRow]
        /\ \A q \in Requests : req'[q] = IF q = r THEN Idle ELSE req[q]
        /\ \A q, p \in Requests : p # q => Apart(req[p], req[q])'
    BY <1>1, Ends
  <1>4. /\ codes \in Seq(CodeRow) /\ DOMAIN codes = 1..Len(codes) /\ codes[k] \in CodeRow
        /\ sessions \in Seq(SessionRow) /\ Len(sessions) \in Nat /\ DOMAIN sessions = 1..Len(sessions)
    BY <1>2 DEF Inv, Shapes
  <1>5. /\ codes' \in Seq(CodeRow) /\ Len(codes') = Len(codes) /\ DOMAIN codes' = DOMAIN codes
        /\ \A n \in DOMAIN codes : codes'[n] = IF n = k THEN spent ELSE codes[n]
    <2>1. spent \in CodeRow /\ codes' = [codes EXCEPT ![k] = spent]
      BY <1>1, <1>2, <1>4 DEF CodeRow
    <2> HIDE DEF spent
    <2> QED
      BY <1>2, <1>4, <2>1, ExceptSeq
  <1>6. spent.email = codes[k].email /\ spent.attempts = codes[k].attempts /\ spent.consumed
    BY <1>4 DEF CodeRow
  <1> HIDE DEF spent
  <1>7. CodesInv'
    BY <1>1, <1>2, <1>5, <1>6 DEF Inv, CodesInv
  <1>8. begun \in SessionRow /\ begun.code = k /\ begun.user = u
    BY <1>2 DEF SessionRow, RequestRow
  <1> HIDE DEF begun
  <1>9. /\ sessions' \in Seq(SessionRow) /\ DOMAIN sessions' = 1..Len(sessions) + 1
        /\ \A s \in DOMAIN sessions : sessions'[s] = sessions[s]
        /\ sessions'[Len(sessions) + 1] = begun
    BY <1>1, <1>4, <1>8, AppendProperties
  <1>10. \A s \in DOMAIN sessions : sessions[s].code # k
    BY <1>2 DEF Inv, SessionsInv
  <1>11. SessionsInv'
    <2>1. ASSUME NEW s \in DOMAIN sessions' PROVE sessions'[s].code \in DOMAIN codes' /\ codes'[sessions'[s].code].consumed
      <3>1. CASE s \in DOMAIN sessions
        BY <1>5, <1>6, <1>9, <3>1 DEF Inv, SessionsInv
      <3>2. CASE s = Len(sessions) + 1
        BY <1>2, <1>5, <1>6, <1>8, <1>9, <3>2
      <3> QED
        BY <1>4, <1>9, <3>1, <3>2
    <2>2. ASSUME NEW s \in DOMAIN sessions', NEW q \in DOMAIN sessions', sessions'[s].code = sessions'[q].code PROVE s = q
      <3>1. s \in DOMAIN sessions \/ s = Len(sessions) + 1
        BY <1>4, <1>9
      <3>2. q \in DOMAIN sessions \/ q = Len(sessions) + 1
        BY <1>4, <1>9
      <3> QED
        BY <1>8, <1>9, <1>10, <2>2, <3>1, <3>2 DEF Inv, SessionsInv
    <2> QED
      BY <2>1, <2>2 DEF SessionsInv
  <1>12. /\ build' \in [Builds -> OwnerType]
         /\ \A b \in Builds : build'[b] = IF b \in req[r].rows THEN [tenant |-> t, anon |-> None] ELSE build[b]
         /\ \A b \in Builds : Exists(b) => Exists(b)'
         /\ OneOwner'
    <2>1. \A b \in Builds : build'[b] = IF b \in req[r].rows THEN [tenant |-> t, anon |-> None] ELSE build[b]
      BY <1>1
    <2>2. build' \in [Builds -> OwnerType]
      BY <1>1, <1>2 DEF Inv, Shapes, OwnerType
    <2>3. \A b \in Builds : Exists(b) => Exists(b)'
      BY <1>2, <2>1, AccountsAssumption DEF Exists, NoBuild
    <2>4. t # None
      BY <1>2, AccountsAssumption
    <2>5. OneOwner'
      <3> SUFFICES ASSUME NEW b \in Builds, build'[b] # NoBuild PROVE (build'[b].tenant = None) # (build'[b].anon = None)
        BY DEF OneOwner, Exists, NoBuild
      <3>1. CASE b \in req[r].rows
        BY <2>1, <2>4, <3>1
      <3>2. CASE b \notin req[r].rows
        BY <2>1, <3>2 DEF Inv, Shapes, OneOwner, Exists
      <3> QED
        BY <3>1, <3>2
    <2> QED
      BY <2>1, <2>2, <2>3, <2>5
  <1>13. calls' \subseteq CallRow /\ CallsInv'
    <2> SUFFICES ASSUME NEW c \in calls
                 PROVE  /\ Moved(c, h, t) \in CallRow
                        /\ Moved(c, h, t).anon # None => build'[Moved(c, h, t).build].anon = Moved(c, h, t).anon
      BY <1>1 DEF CallsInv
    <2>1. c \in CallRow /\ (c.anon # None => build[c.build].anon = c.anon)
      BY DEF Inv, Shapes, CallsInv
    <2>2. CASE c.anon = h /\ h # None
      BY <1>2, <2>1, <2>2 DEF Moved, CallRow
    <2>3. CASE ~(c.anon = h /\ h # None)
      <3>1. Moved(c, h, t) = c
        BY <2>3 DEF Moved
      <3>2. c.anon # None => c.build \notin req[r].rows
        BY <1>2, <2>1, <2>3
      <3> QED
        BY <1>12, <2>1, <3>1, <3>2 DEF CallRow
    <2> QED
      BY <2>2, <2>3
  <1>14. /\ members' \in [Users -> Seq(MemberRow)]
         /\ \A v, o : v \in Users /\ MayWrite(v, o) => MayWrite(v, o)'
    <2> DEFINE own == [tenant |-> t, role |-> "admin"]
    <2>1. own \in MemberRow /\ members \in [Users -> Seq(MemberRow)] /\ members[u] \in Seq(MemberRow)
      BY <1>2 DEF MemberRow, Inv, Shapes
    <2>2. PICK rows : /\ members' = [members EXCEPT ![u] = rows]
                      /\ \/ rows = <<own>> \o members[u]
                         \/ rows = Append(members[u], own)
                         \/ rows = members[u]
      BY <1>1 DEF Joined
    <2> HIDE DEF own
    <2>3. rows \in Seq(MemberRow)
      <3>1. <<own>> \in Seq(MemberRow)
        BY <2>1
      <3>2. <<own>> \o members[u] \in Seq(MemberRow)
        BY <2>1, <3>1, ConcatProperties
      <3>3. Append(members[u], own) \in Seq(MemberRow)
        BY <2>1, AppendProperties
      <3> QED
        BY <2>1, <2>2, <3>2, <3>3
    <2>4. \A i \in DOMAIN members[u] : \E j \in DOMAIN rows : rows[j] = members[u][i]
      <3> SUFFICES ASSUME NEW i \in DOMAIN members[u] PROVE \E j \in DOMAIN rows : rows[j] = members[u][i]
        OBVIOUS
      <3>1. i \in Nat /\ i >= 1 /\ i <= Len(members[u]) /\ Len(members[u]) \in Nat
        BY <2>1
      <3>2. CASE rows = <<own>> \o members[u]
        <4>1. Len(rows) = Len(members[u]) + 1 /\ rows[i + 1] = members[u][i]
          BY <2>1, <3>1, <3>2
        <4> QED
          BY <2>3, <3>1, <4>1
      <3>3. CASE rows = Append(members[u], own)
        <4>1. Len(rows) = Len(members[u]) + 1 /\ rows[i] = members[u][i]
          BY <2>1, <3>1, <3>3
        <4> QED
          BY <2>3, <3>1, <4>1
      <3> QED
        BY <2>2, <3>2, <3>3
    <2>5. \A v \in Users : members'[v] = IF v = u THEN rows ELSE members[v]
      BY <2>1, <2>2
    <2>6. members' \in [Users -> Seq(MemberRow)]
      BY <2>1, <2>2, <2>3
    <2>7. ASSUME NEW v \in Users, NEW o, MayWrite(v, o) PROVE MayWrite(v, o)'
      <3>1. CASE v = u
        <4>1. PICK i \in DOMAIN members[u] : members[u][i].tenant = o /\ members[u][i].role \in {"admin", "operator"}
          BY <2>7, <3>1 DEF MayWrite
        <4>2. PICK j \in DOMAIN rows : rows[j] = members[u][i]
          BY <2>4, <4>1
        <4>3. members'[v] = rows
          BY <2>5, <2>7, <3>1
        <4> QED
          BY <4>1, <4>2, <4>3 DEF MayWrite
      <3>2. CASE v # u
        BY <2>5, <2>7, <3>2 DEF MayWrite
      <3> QED
        BY <3>1, <3>2
    <2> QED
      BY <2>6, <2>7
  <1>15. Shapes'
    BY <1>1, <1>2, <1>3, <1>5, <1>9, <1>12, <1>13, <1>14 DEF Inv, Shapes
  <1>16. ASSUME NEW q \in Requests PROVE Fits(req[q])'
    <2>1. CASE q = r
      <3>1. req'[q] = Idle
        BY <1>3, <2>1
      <3> QED
        BY <3>1, AccountsAssumption DEF Idle, Fits, Proven, Found, Held, Verifying, Claiming
    <2>2. CASE q # r
      <3>1. req'[q] = req[q] /\ Fits(req[q]) /\ req[q] \in RequestRow /\ Apart(req[r], req[q])
        BY <1>3, <2>2 DEF Inv, Shapes, RequestsInv
      <3>2. Proven(req[q])'
        <4>1. req[q].pc \in Claiming => req[q].code # k
          BY <1>1, <1>2, <3>1 DEF Fits, Proven, Apart, Claiming
        <4> QED
          BY <1>5, <3>1, <4>1 DEF Fits, Proven
      <3>3. Found(req[q])'
        <4>1. req[q].pc = "move" => \A b \in req[q].rows : b \in Builds /\ b \notin req[r].rows
          BY <1>1, <3>1 DEF Apart, RequestRow
        <4>2. req[q].pc = "metered" => req[q].build \in Builds /\ req[q].build \notin req[r].rows
          BY <1>1, <3>1 DEF Apart, Fits, Found
        <4> QED
          BY <1>12, <3>1, <4>1, <4>2 DEF Fits, Found
      <3>4. Held(req[q])'
        <4>1. \A s \in DOMAIN sessions : s \in DOMAIN sessions'
          BY <1>4, <1>9
        <4> QED
          BY <1>9, <1>14, <3>1, <4>1 DEF Fits, Held
      <3> QED
        BY <3>2, <3>3, <3>4 DEF Fits
    <2> QED
      BY <2>1, <2>2
  <1> QED
    BY <1>3, <1>7, <1>11, <1>13, <1>15, <1>16 DEF Inv, RequestsInv

(***************************************************************************)
(* The theorems.                                                           *)
(***************************************************************************)

LEMMA Initially == Init => Inv
  <1> SUFFICES ASSUME Init PROVE Inv
    OBVIOUS
  <1>1. Shapes
    BY IdleRow, AccountsAssumption DEF Init, Shapes, OneOwner, Exists, NoBuild, OwnerType
  <1>2. CodesInv /\ SessionsInv /\ CallsInv
    BY DEF Init, CodesInv, SessionsInv, CallsInv
  <1>3. \A r \in Requests : req[r] = Idle
    BY DEF Init
  <1> QED
    BY <1>1, <1>2, <1>3, IdleRow DEF Inv, RequestsInv

LEMMA Inductive == Inv /\ [Next]_vars => Inv'
  <1> SUFFICES ASSUME Inv, [Next]_vars PROVE Inv'
    OBVIOUS
  <1>1. CASE UNCHANGED vars
    BY <1>1 DEF vars, account, work, Inv, Shapes, OneOwner, Exists, CodesInv, SessionsInv, CallsInv,
                RequestsInv, Fits, Proven, Found, Held, MayWrite, Apart
  <1>2. CASE Outside
    BY <1>2, IssueKeeps, ExpireCodeKeeps, SessionsKeep, MembersKeep DEF Outside
  <1>3. ASSUME NEW r \in Requests, SignIn(r) PROVE Inv'
    BY <1>3, SignInSteps, RejectKeeps, ClaimKeeps DEF SignIn
  <1>4. ASSUME NEW r \in Requests, SessionUse(r) PROVE Inv'
    BY <1>4, SessionSteps, SessionsKeep DEF SessionUse
  <1>5. ASSUME NEW r \in Requests, BuildUse(r) PROVE Inv'
    BY <1>5, BuildSteps, CreateKeeps, InsertKeeps DEF BuildUse
  <1> QED
    BY <1>1, <1>2, <1>3, <1>4, <1>5 DEF Next

LEMMA Always == Spec => []Inv
  BY Initially, Inductive, PTL DEF Spec

\* Whatever races: one owner per build, every call of a claimed build charged to its tenant,
\* and no code that answers more wrong guesses or opens more sessions than it may
\* (verifyCode, claimedBuilds, llmCallsInserter).
THEOREM AccountsCorrect == Spec => []AccountsSound
  <1>1. Inv => TypeOK
    BY DEF Inv, Shapes, TypeOK, OneOwner, CodeRow, SessionRow, MemberRow, CallRow
  <1>2. Inv => GuessesBounded
    BY DEF Inv, CodesInv, SessionsInv, GuessesBounded
  <1>3. Inv => SpendClaimed
    <2> SUFFICES ASSUME Inv, NEW c \in calls, build[c.build].tenant # None, c.anon # None PROVE FALSE
      BY DEF SpendClaimed
    <2>1. c.build \in Builds /\ build[c.build].anon # None
      BY DEF Inv, Shapes, CallsInv, CallRow
    <2> QED
      BY <2>1 DEF Inv, Shapes, OneOwner, Exists, NoBuild
  <1> QED
    BY <1>1, <1>2, <1>3, Always, PTL DEF AccountsSound

\* A write commits only with a session that is still open, in the workspace that is still its
\* own, by a member who may write there; a message is stored only for who holds the build at
\* that moment (withAuthorizedWrite, submitUserMessage).
THEOREM RequestsAreFenced == Spec => RequestsFenced
  <1>1. ASSUME Inv, [Next]_vars, NEW r \in Requests, req[r].pc = "writing", req'[r].pc = "wrote" PROVE WriteEnd(r)
    <2>1. req \in [Requests -> RequestRow]
      BY <1>1 DEF Inv, Shapes
    <2>2. ~UNCHANGED vars
      BY <1>1 DEF vars
    <2>3. ~Outside
      BY <1>1 DEF Outside, IssueCode, ExpireSession, SwitchTenant, ExpireCode, Demote, Remove, Invite
    <2>4. ASSUME NEW q \in Requests, SignIn(q) PROVE FALSE
      BY <1>1, <2>1, <2>4 DEF SignIn, VerifyBegin, VerifyRejected, VerifyMatch, ClaimScan, ClaimBuilds, ClaimCommit, ClaimAbort, Idle, Claiming
    <2>5. ASSUME NEW q \in Requests, BuildUse(q) PROVE FALSE
      <3>1. ~(\E s \in Tokens, h \in Cookies : CreateBegin(q, s, h))
        BY <1>1, <2>1 DEF CreateBegin, Idle
      <3>2. ~(\E b \in Builds, s \in Tokens, h \in Cookies : PostBegin(q, b, s, h))
        BY <1>1, <2>1 DEF PostBegin, Idle
      <3>3. ~(\E b \in Builds : CreateEnd(q, b) \/ Charge(q, b))
        BY <1>1, <2>1 DEF CreateEnd, Charge, Idle
      <3>4. ~PostEnd(q) /\ ~Posted(q) /\ ~Refuse(q)
        BY <1>1, <2>1 DEF PostEnd, Posted, Refuse, Idle
      <3>5. ~MeterLock(q) /\ ~MeterInsert(q)
        BY <1>1, <2>1 DEF MeterLock, MeterInsert, Idle
      <3> QED
        BY <2>5, <3>1, <3>2, <3>3, <3>4, <3>5 DEF BuildUse
    <2>6. ASSUME NEW q \in Requests, SessionUse(q), ~WriteEnd(r) PROVE FALSE
      <3>1. ~(\E s \in DOMAIN sessions : SignOutBegin(q, s))
        BY <1>1, <2>1 DEF SignOutBegin, Idle
      <3>2. ~(\E s \in DOMAIN sessions, t \in Tenants : WriteBegin(q, s, t))
        BY <1>1, <2>1 DEF WriteBegin, Idle
      <3>3. ~SignOutEnd(q) /\ ~Wrote(q)
        BY <1>1, <2>1 DEF SignOutEnd, Wrote, Idle
      <3>4. WriteEnd(q) => q = r
        BY <1>1, <2>1 DEF WriteEnd
      <3> QED
        BY <2>6, <3>1, <3>2, <3>3, <3>4 DEF SessionUse
    <2> QED
      BY <1>1, <2>2, <2>3, <2>4, <2>5, <2>6 DEF Next
  <1>2. Inv /\ [Next]_vars => WritesFenced
    <2> SUFFICES ASSUME Inv, [Next]_vars, NEW r \in Requests, req[r].pc = "writing", req'[r].pc = "wrote"
                 PROVE  LET s == sessions[req[r].session] IN
                        ~s.revoked /\ ~s.expired /\ s.tenant = req[r].tenant /\ MayWrite(s.user, s.tenant)
      BY DEF WritesFenced
    <2>1. WriteEnd(r) /\ Held(req[r]) /\ req \in [Requests -> RequestRow]
      BY <1>1 DEF Inv, Shapes, RequestsInv, Fits
    <2>2. ~sessions[req[r].session].expired
      BY <2>1 DEF WriteEnd, Idle
    <2> QED
      BY <2>1, <2>2 DEF Held
  <1>3. ASSUME Inv, [Next]_vars, NEW r \in Requests, req[r].pc = "post", req'[r].pc = "posted" PROVE PostEnd(r)
    <2>1. req \in [Requests -> RequestRow]
      BY <1>3 DEF Inv, Shapes
    <2>2. ~UNCHANGED vars
      BY <1>3 DEF vars
    <2>3. ~Outside
      BY <1>3 DEF Outside, IssueCode, ExpireSession, SwitchTenant, ExpireCode, Demote, Remove, Invite
    <2>4. ASSUME NEW q \in Requests, SignIn(q) PROVE FALSE
      BY <1>3, <2>1, <2>4 DEF SignIn, VerifyBegin, VerifyRejected, VerifyMatch, ClaimScan, ClaimBuilds, ClaimCommit, ClaimAbort, Idle, Claiming
    <2>5. ASSUME NEW q \in Requests, SessionUse(q) PROVE FALSE
      BY <1>3, <2>1, <2>5 DEF SessionUse, SignOutBegin, SignOutEnd, WriteBegin, WriteEnd, Wrote, Idle
    <2>6. ASSUME NEW q \in Requests, BuildUse(q), ~PostEnd(r) PROVE FALSE
      <3>1. ~(\E s \in Tokens, h \in Cookies : CreateBegin(q, s, h))
        BY <1>3, <2>1 DEF CreateBegin, Idle
      <3>2. ~(\E b \in Builds, s \in Tokens, h \in Cookies : PostBegin(q, b, s, h))
        BY <1>3, <2>1 DEF PostBegin, Idle
      <3>3. ~(\E b \in Builds : CreateEnd(q, b) \/ Charge(q, b))
        BY <1>3, <2>1 DEF CreateEnd, Charge, Idle
      <3>4. ~Posted(q) /\ ~MeterLock(q) /\ ~MeterInsert(q) /\ ~Refuse(q)
        BY <1>3, <2>1 DEF Posted, MeterLock, MeterInsert, Refuse, Idle
      <3>5. PostEnd(q) => q = r
        BY <1>3, <2>1 DEF PostEnd
      <3> QED
        BY <2>6, <3>1, <3>2, <3>3, <3>4, <3>5 DEF BuildUse
    <2> QED
      BY <1>3, <2>2, <2>3, <2>4, <2>5, <2>6 DEF Next
  <1>4. Inv /\ [Next]_vars => PostsFenced
    <2> SUFFICES ASSUME Inv, [Next]_vars, NEW r \in Requests, req[r].pc = "post", req'[r].pc = "posted"
                 PROVE  \/ build[req[r].build].tenant # None /\ build[req[r].build].tenant = req[r].tenant
                        \/ build[req[r].build].tenant = None /\ build[req[r].build].anon = req[r].anon
      BY DEF PostsFenced
    <2>1. PostEnd(r) /\ req \in [Requests -> RequestRow]
      BY <1>3 DEF Inv, Shapes
    <2>2. Holds(r)
      BY <2>1 DEF PostEnd, Idle
    <2> QED
      BY <2>2 DEF Holds, OwnedBy
  <1> QED
    BY <1>2, <1>4, Always, PTL DEF Spec, RequestsFenced

(***************************************************************************)
(* PortalCalls.  The invariant follows one visit: the header on its way    *)
(* carries what the browser's store holds, the token of a call underway    *)
(* outlasts the margin that was left when the call began, so the gateway   *)
(* still believes the address, and what was charged is the visitor.        *)
(***************************************************************************)
(***************************************************************************)
(* Cookies.                                                                *)
(***************************************************************************)

\* The header has one pair of the name, with this value; none when it is empty.
Carries(H, name, value) ==
  /\ value = "" => \A i \in DOMAIN H : H[i][1] # name
  /\ value # "" => \E i \in DOMAIN H : H[i] = <<name, value>> /\ \A j \in DOMAIN H : H[j][1] = name => j = i

\* A name that stands in a header at most once is read from there.
LEMMA ValueOf ==
  ASSUME NEW H, DOMAIN H \subseteq Nat \ {0}, NEW name, NEW P, NEW value, Carries(H, name, value)
  PROVE  ValueAt(H, First(H, name, P)) = IF value \in P THEN "" ELSE value
  <1>3. CASE value = ""
    <2>1. Places(H, name, P) = {}
      BY <1>3 DEF Places, Carries
    <2> QED
      BY <1>3, <2>1 DEF ValueAt, First
  <1>4. CASE value # ""
    <2>1. PICK i \in DOMAIN H : H[i] = <<name, value>> /\ \A j \in DOMAIN H : H[j][1] = name => j = i
      BY <1>4 DEF Carries
    <2>2. H[i][1] = name /\ H[i][2] = value
      BY <2>1
    <2>3. CASE value \in P
      <3>1. Places(H, name, P) = {}
        BY <2>1, <2>2, <2>3 DEF Places
      <3> QED
        BY <2>3, <3>1 DEF ValueAt, First
    <2>4. CASE value \notin P
      <3>1. Places(H, name, P) = {i}
        BY <2>1, <2>2, <2>4 DEF Places
      <3>2. i \in Nat /\ i # 0 /\ i <= i
        OBVIOUS
      <3>3. First(H, name, P) = i
        BY <3>1, <3>2 DEF First
      <3> QED
        BY <2>2, <2>4, <3>2, <3>3 DEF ValueAt
    <2> QED
      BY <2>3, <2>4
  <1> QED
    BY <1>3, <1>4

\* A sequence of one or no pair carries that pair.
LEMMA PairCarries ==
  ASSUME NEW name, NEW value, NEW S, <<name, value>> \in S
  PROVE  /\ Pair(name, value) \in Seq(S)
         /\ Carries(Pair(name, value), name, value)
         /\ \A other : other # name => Carries(Pair(name, value), other, "")
  <1>1. CASE value = ""
    <2>1. PICK H : H = <<>>
      OBVIOUS
    <2>2. Pair(name, value) = H
      BY <1>1, <2>1 DEF Pair
    <2>3. H \in Seq(S) /\ Len(H) = 0
      BY <2>1
    <2>4. \A i \in DOMAIN H : FALSE
      BY <2>3, LenProperties
    <2> QED
      BY <1>1, <2>2, <2>3, <2>4 DEF Carries
  <1>2. CASE value # ""
    <2>1. PICK H : H = << <<name, value>> >>
      OBVIOUS
    <2>2. Pair(name, value) = H
      BY <1>2, <2>1 DEF Pair
    <2>3. H \in Seq(S)
      BY <2>1
    <2>4. DOMAIN H = {1} /\ H[1] = <<name, value>>
      BY <2>1
    <2>5. H[1][1] = name /\ H[1][2] = value
      BY <2>4
    <2> QED
      BY <1>2, <2>2, <2>3, <2>4, <2>5 DEF Carries
  <1> QED
    BY <1>1, <1>2

\* Joined headers carry what one of them does and the other does not name.
LEMMA JoinCarries ==
  ASSUME NEW S, NEW p \in Seq(S), NEW q \in Seq(S), NEW name, NEW value
  PROVE  /\ p \o q \in Seq(S)
         /\ Carries(p, name, value) /\ Carries(q, name, "") => Carries(p \o q, name, value)
         /\ Carries(p, name, "") /\ Carries(q, name, value) => Carries(p \o q, name, value)
  <1>1. PICK H \in Seq(S) : H = p \o q
    BY ConcatProperties
  <1>2. Len(H) = Len(p) + Len(q) /\ Len(p) \in Nat /\ Len(q) \in Nat
    BY <1>1, ConcatProperties, LenProperties
  <1>3. DOMAIN H = 1 .. Len(H) /\ DOMAIN p = 1 .. Len(p) /\ DOMAIN q = 1 .. Len(q)
    BY LenProperties
  <1>4. \A i \in DOMAIN H : IF i <= Len(p) THEN i \in DOMAIN p /\ H[i] = p[i]
                                           ELSE i - Len(p) \in DOMAIN q /\ H[i] = q[i - Len(p)]
    BY <1>1, <1>2, <1>3, ConcatProperties
  <1>5. \A i \in DOMAIN p : i \in DOMAIN H /\ H[i] = p[i]
    BY <1>2, <1>3, <1>4
  <1>6. \A i \in DOMAIN q : i + Len(p) \in DOMAIN H /\ H[i + Len(p)] = q[i] /\ ~(i + Len(p) <= Len(p))
    BY <1>2, <1>3, <1>4
  <1>7. ASSUME Carries(p, name, value), Carries(q, name, "") PROVE Carries(H, name, value)
    <2>1. \A j \in DOMAIN H : H[j][1] = name => j <= Len(p) /\ j \in DOMAIN p /\ H[j] = p[j]
      BY <1>4, <1>7 DEF Carries
    <2>2. CASE value = ""
      BY <1>7, <2>1, <2>2 DEF Carries
    <2>3. CASE value # ""
      <3>1. PICK i \in DOMAIN p : p[i] = <<name, value>> /\ \A j \in DOMAIN p : p[j][1] = name => j = i
        BY <1>7, <2>3 DEF Carries
      <3>2. i \in DOMAIN H /\ H[i] = <<name, value>>
        BY <1>5, <3>1
      <3>3. \A j \in DOMAIN H : H[j][1] = name => j = i
        BY <2>1, <3>1
      <3> QED
        BY <2>3, <3>2, <3>3 DEF Carries
    <2> QED
      BY <2>2, <2>3
  <1>8. ASSUME Carries(p, name, ""), Carries(q, name, value) PROVE Carries(H, name, value)
    <2>1. \A j \in DOMAIN H : H[j][1] = name => j - Len(p) \in DOMAIN q /\ H[j] = q[j - Len(p)]
      BY <1>4, <1>8 DEF Carries
    <2>2. CASE value = ""
      BY <1>8, <2>1, <2>2 DEF Carries
    <2>3. CASE value # ""
      <3>1. PICK i \in DOMAIN q : q[i] = <<name, value>> /\ \A j \in DOMAIN q : q[j][1] = name => j = i
        BY <1>8, <2>3 DEF Carries
      <3>2. i + Len(p) \in DOMAIN H /\ H[i + Len(p)] = <<name, value>>
        BY <1>6, <3>1
      <3>3. \A j \in DOMAIN H : H[j][1] = name => j = i + Len(p)
        BY <1>2, <1>3, <2>1, <3>1
      <3> QED
        BY <2>3, <3>2, <3>3 DEF Carries
    <2> QED
      BY <2>2, <2>3
  <1> QED
    BY <1>1, <1>7, <1>8

\* What a browser with this store sends on a visit of this kind.
CookiesOf(kind, store) == IF kind \in {"direct", "stream"} THEN <<Other>> \o Header(store) ELSE Header(store)

\* A header has each of its store's values, once, and nothing else under those names.
LEMMA HeaderCarries ==
  ASSUME NEW kind, NEW store, NEW H, H = CookiesOf(kind, store)
  PROVE  /\ DOMAIN H \subseteq Nat \ {0}
         /\ Carries(H, "session", store.session)
         /\ Carries(H, "anon", store.anon)
  <1>1. PICK S : S = {Other, <<"session", store.session>>, <<"anon", store.anon>>}
    OBVIOUS
  <1>2. PICK p, q : p = Pair("session", store.session) /\ q = Pair("anon", store.anon)
    OBVIOUS
  <1>3. p \in Seq(S) /\ Carries(p, "session", store.session) /\ Carries(p, "anon", "")
    BY <1>1, <1>2, PairCarries
  <1>4. q \in Seq(S) /\ Carries(q, "anon", store.anon) /\ Carries(q, "session", "")
    BY <1>1, <1>2, PairCarries
  <1>5. PICK h \in Seq(S) : h = p \o q /\ Carries(h, "session", store.session) /\ Carries(h, "anon", store.anon)
    BY <1>3, <1>4, JoinCarries
  <1>6. Header(store) = h
    BY <1>2, <1>5 DEF Header
  <1>7. PICK o : o = Pair("theme", "dark")
    OBVIOUS
  <1>8. o \in Seq(S) /\ Carries(o, "session", "") /\ Carries(o, "anon", "")
    BY <1>1, <1>7, PairCarries DEF Other
  <1>9. o = <<Other>>
    BY <1>7 DEF Pair, Other
  <1>10. PICK f \in Seq(S) : f = o \o h /\ Carries(f, "session", store.session) /\ Carries(f, "anon", store.anon)
    BY <1>5, <1>8, JoinCarries
  <1>11. H = h \/ H = f
    BY <1>6, <1>9, <1>10 DEF CookiesOf
  <1>12. H \in Seq(S) /\ Carries(H, "session", store.session) /\ Carries(H, "anon", store.anon)
    BY <1>5, <1>10, <1>11
  <1>13. DOMAIN H = 1 .. Len(H) /\ Len(H) \in Nat
    BY <1>12, LenProperties
  <1> QED
    BY <1>12, <1>13

\* What the gateway reads is what the store holds, whichever way the header went.
LEMMA CredentialsOf ==
  ASSUME NEW x, x.cookies = CookiesOf(x.kind, x.store)
  PROVE  Credentials(Sent(x)) = [session |-> WholeOrNone(x.store.session), anon |-> WholeOrNone(x.store.anon)]
  <1>1. PICK s, a : s = x.store.session /\ a = x.store.anon
    OBVIOUS
  <1>2. PICK H : H = x.cookies /\ H = CookiesOf(x.kind, x.store)
    OBVIOUS
  <1>3. DOMAIN H \subseteq Nat \ {0} /\ Carries(H, "session", s) /\ Carries(H, "anon", a)
    BY <1>1, <1>2, HeaderCarries
  <1>4. PICK G : G = Sent(x)
    OBVIOUS
  <1>5. DOMAIN G \subseteq Nat \ {0} /\ Carries(G, "session", s) /\ Carries(G, "anon", a)
    <2>1. CASE x.kind = "direct"
      BY <1>2, <1>3, <1>4, <2>1 DEF Sent
    <2>2. CASE x.kind # "direct"
      <3>a. ValueAt(H, First(H, "session", {""})) = IF s \in {""} THEN "" ELSE s
        BY <1>3, ValueOf
      <3>b. ValueAt(H, First(H, "anon", {""})) = IF a \in {""} THEN "" ELSE a
        BY <1>3, ValueOf
      <3>1. ValueAt(H, First(H, "session", {""})) = s /\ ValueAt(H, First(H, "anon", {""})) = a
        BY <3>a, <3>b
      <3>2. PICK r : r = [session |-> s, anon |-> a]
        OBVIOUS
      <3>3. G = CookiesOf("page", r)
        BY <1>2, <1>4, <2>2, <3>1, <3>2 DEF Sent, ForwardedCookies, CookiesOf
      <3>4. r.session = s /\ r.anon = a
        BY <3>2
      <3> QED
        BY <3>3, <3>4, HeaderCarries
    <2> QED
      BY <2>1, <2>2
  <1>n. PICK N : N = {}
    OBVIOUS
  <1>6. ValueAt(G, First(G, "session", N)) = IF s \in N THEN "" ELSE s
    BY <1>5, ValueOf
  <1>7. ValueAt(G, First(G, "anon", Malformed)) = IF a \in Malformed THEN "" ELSE a
    BY <1>5, ValueOf
  <1>8. ValueAt(G, First(G, "session", {})) = s /\ ValueAt(G, First(G, "anon", Malformed)) = WholeOrNone(a)
    BY <1>n, <1>6, <1>7 DEF WholeOrNone
  <1> QED
    BY <1>1, <1>4, <1>8 DEF Credentials, SessionToken, AnonToken

(***************************************************************************)
(* Addresses.                                                              *)
(***************************************************************************)

\* Behind one trusted proxy, the client is the entry the proxy appended, whatever came before.
LEMMA ClientIs ==
  ASSUME NEW x, NEW S, x.stated \in Seq(S)
  PROVE  ClientIpFromXff(XForwardedFor(x)) = x.from
  <1>1. PICK T : T = S \cup {x.from, Proxy}
    OBVIOUS
  <1>2. PICK p : p = x.stated
    OBVIOUS
  <1>3. PICK q : q = <<x.from, Proxy>>
    OBVIOUS
  <1>4. p \in Seq(T)
    BY <1>1, <1>2, SeqDef
  <1>5. q \in Seq(T) /\ Len(q) = 2 /\ q[1] = x.from
    BY <1>1, <1>3
  <1>6. PICK n \in Nat : n = Len(p)
    BY <1>4, LenProperties
  <1>a. Len(p \o q) = n + 2
    BY <1>4, <1>5, <1>6, ConcatProperties
  <1>b. n + 1 \in 1 .. (n + 2) /\ ~(n + 1 <= n) /\ (n + 1) - n = 1
    BY <1>6
  <1>7. (p \o q)[n + 1] = q[1]
    BY <1>4, <1>5, <1>6, <1>a, <1>b, ConcatProperties
  <1>8. n + 2 > 1 /\ (n + 2) - 1 = n + 1
    BY <1>6
  <1>9. XForwardedFor(x) = p \o q
    BY <1>2, <1>3 DEF XForwardedFor
  <1>10. PICK h : h = p \o q
    OBVIOUS
  <1>11. Len(h) > TrustedHops /\ h[Len(h) - TrustedHops] = x.from
    BY <1>5, <1>7, <1>8, <1>a, <1>10, CallsAssumption
  <1> QED
    BY <1>9, <1>10, <1>11 DEF ClientIpFromXff

\* Without entries there is no client.
LEMMA NoClient == ClientIpFromXff(<<>>) = NoAddress
  <1>1. ~(Len(<<>>) > 1)
    OBVIOUS
  <1> QED
    BY <1>1, CallsAssumption DEF ClientIpFromXff

LEMMA AddressesOf ==
  ASSUME NEW x, NEW S, x.stated \in Seq(S), x.from # NoAddress
  PROVE  /\ x.kind = "direct" => ForwardedIp(x) = NoAddress /\ Unforwarded(x) = x.from
         /\ x.kind # "direct" => ForwardedIp(x) = x.from /\ Unforwarded(x) = Portal
  BY ClientIs, NoClient DEF ForwardedIp, Unforwarded, SeenEntries, SocketIp

(***************************************************************************)
(* The invariant.                                                          *)
(***************************************************************************)
Underway == {"token", "fetching", "sent", "checking"}

\* A visit is a record of these fields.
IsVisit(x) ==
  x = [pc |-> x.pc, kind |-> x.kind, from |-> x.from, stated |-> x.stated, origin |-> x.origin,
       store |-> x.store, cookies |-> x.cookies, token |-> x.token, began |-> x.began, since |-> x.since,
       charged |-> x.charged, acting |-> x.acting, hindered |-> x.hindered, again |-> x.again]

\* What the browser asked for and holds.
AskedFor(x) ==
  /\ x.from # NoAddress
  /\ \E S : x.stated \in Seq(S)
  /\ x.cookies = CookiesOf(x.kind, x.store)

\* A visit underway has lasted no longer than a call may.
InTime(x, now) == x.began \in Nat /\ x.began <= now /\ now <= x.began + Patience

\* A call of the portal carries a token that was to outlast the margin when it began; the
\* browser's own carries none.
CarriesToken(x, signed) ==
  IF x.kind = "direct" THEN x.token = 0
  ELSE /\ x.token \in DOMAIN signed /\ x.token # 0
       /\ signed[x.token].readable => signed[x.token].exp > x.began + Margin

Charged(x) == x.charged # NoAddress => x.charged = x.from \/ (x.hindered /\ x.charged = Portal)

Acting(x) ==
  x.acting = [session |-> WholeOrNone(x.store.session), anon |-> WholeOrNone(x.store.anon)]

VisitSound(x, signed, now) ==
  /\ IsVisit(x)
  /\ x.pc \in {"idle", "over", "served", "charged"} \cup Underway
  /\ x.pc \notin {"idle", "over"} => AskedFor(x)
  /\ x.pc \in Underway => InTime(x, now)
  /\ x.pc \in {"token", "fetching", "checking"} => x.kind # "direct"
  /\ x.pc \in {"sent", "checking"} => CarriesToken(x, signed)
  /\ x.pc = "fetching" => x.since \in Nat
  /\ Charged(x)
  /\ x.pc \in {"charged", "served"} => Acting(x)

TokenSet == [exp : Nat, readable : BOOLEAN]

\* The cache takes a token it can read to expire when it does.
CacheSound(cache, signed) ==
  /\ cache = [token |-> cache.token, expiresAt |-> cache.expiresAt]
  /\ cache.expiresAt \in Nat
  /\ cache.token # 0 => /\ cache.token \in DOMAIN signed
                        /\ signed[cache.token].readable => cache.expiresAt = signed[cache.token].exp

PortalInv ==
  /\ visits = [v \in Visits |-> visits[v]]
  /\ minute \in Nat
  /\ tokens \in Seq(TokenSet)
  /\ CacheSound(idCache, tokens)
  /\ \A v \in Visits : VisitSound(visits[v], tokens, minute)

\* The invariant has what the portal promises.
LEMMA PortalInvPromises == PortalInv => SpeaksForVisitor
  <1> SUFFICES ASSUME PortalInv PROVE SpeaksForVisitor
    OBVIOUS
  <1>1. ChargedToSender
    BY DEF PortalInv, VisitSound, Charged, ChargedToSender
  <1>2. ActsForBrowser
    BY DEF PortalInv, VisitSound, Acting, ActsForBrowser
  <1> QED
    BY <1>1, <1>2 DEF SpeaksForVisitor

LEMMA NoVisitSound ==
  ASSUME NEW signed, NEW now
  PROVE  VisitSound(NoVisit, signed, now) /\ VisitSound(Gone, signed, now)
  <1>1. PICK n : n = NoVisit
    OBVIOUS
  <1>2. IsVisit(n) /\ n.pc = "idle" /\ n.charged = NoAddress
    BY <1>1 DEF IsVisit, NoVisit
  <1>3. PICK g : g = [n EXCEPT !.pc = "over"]
    OBVIOUS
  <1>4. g.pc = "over" /\ g.charged = NoAddress /\ IsVisit(g)
    BY <1>2, <1>3 DEF IsVisit
  <1>5. g = Gone
    BY <1>1, <1>3 DEF Gone
  <1> QED
    BY <1>1, <1>2, <1>4, <1>5 DEF VisitSound, Charged, Underway

LEMMA PortalInvInit == CallsInit => PortalInv
  <1> SUFFICES ASSUME CallsInit PROVE PortalInv
    OBVIOUS
  <1>1. visits = [v \in Visits |-> visits[v]] /\ \A v \in Visits : visits[v] = NoVisit
    BY DEF CallsInit
  <1>2. tokens \in Seq(TokenSet) /\ minute \in Nat
    BY DEF CallsInit
  <1>3. CacheSound(idCache, tokens)
    BY DEF CallsInit, CacheSound
  <1> QED
    BY <1>1, <1>2, <1>3, NoVisitSound DEF PortalInv

(***************************************************************************)
(* The steps of one visit.                                                 *)
(***************************************************************************)

\* A step that leaves the tokens, the cache and the clock keeps the invariant when its visit is
\* sound after it.
LEMMA VisitStep ==
  ASSUME PortalInv, NEW v \in Visits, NEW x, VisitSound(x, tokens, minute),
         visits' = [visits EXCEPT ![v] = x], UNCHANGED <<idCache, tokens, minute>>
  PROVE  PortalInv'
  <1>1. visits' = [w \in Visits |-> visits'[w]] /\ \A w \in Visits : visits'[w] = IF w = v THEN x ELSE visits[w]
    BY DEF PortalInv
  <1>2. \A w \in Visits : VisitSound(visits'[w], tokens, minute)
    BY <1>1 DEF PortalInv
  <1> QED
    BY <1>1, <1>2 DEF PortalInv

LEMMA GoneStep ==
  ASSUME PortalInv, NEW v \in Visits, visits' = [visits EXCEPT ![v] = Gone], UNCHANGED <<idCache, tokens, minute>>
  PROVE  PortalInv'
  BY NoVisitSound, VisitStep

LEMMA ArriveStep ==
  ASSUME PortalInv, NEW v \in Visits, Arrive(v) PROVE PortalInv'
  <1>1. PICK q \in Asked[v] :
          LET store == [session |-> q.session, anon |-> q.anon] IN
          /\ visits[v].pc = "idle"
          /\ visits' = [visits EXCEPT ![v] =
               [NoVisit EXCEPT !.pc = IF q.kind = "direct" THEN "sent" ELSE "token", !.kind = q.kind,
                               !.from = q.from, !.stated = q.stated, !.origin = q.origin, !.store = store,
                               !.cookies = IF q.kind \in {"direct", "stream"} THEN <<Other>> \o Header(store)
                                                                              ELSE CredentialCookieHeader(store),
                               !.began = minute]]
          /\ UNCHANGED <<idCache, tokens, verified, minute, troubles>>
    BY DEF Arrive
  <1>2. PICK store : store = [session |-> q.session, anon |-> q.anon]
    OBVIOUS
  <1>3. PICK n : n = NoVisit
    OBVIOUS
  <1>4. IsVisit(n) /\ n.token = 0 /\ n.charged = NoAddress
    BY <1>3 DEF IsVisit, NoVisit
  <1>a. PICK p, c : /\ p = (IF q.kind = "direct" THEN "sent" ELSE "token")
                    /\ c = (IF q.kind \in {"direct", "stream"} THEN <<Other>> \o Header(store)
                                                               ELSE CredentialCookieHeader(store))
    OBVIOUS
  <1>b. PICK x : x = [n EXCEPT !.pc = p, !.kind = q.kind, !.from = q.from, !.stated = q.stated,
                               !.origin = q.origin, !.store = store, !.cookies = c, !.began = minute]
    OBVIOUS
  <1>c. visits' = [visits EXCEPT ![v] = x]
    BY <1>1, <1>2, <1>3, <1>a, <1>b
  <1>d. /\ x.pc = p /\ x.kind = q.kind /\ x.from = q.from /\ x.stated = q.stated /\ x.store = store
        /\ x.cookies = c /\ x.began = minute /\ x.token = 0 /\ x.charged = NoAddress
    BY <1>4, <1>b DEF IsVisit
  <1>6. IsVisit(x)
    BY <1>4, <1>b DEF IsVisit
  <1>5. /\ x.pc = (IF q.kind = "direct" THEN "sent" ELSE "token") /\ x.cookies = CookiesOf(x.kind, x.store)
    BY <1>a, <1>d DEF CookiesOf, CredentialCookieHeader
  <1>7. /\ q.from # NoAddress
        /\ q.stated \in Seq({q.stated[i] : i \in DOMAIN q.stated})
    BY <1>1, CallsAssumption
  <1>8. AskedFor(x)
    BY <1>5, <1>7, <1>d DEF AskedFor
  <1>9. InTime(x, minute)
    <2>1. minute \in Nat /\ Patience \in Nat
      BY CallsAssumption DEF PortalInv
    <2> QED
      BY <1>d, <2>1 DEF InTime
  <1>10. VisitSound(x, tokens, minute)
    BY <1>5, <1>6, <1>8, <1>9, <1>d DEF VisitSound, CarriesToken, Charged, Underway
  <1> QED
    BY <1>1, <1>c, <1>10, VisitStep

LEMMA RefuseOriginStep ==
  ASSUME PortalInv, NEW v \in Visits, RefuseOrigin(v) \/ MetadataFails(v) \/ CallFails(v) \/ AnswerBrowser(v)
  PROVE  PortalInv'
  BY GoneStep DEF RefuseOrigin, MetadataFails, CallFails, AnswerBrowser

LEMMA UseCachedStep ==
  ASSUME PortalInv, NEW v \in Visits, UseCached(v) PROVE PortalInv'
  <1>1. PICK x : x = visits[v]
    OBVIOUS
  <1>2. PICK y : y = [x EXCEPT !.pc = "sent", !.token = idCache.token]
    OBVIOUS
  <1>3. visits' = [visits EXCEPT ![v] = y] /\ UNCHANGED <<idCache, tokens, minute>>
    BY <1>1, <1>2 DEF UseCached
  <1>4. VisitSound(x, tokens, minute) /\ x.pc = "token"
    BY <1>1 DEF PortalInv, UseCached, Callable
  <1>5. /\ IsVisit(y) /\ y.pc = "sent" /\ y.token = idCache.token /\ y.kind = x.kind /\ y.from = x.from
        /\ y.stated = x.stated /\ y.cookies = x.cookies /\ y.store = x.store /\ y.began = x.began
        /\ y.charged = x.charged /\ y.hindered = x.hindered
    BY <1>2, <1>4 DEF IsVisit, VisitSound
  <1>6. PICK t : t = idCache.token
    OBVIOUS
  <1>7. t # 0 /\ t \in DOMAIN tokens /\ (tokens[t].readable => tokens[t].exp > minute + Margin)
    BY <1>6 DEF UseCached, Fresh, PortalInv, CacheSound
  <1>8. AskedFor(y) /\ InTime(y, minute) /\ Charged(y)
    BY <1>4, <1>5 DEF VisitSound, AskedFor, InTime, Charged, Underway
  <1>9. CarriesToken(y, tokens)
    <2>1. x.began \in Nat /\ x.began <= minute /\ minute \in Nat /\ Margin \in Nat /\ x.kind # "direct"
      BY <1>4, CallsAssumption DEF VisitSound, InTime, Underway, PortalInv
    <2>2. tokens[t] \in TokenSet
      BY <1>7, ElementOfSeq, LenProperties DEF PortalInv
    <2>3. PICK e \in Nat : e = tokens[t].exp
      BY <2>2 DEF TokenSet
    <2>4. e > minute + Margin => e > x.began + Margin
      BY <2>1, <2>3
    <2> QED
      BY <1>5, <1>6, <1>7, <2>1, <2>3, <2>4 DEF CarriesToken
  <1>10. VisitSound(y, tokens, minute)
    BY <1>5, <1>8, <1>9 DEF VisitSound, Underway
  <1> QED
    BY <1>3, <1>10, VisitStep

LEMMA AskMetadataStep ==
  ASSUME PortalInv, NEW v \in Visits, AskMetadata(v) PROVE PortalInv'
  <1>1. PICK x : x = visits[v]
    OBVIOUS
  <1>2. PICK y : y = [x EXCEPT !.pc = "fetching", !.since = minute]
    OBVIOUS
  <1>3. visits' = [visits EXCEPT ![v] = y] /\ UNCHANGED <<idCache, tokens, minute>>
    BY <1>1, <1>2 DEF AskMetadata
  <1>4. VisitSound(x, tokens, minute) /\ x.pc = "token" /\ minute \in Nat
    BY <1>1 DEF PortalInv, AskMetadata, Callable
  <1>5. /\ IsVisit(y) /\ y.pc = "fetching" /\ y.since = minute /\ y.kind = x.kind /\ y.from = x.from
        /\ y.stated = x.stated /\ y.cookies = x.cookies /\ y.store = x.store /\ y.began = x.began
        /\ y.charged = x.charged /\ y.hindered = x.hindered
    BY <1>2, <1>4 DEF IsVisit, VisitSound
  <1>6. AskedFor(y) /\ InTime(y, minute) /\ Charged(y)
    BY <1>4, <1>5 DEF VisitSound, AskedFor, InTime, Charged, Underway
  <1>7. VisitSound(y, tokens, minute)
    BY <1>4, <1>5, <1>6 DEF VisitSound, Underway
  <1> QED
    BY <1>3, <1>7, VisitStep

\* A signed token is one of those signed so far and outlasts the margin; none signed before changes.
LEMMA SignedTokens ==
  ASSUME PortalInv, NEW t \in 1 .. MaxTokens, Signed(t)
  PROVE  /\ tokens' \in Seq(TokenSet)
         /\ DOMAIN tokens \subseteq DOMAIN tokens'
         /\ \A n \in DOMAIN tokens : tokens'[n] = tokens[n]
         /\ t \in DOMAIN tokens' /\ t # 0
         /\ tokens'[t].exp > minute + Margin
  <1>1. minute \in Nat /\ Margin \in Nat /\ Lifetime \in Nat /\ Margin < Lifetime /\ tokens \in Seq(TokenSet) /\ MaxTokens \in Nat
    BY CallsAssumption DEF PortalInv
  <1>2. t # 0
    BY <1>1
  <1>3. ASSUME t = Len(tokens) + 1,
               NEW readable \in BOOLEAN, tokens' = Append(tokens, [exp |-> minute + Lifetime, readable |-> readable])
        PROVE  /\ tokens' \in Seq(TokenSet)
               /\ DOMAIN tokens \subseteq DOMAIN tokens'
               /\ \A n \in DOMAIN tokens : tokens'[n] = tokens[n]
               /\ t \in DOMAIN tokens'
               /\ tokens'[t].exp > minute + Margin
    <2>1. PICK e : e = [exp |-> minute + Lifetime, readable |-> readable]
      OBVIOUS
    <2>2. e \in TokenSet /\ e.exp > minute + Margin
      <3>1. minute + Lifetime \in Nat /\ minute + Lifetime > minute + Margin
        BY <1>1
      <3> QED
        BY <2>1, <3>1 DEF TokenSet
    <2>3. tokens' = Append(tokens, e)
      BY <1>3, <2>1
    <2>4. /\ tokens' \in Seq(TokenSet) /\ Len(tokens') = Len(tokens) + 1
          /\ \A i \in 1 .. Len(tokens) : tokens'[i] = tokens[i]
          /\ tokens'[Len(tokens) + 1] = e
      BY <1>1, <2>2, <2>3, AppendProperties
    <2>5. DOMAIN tokens = 1 .. Len(tokens) /\ DOMAIN tokens' = 1 .. Len(tokens') /\ Len(tokens) \in Nat
      BY <1>1, <2>4, LenProperties
    <2> QED
      BY <1>3, <2>2, <2>4, <2>5
  <1>4. CASE t \in DOMAIN tokens /\ tokens[t].exp > minute + Margin /\ UNCHANGED <<tokens, troubles>>
    BY <1>1, <1>2, <1>4
  <1> QED
    BY <1>2, <1>3, <1>4 DEF Signed

\* What was sound stays so when more tokens are signed.
LEMMA MoreTokens ==
  ASSUME NEW x, NEW signed, NEW more, NEW now, VisitSound(x, signed, now),
         DOMAIN signed \subseteq DOMAIN more, \A n \in DOMAIN signed : more[n] = signed[n]
  PROVE  VisitSound(x, more, now)
  <1>1. CarriesToken(x, signed) => CarriesToken(x, more)
    BY DEF CarriesToken
  <1> QED
    BY <1>1 DEF VisitSound

LEMMA MetadataAnswersStep ==
  ASSUME PortalInv, NEW v \in Visits, MetadataAnswers(v) PROVE PortalInv'
  <1>1. PICK t \in 1 .. MaxTokens :
          /\ Signed(t)
          /\ idCache' = [token |-> t, expiresAt |-> JwtExpiry(t, visits[v].since)]
          /\ visits' = [visits EXCEPT ![v] = [@ EXCEPT !.pc = "sent", !.token = t, !.since = 0]]
    BY DEF MetadataAnswers
  <1>2. /\ tokens' \in Seq(TokenSet)
        /\ DOMAIN tokens \subseteq DOMAIN tokens'
        /\ \A n \in DOMAIN tokens : tokens'[n] = tokens[n]
        /\ t \in DOMAIN tokens' /\ t # 0
        /\ tokens'[t].exp > minute + Margin
    BY <1>1, SignedTokens
  <1>3. PICK x : x = visits[v]
    OBVIOUS
  <1>4. PICK y : y = [x EXCEPT !.pc = "sent", !.token = t, !.since = 0]
    OBVIOUS
  <1>5. VisitSound(x, tokens, minute) /\ x.pc = "fetching" /\ minute' = minute /\ minute \in Nat
    BY <1>3 DEF PortalInv, MetadataAnswers
  <1>6. /\ IsVisit(y) /\ y.pc = "sent" /\ y.token = t /\ y.kind = x.kind /\ y.from = x.from
        /\ y.stated = x.stated /\ y.cookies = x.cookies /\ y.store = x.store /\ y.began = x.began
        /\ y.charged = x.charged /\ y.hindered = x.hindered
    BY <1>4, <1>5 DEF IsVisit, VisitSound
  <1>7. AskedFor(y) /\ InTime(y, minute) /\ Charged(y)
    BY <1>5, <1>6 DEF VisitSound, AskedFor, InTime, Charged, Underway
  <1>8. tokens'[t] \in TokenSet
    BY <1>2, ElementOfSeq, LenProperties
  <1>9. PICK e \in Nat, r \in BOOLEAN : e = tokens'[t].exp /\ r = tokens'[t].readable
    BY <1>8 DEF TokenSet
  <1>10. CarriesToken(y, tokens')
    <2>1. x.began \in Nat /\ x.began <= minute /\ Margin \in Nat /\ x.kind # "direct"
      BY <1>5, CallsAssumption DEF VisitSound, InTime, Underway
    <2>2. e > x.began + Margin
      BY <1>2, <1>5, <1>9, <2>1
    <2> QED
      BY <1>2, <1>6, <1>9, <2>1, <2>2 DEF CarriesToken
  <1>11. VisitSound(y, tokens', minute)
    BY <1>6, <1>7, <1>10 DEF VisitSound, Underway
  <1>12. CacheSound(idCache', tokens')
    <2>1. PICK s \in Nat : s = visits[v].since
      BY <1>3, <1>5 DEF VisitSound
    <2>2. PICK j : j = JwtExpiry(t, s)
      OBVIOUS
    <2>3. j = IF r THEN e ELSE s + Fallback
      BY <1>9, <2>2 DEF JwtExpiry
    <2>4. j \in Nat /\ (r => j = e)
      <3>f. Fallback \in Nat
        BY CallsAssumption
      <3>1. s + Fallback \in Nat
        BY <2>1, <3>f
      <3>2. CASE r
        BY <1>9, <2>3, <3>2
      <3>3. CASE ~r
        BY <2>3, <3>1, <3>3
      <3> QED
        BY <3>2, <3>3
    <2>5. idCache' = [token |-> t, expiresAt |-> j]
      BY <1>1, <2>1, <2>2
    <2> QED
      BY <1>2, <1>9, <2>4, <2>5 DEF CacheSound
  <1>13. visits' = [w \in Visits |-> visits'[w]] /\ \A w \in Visits : visits'[w] = IF w = v THEN y ELSE visits[w]
    BY <1>1, <1>3, <1>4 DEF PortalInv
  <1>14. \A w \in Visits : VisitSound(visits'[w], tokens', minute)
    BY <1>2, <1>11, <1>13, MoreTokens DEF PortalInv
  <1> QED
    BY <1>2, <1>5, <1>12, <1>13, <1>14 DEF PortalInv

(***************************************************************************)
(* The steps of the gateway.                                               *)
(***************************************************************************)

LEMMA ServeStep ==
  ASSUME PortalInv, NEW v \in Visits, Serve(v) PROVE PortalInv'
  <1>1. PICK x : x = visits[v]
    OBVIOUS
  <1>2. PICK y : y = [x EXCEPT !.pc = "served", !.acting = Credentials(Sent(x)), !.token = 0, !.began = 0]
    OBVIOUS
  <1>3. visits' = [visits EXCEPT ![v] = y] /\ UNCHANGED <<idCache, tokens, minute>>
    BY <1>1, <1>2 DEF Serve, Read
  <1>4. VisitSound(x, tokens, minute) /\ x.pc = "sent"
    BY <1>1 DEF PortalInv, Serve
  <1>5. /\ IsVisit(y) /\ y.pc = "served" /\ y.acting = Credentials(Sent(x)) /\ y.kind = x.kind /\ y.from = x.from
        /\ y.stated = x.stated /\ y.cookies = x.cookies /\ y.store = x.store
        /\ y.charged = x.charged /\ y.hindered = x.hindered
    BY <1>2, <1>4 DEF IsVisit, VisitSound
  <1>6. AskedFor(x) /\ Charged(x)
    BY <1>4 DEF VisitSound
  <1>7. AskedFor(y) /\ Charged(y)
    BY <1>5, <1>6 DEF AskedFor, Charged
  <1>8. Acting(y)
    BY <1>5, <1>6, CredentialsOf DEF AskedFor, Acting
  <1>9. VisitSound(y, tokens, minute)
    BY <1>5, <1>7, <1>8 DEF VisitSound, Underway
  <1> QED
    BY <1>3, <1>9, VisitStep

\* A visit charged to its sender, or hindered to the portal, is sound.
LEMMA ChargeStep ==
  ASSUME PortalInv, NEW v \in Visits, visits[v].pc \in {"sent", "checking"}, NEW ip, NEW hindered,
         ip = visits[v].from \/ (hindered /\ ip = Portal),
         ChargeTo(v, ip, hindered), UNCHANGED <<idCache, tokens, minute>>
  PROVE  PortalInv'
  <1>1. PICK x : x = visits[v]
    OBVIOUS
  <1>2. PICK y : y = [x EXCEPT !.pc = "charged", !.charged = ip, !.acting = Credentials(Sent(x)),
                               !.hindered = hindered, !.token = 0, !.began = 0]
    OBVIOUS
  <1>3. visits' = [visits EXCEPT ![v] = y]
    BY <1>1, <1>2 DEF ChargeTo, Read
  <1>4. VisitSound(x, tokens, minute) /\ x.pc \in {"sent", "checking"}
    BY <1>1 DEF PortalInv
  <1>5. /\ IsVisit(y) /\ y.pc = "charged" /\ y.acting = Credentials(Sent(x)) /\ y.kind = x.kind /\ y.from = x.from
        /\ y.stated = x.stated /\ y.cookies = x.cookies /\ y.store = x.store
        /\ y.charged = ip /\ y.hindered = hindered
    BY <1>2, <1>4 DEF IsVisit, VisitSound
  <1>6. AskedFor(x)
    BY <1>4 DEF VisitSound
  <1>7. AskedFor(y) /\ Charged(y)
    BY <1>1, <1>5, <1>6 DEF AskedFor, Charged
  <1>8. Acting(y)
    BY <1>5, <1>6, CredentialsOf DEF AskedFor, Acting
  <1>9. VisitSound(y, tokens, minute)
    BY <1>5, <1>7, <1>8 DEF VisitSound, Underway
  <1> QED
    BY <1>3, <1>9, VisitStep

\* Where the gateway looks for the visitor of a call.
LEMMA WhereFrom ==
  ASSUME PortalInv, NEW v \in Visits, visits[v].pc \in {"sent", "checking"}
  PROVE  /\ visits[v].from # NoAddress
         /\ visits[v].kind = "direct" => ForwardedIp(visits[v]) = NoAddress /\ Unforwarded(visits[v]) = visits[v].from
         /\ visits[v].kind # "direct" => ForwardedIp(visits[v]) = visits[v].from /\ Unforwarded(visits[v]) = Portal
  <1>1. PICK x : x = visits[v]
    OBVIOUS
  <1>2. AskedFor(x)
    BY <1>1 DEF PortalInv, VisitSound
  <1>3. PICK S : x.stated \in Seq(S)
    BY <1>2 DEF AskedFor
  <1>4. x.from # NoAddress
    BY <1>2 DEF AskedFor
  <1> QED
    BY <1>1, <1>3, <1>4, AddressesOf

LEMMA CountSeenStep ==
  ASSUME PortalInv, NEW v \in Visits, CountSeen(v) PROVE PortalInv'
  <1>1. VisitSound(visits[v], tokens, minute) /\ visits[v].pc = "sent"
    BY DEF PortalInv, CountSeen
  <1>2. CarriesToken(visits[v], tokens)
    BY <1>1 DEF VisitSound
  <1>3. visits[v].kind = "direct"
    BY <1>1, <1>2, WhereFrom DEF CountSeen, CarriesToken
  <1>4. Unforwarded(visits[v]) = visits[v].from
    BY <1>1, <1>3, WhereFrom
  <1> QED
    BY <1>1, <1>4, ChargeStep DEF CountSeen

LEMMA RecallStep ==
  ASSUME PortalInv, NEW v \in Visits, Recall(v) PROVE PortalInv'
  <1>1. visits[v].pc = "sent" /\ ForwardedIp(visits[v]) # NoAddress
    BY DEF Recall, Presented
  <1>2. ForwardedIp(visits[v]) = visits[v].from
    BY <1>1, WhereFrom
  <1> QED
    BY <1>1, <1>2, ChargeStep DEF Recall

LEMMA CheckSignatureStep ==
  ASSUME PortalInv, NEW v \in Visits, CheckSignature(v) PROVE PortalInv'
  <1>1. PICK x : x = visits[v]
    OBVIOUS
  <1>2. PICK y : y = [x EXCEPT !.pc = "checking"]
    OBVIOUS
  <1>3. visits' = [visits EXCEPT ![v] = y] /\ UNCHANGED <<idCache, tokens, minute>>
    BY <1>1, <1>2 DEF CheckSignature
  <1>4. VisitSound(x, tokens, minute) /\ x.pc = "sent"
    BY <1>1 DEF PortalInv, CheckSignature, Presented
  <1>5. /\ IsVisit(y) /\ y.pc = "checking" /\ y.token = x.token /\ y.kind = x.kind /\ y.from = x.from
        /\ y.stated = x.stated /\ y.cookies = x.cookies /\ y.store = x.store /\ y.began = x.began
        /\ y.charged = x.charged /\ y.hindered = x.hindered
    BY <1>2, <1>4 DEF IsVisit, VisitSound
  <1>6. AskedFor(y) /\ InTime(y, minute) /\ Charged(y) /\ CarriesToken(y, tokens)
    BY <1>4, <1>5 DEF VisitSound, AskedFor, InTime, Charged, Underway, CarriesToken
  <1>7. x.kind # "direct"
    BY <1>1, <1>4, WhereFrom DEF CheckSignature, Presented
  <1>8. VisitSound(y, tokens, minute)
    BY <1>5, <1>6, <1>7 DEF VisitSound, Underway
  <1> QED
    BY <1>3, <1>8, VisitStep

\* A token that can be read verifies as long as its call lasts.
LEMMA StillVerifies ==
  ASSUME PortalInv, NEW v \in Visits, visits[v].pc = "checking", ~Verifies(visits[v].token)
  PROVE  ~tokens[visits[v].token].readable
  <1>1. PICK x : x = visits[v]
    OBVIOUS
  <1>2. VisitSound(x, tokens, minute) /\ x.pc = "checking" /\ minute \in Nat
    BY <1>1 DEF PortalInv
  <1>3. CarriesToken(x, tokens) /\ InTime(x, minute) /\ x.kind # "direct"
    BY <1>2 DEF VisitSound, Underway
  <1>4. PICK b \in Nat : b = x.began /\ b <= minute /\ minute <= b + Patience
    BY <1>3 DEF InTime
  <1>5. PICK t \in DOMAIN tokens : t = x.token /\ (tokens[t].readable => tokens[t].exp > b + Margin)
    BY <1>3, <1>4 DEF CarriesToken
  <1>6. tokens[t] \in TokenSet
    BY ElementOfSeq, LenProperties DEF PortalInv
  <1>7. PICK e \in Nat : e = tokens[t].exp
    BY <1>6 DEF TokenSet
  <1>8. e > b + Margin => e + Skew >= minute
    <2>1. Margin \in Nat /\ Skew \in Nat /\ Patience \in Nat /\ Patience <= Margin + Skew + 1
      BY CallsAssumption
    <2> QED
      BY <1>2, <1>4, <1>7, <2>1
  <1> QED
    BY <1>1, <1>5, <1>7, <1>8 DEF Verifies

LEMMA CheckedStep ==
  ASSUME PortalInv, NEW v \in Visits, Checked(v) PROVE PortalInv'
  <1>1. visits[v].pc = "checking" /\ visits[v].kind # "direct" /\ UNCHANGED <<idCache, tokens, minute>>
    BY DEF Checked, PortalInv, VisitSound
  <1>2. CASE ChargeTo(v, ForwardedIp(visits[v]), FALSE)
    BY <1>1, <1>2, WhereFrom, ChargeStep
  <1>3. CASE /\ ~Verifies(visits[v].token)
             /\ ChargeTo(v, Unforwarded(visits[v]), ~tokens[visits[v].token].readable)
    BY <1>1, <1>3, WhereFrom, StillVerifies, ChargeStep
  <1> QED
    BY <1>2, <1>3 DEF Checked

LEMMA CheckFailsStep ==
  ASSUME PortalInv, NEW v \in Visits, CheckFails(v) PROVE PortalInv'
  <1>1. visits[v].pc = "checking" /\ visits[v].kind # "direct" /\ UNCHANGED <<idCache, tokens, minute>>
    BY DEF CheckFails, PortalInv, VisitSound
  <1> QED
    BY <1>1, WhereFrom, ChargeStep DEF CheckFails

(***************************************************************************)
(* The answer, restarts and the clock.                                     *)
(***************************************************************************)

LEMMA RenderStep ==
  ASSUME PortalInv, NEW v \in Visits, Render(v) PROVE PortalInv'
  <1>1. PICK lines \in SetCookies(visits[v].store.session) :
          LET store == ApplyRelays(visits[v].store, lines) IN
          visits' = [visits EXCEPT ![v] =
            [NoVisit EXCEPT !.pc = "token", !.kind = "action", !.again = TRUE, !.from = visits[v].from,
                            !.store = store, !.cookies = CredentialCookieHeader(store), !.began = minute]]
    BY DEF Render
  <1>2. PICK x : x = visits[v]
    OBVIOUS
  <1>3. AskedFor(x) /\ minute \in Nat /\ UNCHANGED <<idCache, tokens, minute>>
    BY <1>2 DEF Render, PortalInv, VisitSound
  <1>4. PICK store : store = ApplyRelays(x.store, lines)
    OBVIOUS
  <1>6. PICK n : n = NoVisit
    OBVIOUS
  <1>7. IsVisit(n) /\ n.token = 0 /\ n.charged = NoAddress /\ n.stated = <<>>
    BY <1>6 DEF IsVisit, NoVisit
  <1>8. PICK c : c = CredentialCookieHeader(store)
    OBVIOUS
  <1>9. PICK y : y = [n EXCEPT !.pc = "token", !.kind = "action", !.again = TRUE, !.from = x.from,
                               !.store = store, !.cookies = c, !.began = minute]
    OBVIOUS
  <1>10. visits' = [visits EXCEPT ![v] = y]
    BY <1>1, <1>2, <1>4, <1>6, <1>8, <1>9
  <1>11. /\ y.pc = "token" /\ y.kind = "action" /\ y.from = x.from /\ y.stated = <<>> /\ y.store = store
         /\ y.cookies = c /\ y.began = minute /\ y.charged = NoAddress
    BY <1>7, <1>9 DEF IsVisit
  <1>12. IsVisit(y)
    BY <1>7, <1>9 DEF IsVisit
  <1>13. AskedFor(y)
    <2>1. c = CookiesOf("action", store)
      BY <1>8 DEF CookiesOf, CredentialCookieHeader
    <2>2. \E S : <<>> \in Seq(S)
      OBVIOUS
    <2> QED
      BY <1>3, <1>11, <2>1, <2>2 DEF AskedFor
  <1>14. InTime(y, minute)
    <2>1. Patience \in Nat
      BY CallsAssumption
    <2> QED
      BY <1>3, <1>11, <2>1 DEF InTime
  <1>15. VisitSound(y, tokens, minute)
    BY <1>11, <1>12, <1>13, <1>14 DEF VisitSound, Charged, Underway
  <1> QED
    BY <1>3, <1>10, <1>15, VisitStep

LEMMA RestartPortalStep ==
  ASSUME PortalInv, RestartPortal PROVE PortalInv'
  <1>1. visits' = [v \in Visits |-> IF visits[v].pc \in {"token", "fetching"} THEN Gone ELSE visits[v]]
    BY DEF RestartPortal
  <1>2. visits' = [v \in Visits |-> visits'[v]]
    BY <1>1
  <1>3. tokens' = tokens /\ minute' = minute /\ CacheSound(idCache', tokens)
    BY DEF RestartPortal, CacheSound
  <1>4. \A v \in Visits : VisitSound(visits'[v], tokens, minute)
    BY <1>1, NoVisitSound DEF PortalInv
  <1> QED
    BY <1>2, <1>3, <1>4 DEF PortalInv

LEMMA OtherInstanceStep ==
  ASSUME PortalInv, OtherInstance \/ UNCHANGED callVars PROVE PortalInv'
  BY DEF PortalInv, OtherInstance, callVars

LEMMA MinuteStep ==
  ASSUME PortalInv, Minute PROVE PortalInv'
  <1>1. minute' = minute + 1 /\ minute \in Nat /\ UNCHANGED <<visits, idCache, tokens>>
    BY DEF Minute, PortalInv
  <1>2. ASSUME NEW v \in Visits PROVE VisitSound(visits[v], tokens, minute + 1)
    <2>1. PICK x : x = visits[v]
      OBVIOUS
    <2>2. VisitSound(x, tokens, minute)
      BY <2>1 DEF PortalInv
    <2>3. x.pc \in Underway => InTime(x, minute + 1)
      <3>1. SUFFICES ASSUME x.pc \in Underway PROVE InTime(x, minute + 1)
        OBVIOUS
      <3>2. minute < x.began + Patience
        BY <2>1, <3>1 DEF Minute, Underway
      <3>3. x.began \in Nat /\ x.began <= minute /\ Patience \in Nat
        BY <2>2, <3>1, CallsAssumption DEF VisitSound, InTime
      <3> QED
        BY <1>1, <3>2, <3>3 DEF InTime
    <2> QED
      BY <2>1, <2>2, <2>3 DEF VisitSound
  <1> QED
    BY <1>1, <1>2 DEF PortalInv

LEMMA PortalInvInductive ==
  ASSUME PortalInv, [CallsNext]_callVars PROVE PortalInv'
  <1>1. CASE \E v \in Visits :
               Arrive(v) \/ RefuseOrigin(v) \/ UseCached(v) \/ AskMetadata(v) \/ MetadataAnswers(v) \/ MetadataFails(v)
               \/ CallFails(v) \/ Serve(v) \/ CountSeen(v) \/ Recall(v) \/ CheckSignature(v) \/ Checked(v)
               \/ CheckFails(v) \/ AnswerBrowser(v) \/ Render(v)
    BY <1>1, ArriveStep, RefuseOriginStep, UseCachedStep, AskMetadataStep, MetadataAnswersStep, ServeStep,
       CountSeenStep, RecallStep, CheckSignatureStep, CheckedStep, CheckFailsStep, RenderStep
  <1> QED
    BY <1>1, RestartPortalStep, OtherInstanceStep, MinuteStep DEF CallsNext

\* The limits of a call are charged to the visitor who made it, and the gateway acts on the
\* credentials the visitor's browser holds: for any number of visits, tokens, other proxies' entries
\* and failures, while tokens age in the portal's cache and the gateway's (clientIp, idToken).
THEOREM PortalSpeaksTruly == CallsSpec => []SpeaksForVisitor
  <1>1. CallsInit => PortalInv
    BY PortalInvInit
  <1>2. PortalInv /\ [CallsNext]_callVars => PortalInv'
    BY PortalInvInductive
  <1>3. PortalInv => SpeaksForVisitor
    BY PortalInvPromises
  <1> QED
    BY <1>1, <1>2, <1>3, PTL DEF CallsSpec

(***************************************************************************)
(* EmailSignIn: the windows.                                               *)
(***************************************************************************)
InWindow(w, k, now) ==
  /\ w \in Seq(Nat) /\ Len(w) <= Limit(k)
  /\ \A i, j \in DOMAIN w : i <= j => w[i] <= w[j]
  /\ \A i \in DOMAIN w : w[i] <= now

HitsInv ==
  /\ second \in Nat
  /\ hits = [k \in Keys |-> hits[k]]
  /\ \A k \in Keys : InWindow(hits[k], k, second)

LEMMA LimitPositive == \A k \in Keys : Limit(k) \in Nat \ {0}
  BY SignInAssumption DEF Limit, Keys

\* The hits that have left the window are the first ones: dropping as many from the front is
\* filtering by time.
LEMMA ExpiredFirst ==
  ASSUME HitsInv, NEW k \in Keys
  PROVE  /\ Cardinality(Expired(k)) \in Nat /\ Cardinality(Expired(k)) <= Len(hits[k])
         /\ Expired(k) = 1 .. Cardinality(Expired(k))
  <1>1. PICK w : w = hits[k]
    OBVIOUS
  <1>2. w \in Seq(Nat) /\ (\A i, j \in DOMAIN w : i <= j => w[i] <= w[j]) /\ second \in Nat /\ Window \in Nat
    BY <1>1, SignInAssumption DEF HitsInv, InWindow
  <1>3. PICK L \in Nat : L = Len(w) /\ DOMAIN w = 1 .. L
    BY <1>2, LenProperties
  <1>4. \A i \in 1 .. L : w[i] \in Nat
    BY <1>2, <1>3, ElementOfSeq
  <1>5. PICK E : E = Expired(k)
    OBVIOUS
  <1>6. E = {i \in 1 .. L : w[i] + Window <= second}
    BY <1>1, <1>3, <1>5 DEF Expired
  <1>7. IsFiniteSet(1 .. L) /\ Cardinality(1 .. L) = L
    BY FS_Interval
  <1>8. IsFiniteSet(E) /\ Cardinality(E) <= L
    BY <1>6, <1>7, FS_Subset
  <1>9. PICK n \in Nat : n = Cardinality(E)
    BY <1>8, FS_CardinalityType
  <1>10. ASSUME NEW i \in E PROVE i <= n
    <2>1. 1 .. i \subseteq E
      <3>1. SUFFICES ASSUME NEW j \in 1 .. i PROVE j \in E
        OBVIOUS
      <3>2. i \in 1 .. L /\ j \in 1 .. L /\ j <= i
        BY <1>3, <1>6, <3>1
      <3>3. w[j] <= w[i] /\ w[i] + Window <= second
        BY <1>2, <1>3, <1>6, <3>2
      <3> QED
        BY <1>2, <1>4, <1>6, <3>2, <3>3
    <2>2. i \in Nat /\ Cardinality(1 .. i) = i
      BY <1>6, FS_Interval
    <2> QED
      BY <1>8, <1>9, <2>1, <2>2, FS_Subset
  <1>11. ASSUME NEW i \in 1 .. L, i \notin E PROVE n < i
    <2>1. E \subseteq 1 .. (i - 1)
      <3>1. SUFFICES ASSUME NEW j \in E PROVE j \in 1 .. (i - 1)
        OBVIOUS
      <3>2. j \in 1 .. L /\ w[j] + Window <= second
        BY <1>6
      <3>3. ~(i <= j)
        <4>1. SUFFICES ASSUME i <= j PROVE FALSE
          OBVIOUS
        <4>2. w[i] <= w[j]
          BY <1>2, <1>3, <3>2, <4>1
        <4>3. w[i] + Window <= second
          BY <1>2, <1>4, <3>2, <4>2
        <4> QED
          BY <1>6, <1>11, <4>3
      <3> QED
        BY <1>3, <3>2, <3>3
    <2>2. PICK c \in Nat : c = i - 1
      BY <1>3
    <2>3. IsFiniteSet(1 .. c) /\ Cardinality(1 .. c) = c
      BY FS_Interval
    <2>4. E \subseteq 1 .. c
      BY <2>1, <2>2
    <2>5. n <= c
      BY <1>9, <2>3, <2>4, FS_Subset
    <2> QED
      BY <1>3, <2>2, <2>5
  <1>12. n <= L
    BY <1>8, <1>9
  <1>13. E = 1 .. n
    BY <1>6, <1>10, <1>11, <1>12
  <1> QED
    BY <1>1, <1>3, <1>5, <1>9, <1>12, <1>13

LEMMA RecentSound ==
  ASSUME HitsInv, NEW k \in Keys PROVE InWindow(Recent(k), k, second)
  <1>1. PICK w : w = hits[k]
    OBVIOUS
  <1>2. InWindow(w, k, second) /\ second \in Nat /\ Limit(k) \in Nat
    BY <1>1, LimitPositive DEF HitsInv
  <1>3. PICK L \in Nat : L = Len(w) /\ DOMAIN w = 1 .. L
    BY <1>2, LenProperties DEF InWindow
  <1>4. PICK n \in Nat : n = Cardinality(Expired(k)) /\ n <= L
    BY <1>1, <1>3, ExpiredFirst
  <1>5. PICK r : r = SubSeq(w, n + 1, L)
    OBVIOUS
  <1>6. r = Recent(k)
    BY <1>1, <1>3, <1>4, <1>5 DEF Recent
  <1>7. \A i \in n + 1 .. L : w[i] \in Nat
    BY <1>2, <1>3, ElementOfSeq DEF InWindow
  <1>8. /\ r \in Seq(Nat)
        /\ Len(r) = IF n + 1 <= L THEN L - (n + 1) + 1 ELSE 0
        /\ \A i \in 1 .. L - (n + 1) + 1 : r[i] = w[n + 1 + i - 1]
    BY <1>5, <1>7, SubSeqProperties
  <1>9. Len(r) = L - n
    BY <1>4, <1>8
  <1>10. DOMAIN r = 1 .. L - n
    BY <1>8, <1>9, LenProperties
  <1>11. \A i \in 1 .. L - n : n + i \in DOMAIN w /\ r[i] = w[n + i]
    <2>1. SUFFICES ASSUME NEW i \in 1 .. L - n PROVE n + i \in DOMAIN w /\ r[i] = w[n + i]
      OBVIOUS
    <2>2. i \in 1 .. L - (n + 1) + 1 /\ n + 1 + i - 1 = n + i /\ n + i \in 1 .. L
      BY <1>4, <2>1
    <2> QED
      BY <1>3, <1>8, <2>2
  <1>12. Len(r) <= Limit(k)
    BY <1>2, <1>3, <1>4, <1>9 DEF InWindow
  <1>13. \A i \in DOMAIN r : r[i] <= second
    BY <1>2, <1>10, <1>11 DEF InWindow
  <1>14. ASSUME NEW i \in DOMAIN r, NEW j \in DOMAIN r, i <= j PROVE r[i] <= r[j]
    <2>1. n + i \in DOMAIN w /\ n + j \in DOMAIN w /\ n + i <= n + j /\ r[i] = w[n + i] /\ r[j] = w[n + j]
      BY <1>10, <1>11, <1>14
    <2> QED
      BY <1>2, <2>1 DEF InWindow
  <1> QED
    BY <1>6, <1>8, <1>12, <1>13, <1>14 DEF InWindow

Counted(k) == IF Full(k) THEN Recent(k) ELSE Append(Recent(k), second)

LEMMA CountedSound ==
  ASSUME HitsInv, NEW k \in Keys PROVE InWindow(Counted(k), k, second)
  <1>1. CASE Full(k)
    BY <1>1, RecentSound DEF Counted
  <1>2. CASE ~Full(k)
    <2>1. PICK r : r = Recent(k)
      OBVIOUS
    <2>2. InWindow(r, k, second) /\ second \in Nat /\ Limit(k) \in Nat
      BY <2>1, RecentSound, LimitPositive DEF HitsInv
    <2>3. PICK L \in Nat : L = Len(r) /\ DOMAIN r = 1 .. L
      BY <2>2, LenProperties DEF InWindow
    <2>4. L < Limit(k)
      BY <1>2, <2>1, <2>2, <2>3 DEF Full
    <2>5. PICK h : h = Append(r, second)
      OBVIOUS
    <2>6. /\ h \in Seq(Nat) /\ Len(h) = L + 1
          /\ \A i \in 1 .. L : h[i] = r[i]
          /\ h[L + 1] = second
      BY <2>2, <2>3, <2>5, AppendProperties DEF InWindow
    <2>7. DOMAIN h = 1 .. L + 1
      BY <2>6, LenProperties
    <2>8. \A i \in 1 .. L + 1 : i = L + 1 \/ i \in 1 .. L
      BY <2>3
    <2>9. \A i \in DOMAIN h : h[i] <= second
      BY <2>2, <2>3, <2>6, <2>7, <2>8 DEF InWindow
    <2>10. ASSUME NEW i \in DOMAIN h, NEW j \in DOMAIN h, i <= j PROVE h[i] <= h[j]
      <3>1. CASE j = L + 1
        BY <2>6, <2>9, <3>1
      <3>2. CASE j # L + 1
        <4>1. i \in 1 .. L /\ j \in 1 .. L
          BY <2>7, <2>10, <3>2
        <4> QED
          BY <2>2, <2>3, <2>6, <2>10, <4>1 DEF InWindow
      <3> QED
        BY <3>1, <3>2
    <2>11. Len(h) <= Limit(k)
      BY <2>2, <2>4, <2>6
    <2>12. h = Counted(k)
      BY <1>2, <2>1, <2>5 DEF Counted
    <2> QED
      BY <2>6, <2>9, <2>10, <2>11, <2>12 DEF InWindow
  <1> QED
    BY <1>1, <1>2

\* When the oldest hit in a full window leaves it, there is room.
LEMMA WaitOfFull ==
  ASSUME HitsInv, NEW k \in Keys, Full(k)
  PROVE  /\ RetryAfter(k) \in Int
         /\ Cardinality({i \in DOMAIN Recent(k) : Recent(k)[i] + Window > second + RetryAfter(k)}) < Limit(k)
  <1>1. PICK r : r = Recent(k)
    OBVIOUS
  <1>2. InWindow(r, k, second) /\ second \in Nat /\ Limit(k) \in Nat \ {0} /\ Window \in Nat
    BY <1>1, RecentSound, LimitPositive, SignInAssumption DEF HitsInv
  <1>3. PICK L \in Nat : L = Len(r) /\ DOMAIN r = 1 .. L
    BY <1>2, LenProperties DEF InWindow
  <1>4. L = Limit(k) /\ 1 \in 1 .. L
    BY <1>1, <1>2, <1>3 DEF Full, InWindow
  <1>5. \A i \in 1 .. L : r[i] \in Nat
    BY <1>2, <1>3, ElementOfSeq DEF InWindow
  <1>6. PICK a \in Nat : a = r[1]
    BY <1>4, <1>5
  <1>7. RetryAfter(k) = a + Window - second
    BY <1>1, <1>6 DEF RetryAfter
  <1>8. PICK S : S = {i \in DOMAIN r : r[i] + Window > second + RetryAfter(k)}
    OBVIOUS
  <1>9. S \subseteq 2 .. L
    <2>1. SUFFICES ASSUME NEW i \in S PROVE i \in 2 .. L
      OBVIOUS
    <2>2. i \in 1 .. L /\ r[i] + Window > second + (a + Window - second)
      BY <1>3, <1>7, <1>8
    <2>3. r[i] > a
      BY <1>2, <1>5, <1>6, <2>2
    <2>4. i # 1
      BY <1>6, <2>3
    <2> QED
      BY <2>2, <2>4
  <1>10. IsFiniteSet(2 .. L) /\ Cardinality(2 .. L) = L - 1
    BY <1>3, <1>4, FS_Interval
  <1>11. Cardinality(S) <= L - 1 /\ Cardinality(S) \in Nat
    BY <1>9, <1>10, FS_Subset, FS_CardinalityType
  <1>12. Cardinality(S) < Limit(k)
    BY <1>3, <1>4, <1>11
  <1> QED
    BY <1>1, <1>2, <1>6, <1>7, <1>8, <1>12

(***************************************************************************)
(* The invariant.                                                          *)
(***************************************************************************)
Answers == {"none", "ok", "failed", "limited", "invalid"}
ActionRow ==
  [kind : {"send", "verify", "signOut", "over"}, email : Emails, code : Nat, stage : {"sent", "mail", "answered"},
   answer : Answers, key : Keys, wait : Int, session : Nat, anon : BOOLEAN]
IssuedRow == [email : Emails, expires : Nat, spent : BOOLEAN, tries : Nat]
OpenedRow == [email : Emails, code : Nat, revoked : BOOLEAN]

IsCard(d) ==
  /\ d = [step |-> d.step, email |-> d.email, until |-> d.until, busy |-> d.busy, sent |-> d.sent]
  /\ d.email \in Emails /\ d.busy \in Nat /\ d.sent \in Nat

SignInTypes ==
  /\ actions \in Seq(ActionRow) /\ issued \in Seq(IssuedRow) /\ opened \in Seq(OpenedRow)
  /\ inbox \in [Emails -> Seq(Nat)]
  /\ jar \in [session : Nat, anon : BOOLEAN]
  /\ card = [t \in Tabs |-> card[t]] /\ \A t \in Tabs : IsCard(card[t])

CodeOf(n, e) == n \in DOMAIN issued /\ issued[n].email = e
Mailed(n, e) == \E i \in DOMAIN inbox[e] : inbox[e][i] = n

\* A code is spent because a later one replaced it, it was tried too often, or it opened a session.
WhySpent(n) ==
  issued[n].spent => \/ \E m \in DOMAIN issued : m > n /\ issued[m].email = issued[n].email
                     \/ issued[n].tries >= Attempts
                     \/ \E s \in DOMAIN opened : opened[s].code = n

SignedIn(a) == a.kind = "verify" /\ a.answer = "ok"

\* A session that nobody has yet: the answer that brings it is its only mention.
FreshSession(c) ==
  LET s == actions[c].session IN
  /\ s \in DOMAIN opened /\ ~opened[s].revoked /\ opened[s].email = actions[c].email
  /\ jar.session # s
  /\ \A d \in DOMAIN actions : actions[d].session = s => d = c

ActionInv(c) ==
  LET a == actions[c] IN
  /\ a.stage # "answered" => a.answer = "none"
  /\ a.stage = "mail" => a.kind = "send" /\ CodeOf(a.code, a.email)
  /\ a.kind = "send" /\ a.answer = "ok" => CodeOf(a.code, a.email) /\ Mailed(a.code, a.email)
  /\ a.session <= Len(opened)
  /\ a.kind = "signOut" => a.session # 0
  /\ a.kind = "verify" /\ ~a.anon => owner # Nobody
  /\ SignedIn(a) => owner # Nobody /\ FreshSession(c)

JarInv == jar.session <= Len(opened) /\ (~jar.anon => owner # Nobody)

Waiting(t, c) == c \in DOMAIN actions /\ actions[c].kind # "over" /\ actions[c].email = card[t].email

CardInv ==
  /\ \A t \in Tabs : /\ card[t].busy # 0 => Waiting(t, card[t].busy)
                     /\ card[t].sent # 0 => CodeOf(card[t].sent, card[t].email) /\ Mailed(card[t].sent, card[t].email)
  /\ \A t, u \in Tabs : card[t].busy # 0 /\ card[t].busy = card[u].busy => t = u

SignInInv ==
  /\ HitsInv /\ SignInTypes /\ JarInv /\ CardInv
  /\ \A n \in DOMAIN issued : WhySpent(n)
  /\ \A c \in DOMAIN actions : ActionInv(c)

LEMMA SignInInvHonest == SignInInv => SentIsUsable /\ BuildReachable
  <1> SUFFICES ASSUME SignInInv PROVE SentIsUsable /\ BuildReachable
    OBVIOUS
  <1>1. SentIsUsable
    BY DEF SignInInv, CardInv, CodeOf, Mailed, WhySpent, SentIsUsable
  <1>2. BuildReachable
    BY DEF SignInInv, JarInv, SignInTypes, BuildReachable
  <1> QED
    BY <1>1, <1>2

LEMMA NoCallRow ==
  /\ NoCall \in ActionRow
  /\ NoCall.kind = "over" /\ NoCall.stage = "answered" /\ NoCall.answer = "none" /\ NoCall.session = 0
  <1>1. PICK e : e \in Emails /\ e = CHOOSE f \in Emails : TRUE
    BY SignInAssumption
  <1>2. NoCall = [kind |-> "over", email |-> e, code |-> 0, stage |-> "answered",
                  answer |-> "none", key |-> "ip", wait |-> 0, session |-> 0, anon |-> FALSE]
    BY <1>1 DEF NoCall
  <1> QED
    BY <1>1, <1>2 DEF ActionRow, Answers, Keys

LEMMA SignInInitSound == SignInInit => SignInInv
  <1> SUFFICES ASSUME SignInInit PROVE SignInInv
    OBVIOUS
  <1>1. PICK empty : empty = <<>>
    OBVIOUS
  <1>2. empty \in Seq(ActionRow) /\ empty \in Seq(IssuedRow) /\ empty \in Seq(OpenedRow) /\ empty \in Seq(Nat) /\ Len(empty) = 0
    BY <1>1
  <1>3. \A i \in DOMAIN empty : FALSE
    BY <1>2, LenProperties
  <1>4. /\ actions = empty /\ issued = empty /\ opened = empty /\ second = 0
        /\ inbox = [e \in Emails |-> empty] /\ hits = [k \in Keys |-> empty]
        /\ jar = [session |-> 0, anon |-> TRUE]
        /\ card \in [Tabs -> [step : {"email"}, email : Emails, until : {Waits}, busy : {0}, sent : {0}]]
    BY <1>1 DEF SignInInit
  <1>5. \A t \in Tabs : card[t] \in [step : {"email"}, email : Emails, until : {Waits}, busy : {0}, sent : {0}]
    BY <1>4
  <1>6. \A t \in Tabs : IsCard(card[t]) /\ card[t].busy = 0 /\ card[t].sent = 0
    BY <1>5 DEF IsCard
  <1>7. HitsInv
    <2>1. ASSUME NEW k \in Keys PROVE InWindow(empty, k, 0)
      BY <1>2, <1>3, LimitPositive DEF InWindow
    <2> QED
      BY <1>4, <2>1 DEF HitsInv
  <1>8. SignInTypes
    BY <1>2, <1>4, <1>6 DEF SignInTypes
  <1>9. JarInv
    BY <1>2, <1>4 DEF JarInv
  <1>10. CardInv
    BY <1>6 DEF CardInv
  <1> QED
    BY <1>3, <1>4, <1>7, <1>8, <1>9, <1>10 DEF SignInInv

(***************************************************************************)
(* Frames.                                                                 *)
(***************************************************************************)

\* What every step keeps: codes, mails, sessions and an owner.
Kept ==
  /\ \A n \in DOMAIN issued : n \in DOMAIN issued' /\ issued'[n].email = issued[n].email
  /\ \A e \in Emails, n \in Nat : Mailed(n, e) => Mailed(n, e)'
  /\ \A s \in DOMAIN opened : s \in DOMAIN opened' /\ opened'[s].email = opened[s].email
  /\ Len(opened) <= Len(opened')
  /\ owner # Nobody => owner' # Nobody

LEMMA ActionFrame ==
  ASSUME SignInInv, Kept, SignInTypes', NEW c \in DOMAIN actions, c \in DOMAIN actions', actions'[c] = actions[c],
         SignedIn(actions[c]) =>
           /\ ~opened'[actions[c].session].revoked /\ jar'.session # actions[c].session
           /\ \A d \in DOMAIN actions' : actions'[d].session = actions[c].session => d = c
  PROVE  ActionInv(c)'
  <1>1. PICK a : a = actions[c]
    OBVIOUS
  <1>2. ActionInv(c) /\ a \in ActionRow
    BY <1>1, ElementOfSeq, LenProperties DEF SignInInv, SignInTypes
  <1>3. a.email \in Emails /\ a.code \in Nat /\ a.session \in Nat
    BY <1>2 DEF ActionRow
  <1>4. Len(opened) \in Nat /\ Len(opened') \in Nat
    BY LenProperties DEF SignInInv, SignInTypes
  <1>5. CodeOf(a.code, a.email) => CodeOf(a.code, a.email)'
    BY DEF Kept, CodeOf
  <1>6. Mailed(a.code, a.email) => Mailed(a.code, a.email)'
    BY <1>3 DEF Kept
  <1>7. a.session <= Len(opened')
    BY <1>1, <1>2, <1>3, <1>4 DEF ActionInv, Kept
  <1>8. SignedIn(a) => owner' # Nobody /\ FreshSession(c)'
    BY <1>1, <1>2 DEF ActionInv, Kept, FreshSession
  <1> QED
    BY <1>1, <1>2, <1>5, <1>6, <1>7, <1>8 DEF ActionInv, Kept

\* Codes that change no further than they must keep the reason why they are spent.
LEMMA SpentFrame ==
  ASSUME SignInInv, issued' = issued, SignInTypes', Kept,
         \A s \in DOMAIN opened : opened'[s].code = opened[s].code
  PROVE  \A n \in DOMAIN issued' : WhySpent(n)'
  BY DEF SignInInv, WhySpent, Kept

\* The cards keep what they say when the calls they wait for stay theirs.
LEMMA CardFrame ==
  ASSUME SignInInv, Kept, card' = card,
         \A t \in Tabs : card[t].busy # 0 => Waiting(t, card[t].busy)'
  PROVE  CardInv'
  <1>1. \A t \in Tabs : card[t].email \in Emails /\ card[t].sent \in Nat
    BY DEF SignInInv, SignInTypes, IsCard
  <1>2. \A t \in Tabs : card[t].sent # 0 => CodeOf(card[t].sent, card[t].email)' /\ Mailed(card[t].sent, card[t].email)'
    BY <1>1 DEF SignInInv, CardInv, Kept, CodeOf
  <1> QED
    BY <1>2 DEF SignInInv, CardInv

(***************************************************************************)
(* The steps of the gateway.                                               *)
(***************************************************************************)

\* The place of call c among the actions now holds x.
Put(c, x) == actions' = [actions EXCEPT ![c] = x]

LEMMA ActionsAt ==
  ASSUME SignInInv, NEW c \in DOMAIN actions, NEW x \in ActionRow, Put(c, x)
  PROVE  /\ actions' \in Seq(ActionRow) /\ DOMAIN actions' = DOMAIN actions
         /\ \A d \in DOMAIN actions : actions'[d] = IF d = c THEN x ELSE actions[d]
  <1>1. actions \in Seq(ActionRow) /\ DOMAIN actions = 1 .. Len(actions)
    BY LenProperties DEF SignInInv, SignInTypes
  <1>2. /\ actions' \in Seq(ActionRow) /\ Len(actions') = Len(actions)
        /\ \A d \in 1 .. Len(actions) : actions'[d] = IF d = c THEN x ELSE actions[d]
    BY <1>1, ExceptSeq DEF Put
  <1>3. DOMAIN actions' = 1 .. Len(actions')
    BY <1>2, LenProperties
  <1> QED
    BY <1>1, <1>2, <1>3

LEMMA ActionTyped ==
  ASSUME SignInInv, NEW c \in DOMAIN actions PROVE actions[c] \in ActionRow
  BY ElementOfSeq, LenProperties DEF SignInInv, SignInTypes

LEMMA AwaitedIs ==
  ASSUME SignInInv, NEW c \in DOMAIN actions, NEW y \in ActionRow
  PROVE  /\ Awaited(c, y) \in ActionRow
         /\ Awaited(c, y) = y \/ (Awaited(c, y) = NoCall /\ \A t \in Tabs : card[t].busy # c)
  BY NoCallRow DEF Awaited

\* What a step shows: no card is done without its session, and no wait is too short.
HonestStep == DoneWithCookie /\ WaitIsEnough

LEMMA QuietStep ==
  ASSUME \A t \in Tabs : card'[t].step = "done" => card[t].step = "done",
         \A c \in DOMAIN actions : actions'[c].answer = "limited" => actions[c].answer = "limited"
  PROVE  HonestStep
  BY DEF HonestStep, DoneWithCookie, WaitIsEnough

\* A step of the gateway for one call: what it puts in the call's place is the call still, or
\* nobody waits for it.
LEMMA GatewayStep ==
  ASSUME SignInInv, NEW c \in DOMAIN actions, NEW y \in ActionRow, NEW x, x = y \/ x = Awaited(c, y),
         Put(c, x),
         y.kind = actions[c].kind, y.kind # "over", y.email = actions[c].email,
         card' = card, jar' = jar, issued' \in Seq(IssuedRow), opened' \in Seq(OpenedRow),
         inbox' \in [Emails -> Seq(Nat)], HitsInv', Kept,
         \A n \in DOMAIN issued' : WhySpent(n)',
         \A d \in DOMAIN actions : d # c /\ SignedIn(actions[d]) =>
           ~opened'[actions[d].session].revoked /\ y.session # actions[d].session,
         x = y => ActionInv(c)'
  PROVE  SignInInv' /\ (y.answer # "limited" => HonestStep)
  <1>1. x \in ActionRow /\ (x = y \/ (x = NoCall /\ \A t \in Tabs : card[t].busy # c))
    BY AwaitedIs
  <1>2. /\ actions' \in Seq(ActionRow) /\ DOMAIN actions' = DOMAIN actions
        /\ \A d \in DOMAIN actions : actions'[d] = IF d = c THEN x ELSE actions[d]
    BY <1>1, ActionsAt
  <1>3. SignInTypes'
    BY <1>2 DEF SignInInv, SignInTypes
  <1>4. JarInv'
    <2>1. Len(opened) \in Nat /\ Len(opened') \in Nat /\ jar.session \in Nat
      BY <1>3, LenProperties DEF SignInInv, SignInTypes
    <2> QED
      BY <2>1 DEF SignInInv, JarInv, Kept
  <1>5. CardInv'
    <2>1. ASSUME NEW t \in Tabs, card[t].busy # 0 PROVE Waiting(t, card[t].busy)'
      <3>1. Waiting(t, card[t].busy)
        BY <2>1 DEF SignInInv, CardInv
      <3>2. CASE card[t].busy = c
        <4>1. x = y
          BY <1>1, <3>2
        <4> QED
          BY <1>2, <3>1, <3>2, <4>1 DEF Waiting
      <3>3. CASE card[t].busy # c
        BY <1>2, <3>1, <3>3 DEF Waiting
      <3> QED
        BY <3>2, <3>3
    <2> QED
      BY <2>1, CardFrame
  <1>6. ASSUME NEW d \in DOMAIN actions, d # c PROVE ActionInv(d)'
    <2>1. actions'[d] = actions[d] /\ ActionInv(d)
      BY <1>2, <1>6 DEF SignInInv
    <2>2. ASSUME SignedIn(actions[d])
          PROVE  /\ ~opened'[actions[d].session].revoked /\ jar'.session # actions[d].session
                 /\ \A b \in DOMAIN actions' : actions'[b].session = actions[d].session => b = d
      <3>1. FreshSession(d)
        BY <2>1, <2>2 DEF ActionInv
      <3>2. actions[d].session # 0
        <4>1. DOMAIN opened = 1 .. Len(opened)
          BY LenProperties DEF SignInInv, SignInTypes
        <4> QED
          BY <3>1, <4>1 DEF FreshSession
      <3>3. x.session # actions[d].session
        BY <1>1, <1>6, <2>2, <3>2, NoCallRow
      <3> QED
        BY <1>2, <1>6, <2>2, <3>1, <3>3 DEF FreshSession
    <2> QED
      BY <1>2, <1>3, <2>1, <2>2, ActionFrame
  <1>7. ActionInv(c)'
    <2>1. CASE x = y
      BY <2>1
    <2>2. CASE x = NoCall
      <3>1. 0 <= Len(opened')
        BY LenProperties
      <3> QED
        BY <1>2, <2>2, <3>1, NoCallRow DEF ActionInv, SignedIn
    <2> QED
      BY <1>1, <2>1, <2>2
  <1>8. ASSUME y.answer # "limited" PROVE HonestStep
    BY <1>1, <1>2, <1>8, NoCallRow, QuietStep
  <1> QED
    BY <1>2, <1>3, <1>4, <1>5, <1>6, <1>7, <1>8 DEF SignInInv

\* Calls of other sessions are apart from a call that keeps its own.
LEMMA OthersApart ==
  ASSUME SignInInv, NEW c \in DOMAIN actions, NEW d \in DOMAIN actions, d # c, SignedIn(actions[d])
  PROVE  ~opened[actions[d].session].revoked /\ actions[c].session # actions[d].session
  BY DEF SignInInv, ActionInv, FreshSession

LEMMA TakenOne ==
  ASSUME HitsInv, NEW k \in Keys, hits' = Taken(hits, k), second' = second
  PROVE  HitsInv' /\ hits'[k] = Counted(k)
  <1>1. hits' = [hits EXCEPT ![k] = Counted(k)]
    BY DEF Taken, Counted
  <1> QED
    BY <1>1, CountedSound DEF HitsInv, InWindow, Limit

LEMMA TakenTwo ==
  ASSUME HitsInv, NEW j \in Keys, NEW k \in Keys, j # k, hits' = Taken(Taken(hits, j), k), second' = second
  PROVE  HitsInv' /\ hits'[k] = Counted(k)
  <1>1. hits' = [[hits EXCEPT ![j] = Counted(j)] EXCEPT ![k] = Counted(k)]
    BY DEF Taken, Counted
  <1>2. hits' = [i \in Keys |-> IF i = k THEN Counted(k) ELSE IF i = j THEN Counted(j) ELSE hits[i]]
    BY <1>1 DEF HitsInv
  <1> QED
    BY <1>2, CountedSound DEF HitsInv, InWindow, Limit

LEMMA MailArrives ==
  ASSUME SignInInv, NEW e \in Emails, NEW n \in Nat, inbox' = [inbox EXCEPT ![e] = Append(@, n)]
  PROVE  /\ inbox' \in [Emails -> Seq(Nat)]
         /\ Mailed(n, e)'
         /\ \A f \in Emails, m \in Nat : Mailed(m, f) => Mailed(m, f)'
  <1>1. PICK w : w = inbox[e]
    OBVIOUS
  <1>2. w \in Seq(Nat) /\ inbox \in [Emails -> Seq(Nat)]
    BY <1>1 DEF SignInInv, SignInTypes
  <1>3. PICK L \in Nat : L = Len(w) /\ DOMAIN w = 1 .. L
    BY <1>2, LenProperties
  <1>4. PICK h : h = Append(w, n)
    OBVIOUS
  <1>5. h \in Seq(Nat) /\ Len(h) = L + 1 /\ (\A i \in 1 .. L : h[i] = w[i]) /\ h[L + 1] = n
    BY <1>2, <1>3, <1>4, AppendProperties
  <1>6. DOMAIN h = 1 .. L + 1
    BY <1>5, LenProperties
  <1>7. inbox' = [inbox EXCEPT ![e] = h]
    BY <1>1, <1>4
  <1>8. inbox' \in [Emails -> Seq(Nat)] /\ \A f \in Emails : inbox'[f] = IF f = e THEN h ELSE inbox[f]
    BY <1>2, <1>5, <1>7
  <1>9. Mailed(n, e)'
    BY <1>3, <1>5, <1>6, <1>8 DEF Mailed
  <1>10. ASSUME NEW f \in Emails, NEW m \in Nat, Mailed(m, f) PROVE Mailed(m, f)'
    <2>1. PICK i \in DOMAIN inbox[f] : inbox[f][i] = m
      BY <1>10 DEF Mailed
    <2>2. CASE f = e
      <3>1. i \in DOMAIN h /\ h[i] = m
        BY <1>1, <1>3, <1>5, <1>6, <2>1, <2>2
      <3> QED
        BY <1>8, <2>2, <3>1 DEF Mailed
    <2>3. CASE f # e
      BY <1>8, <2>1, <2>3 DEF Mailed
    <2> QED
      BY <2>2, <2>3
  <1> QED
    BY <1>8, <1>9, <1>10

\* A new code is the newest of its address, and replaces the others.
LEMMA IssueSound ==
  ASSUME SignInInv, NEW e \in Emails, Issue(e), opened' = opened
  PROVE  /\ issued' \in Seq(IssuedRow)
         /\ \A n \in DOMAIN issued : n \in DOMAIN issued' /\ issued'[n].email = issued[n].email
         /\ Len(issued) + 1 \in DOMAIN issued' /\ issued'[Len(issued) + 1].email = e
         /\ \A n \in DOMAIN issued' : WhySpent(n)'
  <1>1. PICK L \in Nat : L = Len(issued) /\ DOMAIN issued = 1 .. L
    BY LenProperties DEF SignInInv, SignInTypes
  <1>2. \A n \in 1 .. L : issued[n] \in IssuedRow
    BY <1>1, ElementOfSeq DEF SignInInv, SignInTypes
  <1>3. PICK old : old = [n \in 1 .. L |-> IF issued[n].email = e THEN [issued[n] EXCEPT !.spent = TRUE] ELSE issued[n]]
    OBVIOUS
  <1>4. PICK r : r = [email |-> e, expires |-> second + CodeTtl, spent |-> FALSE, tries |-> 0]
    OBVIOUS
  <1>5. r \in IssuedRow
    <2>1. second + CodeTtl \in Nat
      BY SignInAssumption DEF SignInInv, HitsInv
    <2> QED
      BY <1>4, <2>1 DEF IssuedRow
  <1>6. issued' = Append(old, r)
    BY <1>1, <1>3, <1>4 DEF Issue
  <1>7. \A n \in 1 .. L : /\ old[n] \in IssuedRow /\ old[n].email = issued[n].email /\ old[n].tries = issued[n].tries
                          /\ old[n].spent => issued[n].spent \/ issued[n].email = e
    BY <1>2, <1>3 DEF IssuedRow
  <1>8. old \in Seq(IssuedRow) /\ Len(old) = L
    <2>1. old \in [1 .. L -> IssuedRow]
      BY <1>3, <1>7
    <2>2. old \in Seq(IssuedRow)
      BY <2>1, SeqDef
    <2>3. DOMAIN old = 1 .. Len(old) /\ Len(old) \in Nat
      BY <2>2, LenProperties
    <2> QED
      BY <2>1, <2>2, <2>3
  <1>9. /\ issued' \in Seq(IssuedRow) /\ Len(issued') = L + 1
        /\ \A n \in 1 .. L : issued'[n] = old[n]
        /\ issued'[L + 1] = r
    BY <1>5, <1>6, <1>8, AppendProperties
  <1>10. DOMAIN issued' = 1 .. L + 1
    BY <1>9, LenProperties
  <1>11. r.email = e /\ r.spent = FALSE
    BY <1>4
  <1>12. ASSUME NEW n \in DOMAIN issued' PROVE WhySpent(n)'
    <2>1. CASE n = L + 1
      BY <1>9, <1>11, <2>1 DEF WhySpent
    <2>2. CASE n # L + 1
      <3>1. n \in 1 .. L /\ L + 1 > n /\ n \in DOMAIN issued
        BY <1>1, <1>10, <2>2
      <3>2. CASE issued[n].email = e
        BY <1>7, <1>9, <1>10, <1>11, <3>1, <3>2 DEF WhySpent
      <3>3. CASE issued[n].email # e
        <4>1. issued'[n].spent => issued[n].spent
          BY <1>7, <1>9, <3>1, <3>3
        <4>2. WhySpent(n)
          BY <3>1 DEF SignInInv
        <4>3. ASSUME NEW m \in DOMAIN issued, m > n, issued[m].email = issued[n].email
              PROVE  m \in DOMAIN issued' /\ issued'[m].email = issued'[n].email
          BY <1>1, <1>7, <1>9, <1>10, <3>1, <4>3
        <4>4. issued'[n].tries = issued[n].tries
          BY <1>7, <1>9, <3>1
        <4> QED
          BY <4>1, <4>2, <4>3, <4>4 DEF WhySpent
      <3> QED
        BY <3>2, <3>3
    <2> QED
      BY <2>1, <2>2
  <1> QED
    BY <1>1, <1>7, <1>9, <1>10, <1>11, <1>12

\* What an answer changes of a call.
LEMMA AnswerRow ==
  ASSUME NEW a \in ActionRow, NEW answer \in Answers
  PROVE  \E y \in ActionRow :
           /\ y = [a EXCEPT !.stage = "answered", !.answer = answer]
           /\ y.stage = "answered" /\ y.answer = answer /\ y.kind = a.kind /\ y.email = a.email
           /\ y.code = a.code /\ y.session = a.session /\ y.anon = a.anon
  <1>1. PICK y : y = [a EXCEPT !.stage = "answered", !.answer = answer]
    OBVIOUS
  <1>2. /\ y \in ActionRow /\ y.stage = "answered" /\ y.answer = answer /\ y.kind = a.kind /\ y.email = a.email
        /\ y.code = a.code /\ y.session = a.session /\ y.anon = a.anon
    BY <1>1 DEF ActionRow
  <1> QED
    BY <1>1, <1>2

\* A call answered that it is limited, whatever its window.
LEMMA LimitedStep ==
  ASSUME SignInInv, NEW c \in DOMAIN actions, actions[c].kind # "over", NEW k \in Keys, Full(k),
         Put(c, Limited(c, k)), HitsInv', hits'[k] = Counted(k),
         UNCHANGED <<card, jar, inbox, issued, opened, owner>>
  PROVE  SignInInv' /\ HonestStep
  <1>1. PICK a : a = actions[c]
    OBVIOUS
  <1>2. a \in ActionRow
    BY <1>1, ActionTyped
  <1>4. PICK w \in Int : w = RetryAfter(k)
    BY WaitOfFull DEF SignInInv
  <1>a. "limited" \in Answers
    BY DEF Answers
  <1>3. PICK y : y = [a EXCEPT !.stage = "answered", !.answer = "limited", !.key = k, !.wait = w]
    OBVIOUS
  <1>5. /\ y \in ActionRow /\ y.stage = "answered" /\ y.answer = "limited" /\ y.kind = a.kind /\ y.email = a.email
        /\ y.session = a.session /\ y.anon = a.anon
    BY <1>2, <1>3, <1>a DEF ActionRow
  <1>6. Limited(c, k) = Awaited(c, y)
    BY <1>1, <1>3, <1>4 DEF Limited
  <1>7. PICK x : x = Awaited(c, y) /\ Put(c, x)
    BY <1>6 DEF Put
  <1>8. issued' \in Seq(IssuedRow) /\ opened' \in Seq(OpenedRow) /\ inbox' \in [Emails -> Seq(Nat)]
    BY DEF SignInInv, SignInTypes
  <1>9. Kept
    BY LenProperties DEF Kept, SignInInv, SignInTypes, Mailed
  <1>10. \A n \in DOMAIN issued' : WhySpent(n)'
    BY DEF SignInInv, WhySpent
  <1>11. \A d \in DOMAIN actions : d # c /\ SignedIn(actions[d]) =>
           ~opened'[actions[d].session].revoked /\ y.session # actions[d].session
    BY <1>1, <1>5, OthersApart
  <1>12. ASSUME x = y PROVE ActionInv(c)'
    <2>1. actions'[c] = y
      BY <1>7, <1>12, <1>5, ActionsAt
    <2>2. ActionInv(c)
      BY DEF SignInInv
    <2> QED
      BY <1>1, <1>5, <2>1, <2>2 DEF ActionInv, SignedIn
  <1>13. SignInInv'
    <2>1. y.kind = actions[c].kind /\ y.kind # "over" /\ y.email = actions[c].email /\ card' = card /\ jar' = jar
      BY <1>1, <1>5
    <2>2. HitsInv'
      OBVIOUS
    <2> QED
      BY <1>5, <1>7, <1>8, <1>9, <1>10, <1>11, <1>12, <2>1, <2>2, GatewayStep
  <1>14. WaitIsEnough
    <2>1. x \in ActionRow /\ (x = y \/ x = NoCall)
      BY <1>5, <1>7, AwaitedIs
    <2>2. \A d \in DOMAIN actions : actions'[d] = IF d = c THEN x ELSE actions[d]
      BY <1>7, <2>1, ActionsAt
    <2>3. y.key = k /\ y.wait = w
      BY <1>2, <1>3 DEF ActionRow
    <2>4. Cardinality({i \in DOMAIN hits'[k] : hits'[k][i] + Window > second + w}) < Limit(k)
      BY <1>4, WaitOfFull DEF Counted, SignInInv
    <2> QED
      BY <2>1, <2>2, <2>3, <2>4, NoCallRow DEF WaitIsEnough
  <1>15. DoneWithCookie
    BY DEF DoneWithCookie
  <1> QED
    BY <1>13, <1>14, <1>15 DEF HonestStep

LEMMA RequestCodeStep ==
  ASSUME SignInInv, NEW c \in DOMAIN actions, RequestCode(c) PROVE SignInInv' /\ HonestStep
  <1>1. PICK a : a = actions[c]
    OBVIOUS
  <1>2. a \in ActionRow
    BY <1>1, ActionTyped
  <1>3. PICK e : e = a.email
    OBVIOUS
  <1>4. e \in Emails /\ e \in Keys /\ "ip" \in Keys /\ e # "ip"
    BY <1>2, <1>3, SignInAssumption DEF ActionRow, Keys
  <1>5. a.kind = "send" /\ a.stage = "sent" /\ UNCHANGED <<card, jar, inbox, opened, owner, second>>
    BY <1>1 DEF RequestCode
  <1>6. HitsInv
    BY DEF SignInInv
  <1>7. CASE Full("ip") /\ hits' = Taken(hits, "ip") /\ Put(c, Limited(c, "ip")) /\ UNCHANGED issued
    BY <1>1, <1>4, <1>5, <1>6, <1>7, TakenOne, LimitedStep
  <1>8. CASE Full(e) /\ hits' = Taken(Taken(hits, "ip"), e) /\ Put(c, Limited(c, e)) /\ UNCHANGED issued
    BY <1>1, <1>4, <1>5, <1>6, <1>8, TakenTwo, LimitedStep
  <1>9. CASE /\ hits' = Taken(Taken(hits, "ip"), e) /\ Issue(e)
             /\ actions' = [actions EXCEPT ![c] = [@ EXCEPT !.stage = "mail", !.code = Len(issued) + 1]]
    <2>1. PICK L \in Nat : L = Len(issued)
      BY LenProperties DEF SignInInv, SignInTypes
    <2>2. PICK y : y = [a EXCEPT !.stage = "mail", !.code = L + 1]
      OBVIOUS
    <2>3. /\ y \in ActionRow /\ y.stage = "mail" /\ y.code = L + 1 /\ y.kind = a.kind /\ y.email = a.email
          /\ y.session = a.session /\ y.anon = a.anon /\ y.answer = a.answer
      <3>1. L + 1 \in Nat
        OBVIOUS
      <3> QED
        BY <1>2, <2>2, <3>1 DEF ActionRow
    <2>4. Put(c, y)
      BY <1>1, <1>9, <2>1, <2>2 DEF Put
    <2>5. HitsInv'
      BY <1>4, <1>5, <1>6, <1>9, TakenTwo
    <2>6. /\ issued' \in Seq(IssuedRow)
          /\ \A n \in DOMAIN issued : n \in DOMAIN issued' /\ issued'[n].email = issued[n].email
          /\ L + 1 \in DOMAIN issued' /\ issued'[L + 1].email = e
          /\ \A n \in DOMAIN issued' : WhySpent(n)'
      BY <1>4, <1>5, <1>9, <2>1, IssueSound
    <2>7. Kept
      BY <1>5, <2>6, LenProperties DEF Kept, SignInInv, SignInTypes, Mailed
    <2>8. opened' \in Seq(OpenedRow) /\ inbox' \in [Emails -> Seq(Nat)]
      BY <1>5 DEF SignInInv, SignInTypes
    <2>9. \A d \in DOMAIN actions : d # c /\ SignedIn(actions[d]) =>
            ~opened'[actions[d].session].revoked /\ y.session # actions[d].session
      BY <1>1, <1>5, <2>3, OthersApart
    <2>10. ActionInv(c)'
      <3>1. actions'[c] = y
        BY <2>3, <2>4, ActionsAt
      <3>2. ActionInv(c) /\ a.answer = "none"
        BY <1>1, <1>5 DEF SignInInv, ActionInv
      <3>3. CodeOf(y.code, y.email)'
        BY <1>3, <2>3, <2>6 DEF CodeOf
      <3> QED
        BY <1>1, <1>5, <2>3, <3>1, <3>2, <3>3 DEF ActionInv, SignedIn
    <2> QED
      <3>1. a.answer = "none"
        BY <1>1, <1>5 DEF SignInInv, ActionInv
      <3> QED
        BY <1>1, <1>5, <2>3, <2>4, <2>5, <2>6, <2>7, <2>8, <2>9, <2>10, <3>1, GatewayStep
  <1> QED
    BY <1>1, <1>3, <1>7, <1>8, <1>9 DEF RequestCode, Put

LEMMA SendMailStep ==
  ASSUME SignInInv, NEW c \in DOMAIN actions, SendMail(c) PROVE SignInInv' /\ HonestStep
  <1>1. PICK a : a = actions[c]
    OBVIOUS
  <1>2. a \in ActionRow /\ ActionInv(c)
    BY <1>1, ActionTyped DEF SignInInv
  <1>3. a.kind = "send" /\ a.stage = "mail" /\ CodeOf(a.code, a.email)
    BY <1>1, <1>2 DEF SendMail, ActionInv
  <1>4. PICK n \in Nat, e \in Emails : n = a.code /\ e = a.email
    BY <1>2 DEF ActionRow
  <1>5. UNCHANGED <<card, jar, issued, opened, owner, hits, second>>
    BY DEF SendMail
  <1>6. PICK answer \in {"ok", "failed"} : /\ actions' = [actions EXCEPT ![c] = Answer(c, answer)]
                                           /\ \/ inbox' = [inbox EXCEPT ![e] = Append(@, n)]
                                              \/ inbox' = inbox /\ answer = "failed"
    BY <1>1, <1>4 DEF SendMail
  <1>a. answer \in Answers
    BY DEF Answers
  <1>7. PICK y \in ActionRow :
          /\ y = [a EXCEPT !.stage = "answered", !.answer = answer]
          /\ y.stage = "answered" /\ y.answer = answer /\ y.kind = a.kind /\ y.email = a.email
          /\ y.code = a.code /\ y.session = a.session /\ y.anon = a.anon
    BY <1>2, <1>a, AnswerRow
  <1>8. /\ y.stage = "answered" /\ y.answer = answer /\ y.kind = a.kind /\ y.email = a.email
        /\ y.code = a.code /\ y.session = a.session /\ y.anon = a.anon
    BY <1>7
  <1>9. PICK x : x = Awaited(c, y) /\ Put(c, x)
    BY <1>1, <1>6, <1>7 DEF Answer, Put
  <1>10. /\ inbox' \in [Emails -> Seq(Nat)]
         /\ answer = "ok" => Mailed(n, e)'
         /\ \A f \in Emails, m \in Nat : Mailed(m, f) => Mailed(m, f)'
    <2>1. CASE inbox' = [inbox EXCEPT ![e] = Append(@, n)]
      BY <2>1, MailArrives
    <2>2. CASE inbox' = inbox /\ answer = "failed"
      BY <2>2 DEF SignInInv, SignInTypes, Mailed
    <2> QED
      BY <1>6, <2>1, <2>2
  <1>11. issued' \in Seq(IssuedRow) /\ opened' \in Seq(OpenedRow) /\ HitsInv'
    BY <1>5 DEF SignInInv, SignInTypes, HitsInv, InWindow, Limit
  <1>12. Kept
    BY <1>5, <1>10, LenProperties DEF Kept, SignInInv, SignInTypes
  <1>13. \A m \in DOMAIN issued' : WhySpent(m)'
    BY <1>5 DEF SignInInv, WhySpent
  <1>14. \A d \in DOMAIN actions : d # c /\ SignedIn(actions[d]) =>
           ~opened'[actions[d].session].revoked /\ y.session # actions[d].session
    BY <1>1, <1>5, <1>8, OthersApart
  <1>15. ASSUME x = y PROVE ActionInv(c)'
    <2>1. actions'[c] = y
      BY <1>8, <1>9, <1>15, ActionsAt
    <2>2. CodeOf(n, e)'
      BY <1>3, <1>4, <1>5 DEF CodeOf
    <2> QED
      BY <1>1, <1>2, <1>3, <1>4, <1>5, <1>8, <1>10, <2>1, <2>2 DEF ActionInv, SignedIn
  <1> QED
    BY <1>1, <1>3, <1>5, <1>8, <1>9, <1>10, <1>11, <1>12, <1>13, <1>14, <1>15, GatewayStep

\* A verification answered without a session.
LEMMA InvalidStep ==
  ASSUME SignInInv, NEW c \in DOMAIN actions, actions[c].kind = "verify",
         Put(c, Answer(c, "invalid")), HitsInv',
         UNCHANGED <<card, jar, inbox, opened, owner>>,
         issued' \in Seq(IssuedRow), \A n \in DOMAIN issued : n \in DOMAIN issued' /\ issued'[n].email = issued[n].email,
         \A n \in DOMAIN issued' : WhySpent(n)'
  PROVE  SignInInv' /\ HonestStep
  <1>1. PICK a : a = actions[c]
    OBVIOUS
  <1>2. a \in ActionRow /\ ActionInv(c)
    BY <1>1, ActionTyped DEF SignInInv
  <1>a. "invalid" \in Answers
    BY DEF Answers
  <1>3. PICK y \in ActionRow :
          /\ y = [a EXCEPT !.stage = "answered", !.answer = "invalid"]
          /\ y.stage = "answered" /\ y.answer = "invalid" /\ y.kind = a.kind /\ y.email = a.email
          /\ y.code = a.code /\ y.session = a.session /\ y.anon = a.anon
    BY <1>2, <1>a, AnswerRow
  <1>4. /\ y.stage = "answered" /\ y.answer = "invalid" /\ y.kind = a.kind /\ y.email = a.email
        /\ y.session = a.session /\ y.anon = a.anon
    BY <1>3
  <1>5. PICK x : x = Awaited(c, y) /\ Put(c, x)
    BY <1>1, <1>3 DEF Answer, Put
  <1>6. opened' \in Seq(OpenedRow) /\ inbox' \in [Emails -> Seq(Nat)]
    BY DEF SignInInv, SignInTypes
  <1>7. Kept
    BY LenProperties DEF Kept, SignInInv, SignInTypes, Mailed
  <1>8. \A d \in DOMAIN actions : d # c /\ SignedIn(actions[d]) =>
          ~opened'[actions[d].session].revoked /\ y.session # actions[d].session
    BY <1>1, <1>4, OthersApart
  <1>9. ASSUME x = y PROVE ActionInv(c)'
    <2>1. actions'[c] = y
      BY <1>4, <1>5, <1>9, ActionsAt
    <2> QED
      BY <1>1, <1>2, <1>4, <2>1 DEF ActionInv, SignedIn
  <1>10. y.kind = actions[c].kind /\ y.kind # "over" /\ y.email = actions[c].email /\ card' = card /\ jar' = jar
    BY <1>1, <1>4
  <1> QED
    BY <1>4, <1>5, <1>6, <1>7, <1>8, <1>9, <1>10, GatewayStep

LEMMA TriedSound ==
  ASSUME SignInInv, NEW n \in DOMAIN issued, issued' = Tried(n), opened' = opened
  PROVE  /\ issued' \in Seq(IssuedRow)
         /\ \A m \in DOMAIN issued : m \in DOMAIN issued' /\ issued'[m].email = issued[m].email
         /\ \A m \in DOMAIN issued' : WhySpent(m)'
  <1>1. issued \in Seq(IssuedRow) /\ DOMAIN issued = 1 .. Len(issued) /\ issued[n] \in IssuedRow
    BY ElementOfSeq, LenProperties DEF SignInInv, SignInTypes
  <1>2. PICK r : r = issued[n]
    OBVIOUS
  <1>a. PICK k \in Nat : k = r.tries + 1
    BY <1>1, <1>2 DEF IssuedRow
  <1>b. Attempts \in Nat
    BY SignInAssumption
  <1>3. PICK b \in BOOLEAN : b = (k >= Attempts)
    <2>1. CASE k >= Attempts
      BY <1>b, <2>1
    <2>2. CASE ~(k >= Attempts)
      <3>1. (k >= Attempts) = FALSE
        BY <1>b, <2>2, SMT
      <3> QED
        BY <3>1
    <2> QED
      BY <2>1, <2>2
  <1>4. PICK q : q = [r EXCEPT !.tries = k, !.spent = b]
    OBVIOUS
  <1>5. q \in IssuedRow /\ q.email = r.email /\ q.tries = k /\ q.spent = b
    BY <1>1, <1>2, <1>4 DEF IssuedRow
  <1>6. issued' = [issued EXCEPT ![n] = q]
    BY <1>2, <1>a, <1>3, <1>4 DEF Tried
  <1>7. /\ issued' \in Seq(IssuedRow) /\ Len(issued') = Len(issued)
        /\ \A m \in 1 .. Len(issued) : issued'[m] = IF m = n THEN q ELSE issued[m]
    BY <1>1, <1>5, <1>6, ExceptSeq
  <1>8. DOMAIN issued' = DOMAIN issued
    BY <1>1, <1>7, LenProperties
  <1>9. \A m \in DOMAIN issued : issued'[m].email = issued[m].email
    BY <1>1, <1>2, <1>5, <1>7
  <1>10. ASSUME NEW m \in DOMAIN issued PROVE WhySpent(m)'
    <2>1. CASE m = n
      <3>1. issued'[m].spent => issued'[m].tries >= Attempts
        BY <1>1, <1>3, <1>5, <1>7, <2>1
      <3> QED
        BY <3>1 DEF WhySpent
    <2>2. CASE m # n
      <3>1. issued'[m] = issued[m] /\ WhySpent(m)
        BY <1>1, <1>7, <2>2 DEF SignInInv
      <3> QED
        BY <1>8, <1>9, <3>1 DEF WhySpent
    <2> QED
      BY <2>1, <2>2
  <1> QED
    BY <1>7, <1>8, <1>9, <1>10

\* A right code is spent, and opens a session nobody has.
Spend(n) == issued' = [issued EXCEPT ![n] = [@ EXCEPT !.spent = TRUE]]

LEMMA OpenStep ==
  ASSUME SignInInv, NEW c \in DOMAIN actions, actions[c].kind = "verify", actions[c].stage = "sent",
         actions[c].code \in DOMAIN issued,
         Spend(actions[c].code), OpenSession(c),
         Put(c, Verified(c, Len(opened) + 1)), HitsInv',
         UNCHANGED <<card, jar, inbox>>
  PROVE  SignInInv' /\ HonestStep
  <1>1. PICK a : a = actions[c]
    OBVIOUS
  <1>2. a \in ActionRow /\ ActionInv(c)
    BY <1>1, ActionTyped DEF SignInInv
  <1>3. PICK n \in DOMAIN issued : n = a.code
    BY <1>1
  <1>4. issued \in Seq(IssuedRow) /\ DOMAIN issued = 1 .. Len(issued) /\ issued[n] \in IssuedRow /\ n \in Nat
    BY ElementOfSeq, LenProperties DEF SignInInv, SignInTypes
  <1>5. PICK L \in Nat : L = Len(opened) /\ DOMAIN opened = 1 .. L
    BY LenProperties DEF SignInInv, SignInTypes
  <1>6. PICK o : o = [email |-> a.email, code |-> n, revoked |-> FALSE]
    OBVIOUS
  <1>7. o \in OpenedRow /\ o.email = a.email /\ o.code = n /\ ~o.revoked /\ a.email \in Emails
    BY <1>2, <1>4, <1>6 DEF OpenedRow, ActionRow
  <1>8. /\ opened' \in Seq(OpenedRow) /\ Len(opened') = L + 1
        /\ \A s \in 1 .. L : opened'[s] = opened[s]
        /\ opened'[L + 1] = o
    <2>1. opened' = Append(opened, o)
      BY <1>1, <1>3, <1>6 DEF OpenSession
    <2>2. opened \in Seq(OpenedRow)
      BY DEF SignInInv, SignInTypes
    <2> QED
      BY <1>5, <1>7, <2>1, <2>2, AppendProperties
  <1>9. DOMAIN opened' = 1 .. L + 1
    BY <1>8, LenProperties
  <1>10. PICK q : q = [issued[n] EXCEPT !.spent = TRUE]
    OBVIOUS
  <1>11. q \in IssuedRow /\ q.email = issued[n].email /\ q.tries = issued[n].tries
    BY <1>4, <1>10 DEF IssuedRow
  <1>12. issued' = [issued EXCEPT ![n] = q]
    BY <1>1, <1>3, <1>10 DEF Spend
  <1>13. /\ issued' \in Seq(IssuedRow) /\ Len(issued') = Len(issued)
         /\ \A m \in 1 .. Len(issued) : issued'[m] = IF m = n THEN q ELSE issued[m]
    BY <1>4, <1>11, <1>12, ExceptSeq
  <1>14. DOMAIN issued' = DOMAIN issued /\ \A m \in DOMAIN issued : issued'[m].email = issued[m].email
    BY <1>4, <1>11, <1>13, LenProperties
  <1>15. ASSUME NEW m \in DOMAIN issued' PROVE WhySpent(m)'
    <2>1. CASE m = n
      <3>1. L + 1 \in DOMAIN opened' /\ opened'[L + 1].code = n
        BY <1>7, <1>8, <1>9
      <3> QED
        BY <2>1, <3>1 DEF WhySpent
    <2>2. CASE m # n
      <3>1. issued'[m] = issued[m] /\ WhySpent(m)
        BY <1>4, <1>13, <1>14, <2>2 DEF SignInInv
      <3>2. \A s \in DOMAIN opened : s \in DOMAIN opened' /\ opened'[s].code = opened[s].code
        BY <1>5, <1>8, <1>9
      <3> QED
        BY <1>14, <3>1, <3>2 DEF WhySpent
    <2> QED
      BY <2>1, <2>2
  <1>16. owner' # Nobody /\ (owner # Nobody => owner' # Nobody)
    BY <1>1, <1>2, <1>7, SignInAssumption DEF OpenSession, ActionInv
  <1>17. Kept
    BY <1>5, <1>8, <1>9, <1>14, <1>16 DEF Kept, Mailed
  <1>18. PICK y : y = [a EXCEPT !.stage = "answered", !.answer = "ok", !.session = L + 1]
    OBVIOUS
  <1>19. /\ y \in ActionRow /\ y.stage = "answered" /\ y.answer = "ok" /\ y.kind = a.kind /\ y.email = a.email
         /\ y.session = L + 1 /\ y.anon = a.anon
    <2>1. L + 1 \in Nat
      OBVIOUS
    <2> QED
      BY <1>2, <1>18, <2>1 DEF ActionRow, Answers
  <1>20. PICK x : x = Awaited(c, y) /\ Put(c, x)
    BY <1>1, <1>5, <1>18 DEF Verified, Put
  <1>21. \A d \in DOMAIN actions : actions[d].session \in Nat /\ actions[d].session <= L
    BY <1>5, ActionTyped DEF SignInInv, ActionInv, ActionRow
  <1>22. \A d \in DOMAIN actions : d # c /\ SignedIn(actions[d]) =>
           ~opened'[actions[d].session].revoked /\ y.session # actions[d].session
    <2>1. SUFFICES ASSUME NEW d \in DOMAIN actions, d # c, SignedIn(actions[d])
                   PROVE  ~opened'[actions[d].session].revoked /\ y.session # actions[d].session
      OBVIOUS
    <2>2. FreshSession(d)
      BY <2>1 DEF SignInInv, ActionInv
    <2>3. actions[d].session \in 1 .. L /\ ~opened[actions[d].session].revoked
      BY <1>5, <2>2 DEF FreshSession
    <2> QED
      BY <1>5, <1>8, <1>19, <2>3
  <1>23. ASSUME x = y PROVE ActionInv(c)'
    <2>1. DOMAIN actions' = DOMAIN actions /\ \A d \in DOMAIN actions : actions'[d] = IF d = c THEN y ELSE actions[d]
      BY <1>19, <1>20, <1>23, ActionsAt
    <2>2. actions'[c] = y
      BY <2>1
    <2>3. jar'.session # L + 1
      BY <1>5, LenProperties DEF SignInInv, JarInv, SignInTypes
    <2>4. \A d \in DOMAIN actions' : actions'[d].session = L + 1 => d = c
      BY <1>21, <2>1
    <2>5. L + 1 \in DOMAIN opened' /\ ~opened'[L + 1].revoked /\ opened'[L + 1].email = y.email
      BY <1>7, <1>8, <1>9, <1>19
    <2>6. FreshSession(c)'
      BY <1>19, <2>2, <2>3, <2>4, <2>5 DEF FreshSession
    <2>7. y.session <= Len(opened')
      BY <1>8, <1>19
    <2> QED
      BY <1>1, <1>16, <1>19, <2>2, <2>6, <2>7 DEF ActionInv
  <1>24. y.kind = actions[c].kind /\ y.kind # "over" /\ y.email = actions[c].email /\ card' = card /\ jar' = jar
    BY <1>1, <1>19
  <1>25. inbox' \in [Emails -> Seq(Nat)]
    BY DEF SignInInv, SignInTypes
  <1> QED
    BY <1>8, <1>13, <1>15, <1>17, <1>19, <1>20, <1>22, <1>23, <1>24, <1>25, GatewayStep

LEMMA VerifyCodeStep ==
  ASSUME SignInInv, NEW c \in DOMAIN actions, VerifyCode(c) PROVE SignInInv' /\ HonestStep
  <1>1. /\ actions[c].kind = "verify" /\ actions[c].stage = "sent" /\ hits' = Taken(hits, "verify")
        /\ UNCHANGED <<card, jar, inbox, second>>
    BY DEF VerifyCode
  <1>2. "verify" \in Keys
    BY DEF Keys
  <1>3. HitsInv' /\ hits'["verify"] = Counted("verify")
    BY <1>1, <1>2, TakenOne DEF SignInInv
  <1>4. CASE /\ Full("verify")
             /\ Put(c, Limited(c, "verify")) /\ UNCHANGED <<issued, opened, owner>>
    BY <1>1, <1>2, <1>3, <1>4, LimitedStep
  <1>5. CASE Put(c, Answer(c, "invalid")) /\ UNCHANGED <<issued, opened, owner>>
    <2>1. issued' \in Seq(IssuedRow) /\ \A n \in DOMAIN issued' : WhySpent(n)'
      BY <1>5 DEF SignInInv, SignInTypes, WhySpent
    <2> QED
      BY <1>1, <1>3, <1>5, <2>1, InvalidStep
  <1>6. CASE \E n \in DOMAIN issued : /\ issued' = Tried(n)
                                      /\ Put(c, Answer(c, "invalid")) /\ UNCHANGED <<opened, owner>>
    BY <1>1, <1>3, <1>6, TriedSound, InvalidStep
  <1>7. CASE \E n \in DOMAIN issued : /\ n = actions[c].code
                                      /\ Spend(n)
                                      /\ OpenSession(c)
                                      /\ Put(c, Verified(c, Len(opened) + 1))
    BY <1>1, <1>3, <1>7, OpenStep
  <1> QED
    BY <1>4, <1>5, <1>6, <1>7 DEF VerifyCode, Put, Spend

LEMMA SignOutStep ==
  ASSUME SignInInv, NEW c \in DOMAIN actions, SignOut(c) PROVE SignInInv' /\ HonestStep
  <1>1. PICK a : a = actions[c]
    OBVIOUS
  <1>2. a \in ActionRow /\ ActionInv(c) /\ a.kind = "signOut"
    BY <1>1, ActionTyped DEF SignInInv, SignOut
  <1>3. UNCHANGED <<card, jar, inbox, issued, owner, hits, second>>
    BY DEF SignOut
  <1>a. "ok" \in Answers
    BY DEF Answers
  <1>4. PICK y \in ActionRow :
          /\ y = [a EXCEPT !.stage = "answered", !.answer = "ok"]
          /\ y.stage = "answered" /\ y.answer = "ok" /\ y.kind = a.kind /\ y.email = a.email
          /\ y.code = a.code /\ y.session = a.session /\ y.anon = a.anon
    BY <1>2, <1>a, AnswerRow
  <1>5. /\ y.stage = "answered" /\ y.answer = "ok" /\ y.kind = a.kind /\ y.email = a.email
        /\ y.session = a.session /\ y.anon = a.anon
    BY <1>4
  <1>6. PICK x : x = Awaited(c, y) /\ Put(c, x)
    BY <1>1, <1>4 DEF Answer, SignOut, Put
  <1>7. PICK s \in DOMAIN opened : s = a.session
    <2>1. a.session # 0 /\ a.session <= Len(opened) /\ a.session \in Nat
      BY <1>1, <1>2 DEF ActionInv, ActionRow
    <2> QED
      BY <2>1, LenProperties DEF SignInInv, SignInTypes
  <1>8. /\ opened' \in Seq(OpenedRow) /\ Len(opened') = Len(opened) /\ DOMAIN opened' = DOMAIN opened
        /\ \A r \in DOMAIN opened : /\ opened'[r].email = opened[r].email /\ opened'[r].code = opened[r].code
                                    /\ r # s => opened'[r] = opened[r]
    <2>1. opened \in Seq(OpenedRow) /\ DOMAIN opened = 1 .. Len(opened) /\ opened[s] \in OpenedRow
      BY ElementOfSeq, LenProperties DEF SignInInv, SignInTypes
    <2>2. CASE opened' = opened
      BY <2>1, <2>2
    <2>3. CASE opened' = [opened EXCEPT ![s] = [@ EXCEPT !.revoked = TRUE]]
      <3>1. PICK o : o = [opened[s] EXCEPT !.revoked = TRUE]
        OBVIOUS
      <3>2. o \in OpenedRow /\ o.email = opened[s].email /\ o.code = opened[s].code
        BY <2>1, <3>1 DEF OpenedRow
      <3>3. opened' = [opened EXCEPT ![s] = o]
        BY <2>3, <3>1
      <3>4. /\ opened' \in Seq(OpenedRow) /\ Len(opened') = Len(opened)
            /\ \A r \in 1 .. Len(opened) : opened'[r] = IF r = s THEN o ELSE opened[r]
        BY <2>1, <3>2, <3>3, ExceptSeq
      <3>5. DOMAIN opened' = DOMAIN opened
        BY <2>1, <3>4, LenProperties
      <3> QED
        BY <2>1, <3>2, <3>4, <3>5
    <2> QED
      BY <1>1, <1>7, <2>2, <2>3 DEF SignOut
  <1>9. Kept
    BY <1>3, <1>8, LenProperties DEF Kept, Mailed, SignInInv, SignInTypes
  <1>10. issued' \in Seq(IssuedRow) /\ inbox' \in [Emails -> Seq(Nat)] /\ HitsInv'
    BY <1>3 DEF SignInInv, SignInTypes, HitsInv, InWindow, Limit
  <1>11. \A n \in DOMAIN issued' : WhySpent(n)'
    BY <1>3, <1>8 DEF SignInInv, WhySpent
  <1>12. \A d \in DOMAIN actions : d # c /\ SignedIn(actions[d]) =>
           ~opened'[actions[d].session].revoked /\ y.session # actions[d].session
    <2>1. SUFFICES ASSUME NEW d \in DOMAIN actions, d # c, SignedIn(actions[d])
                   PROVE  ~opened'[actions[d].session].revoked /\ y.session # actions[d].session
      OBVIOUS
    <2>2. FreshSession(d)
      BY <2>1 DEF SignInInv, ActionInv
    <2>3. s # actions[d].session
      BY <1>1, <1>7, <2>1, OthersApart
    <2> QED
      BY <1>5, <1>7, <1>8, <2>2, <2>3 DEF FreshSession
  <1>13. ASSUME x = y PROVE ActionInv(c)'
    <2>1. actions'[c] = y
      BY <1>5, <1>6, <1>13, ActionsAt
    <2> QED
      BY <1>1, <1>2, <1>3, <1>5, <1>8, <2>1 DEF ActionInv, SignedIn
  <1>14. y.kind = actions[c].kind /\ y.kind # "over" /\ y.email = actions[c].email /\ card' = card /\ jar' = jar
    BY <1>1, <1>2, <1>3, <1>5
  <1> QED
    BY <1>5, <1>6, <1>8, <1>9, <1>10, <1>11, <1>12, <1>13, <1>14, GatewayStep

(***************************************************************************)
(* The steps of the browser.                                               *)
(***************************************************************************)

\* The card of tab t is now d.
Dealt(t, d) == card' = [card EXCEPT ![t] = d]

\* One card changes, and no call but the one it waited for.
LEMMA CardStep ==
  ASSUME SignInInv, Kept, NEW t \in Tabs, NEW d, IsCard(d), Dealt(t, d),
         \A c \in DOMAIN actions : c \in DOMAIN actions' /\ (actions'[c] = actions[c] \/ c = card[t].busy),
         d.busy # 0 => /\ d.busy \in DOMAIN actions' /\ actions'[d.busy].kind # "over"
                       /\ actions'[d.busy].email = d.email
                       /\ \A u \in Tabs : card[u].busy # d.busy,
         d.sent # 0 => CodeOf(d.sent, d.email)' /\ Mailed(d.sent, d.email)'
  PROVE  /\ card' = [u \in Tabs |-> card'[u]] /\ \A u \in Tabs : card'[u] = IF u = t THEN d ELSE card[u]
         /\ \A u \in Tabs : IsCard(card'[u])
         /\ CardInv'
  <1>1. card = [u \in Tabs |-> card[u]] /\ \A u \in Tabs : IsCard(card[u])
    BY DEF SignInInv, SignInTypes
  <1>2. card' = [u \in Tabs |-> card'[u]] /\ \A u \in Tabs : card'[u] = IF u = t THEN d ELSE card[u]
    BY <1>1 DEF Dealt
  <1>3. \A u \in Tabs : IsCard(card'[u])
    BY <1>1, <1>2
  <1>4. ASSUME NEW u \in Tabs
        PROVE  /\ (card[u].busy # 0 => Waiting(u, card[u].busy))'
               /\ (card[u].sent # 0 => CodeOf(card[u].sent, card[u].email) /\ Mailed(card[u].sent, card[u].email))'
    <2>1. CASE u = t
      <3>1. card'[u] = d
        BY <1>2, <2>1
      <3> QED
        BY <3>1 DEF Waiting, CodeOf, Mailed
    <2>2. CASE u # t
      <3>1. PICK v : v = card[u] /\ card'[u] = v
        BY <1>2, <2>2
      <3>2. v.busy # 0 => v.busy \in DOMAIN actions /\ actions[v.busy].kind # "over" /\ actions[v.busy].email = v.email /\ v.busy # card[t].busy
        BY <2>2, <3>1 DEF SignInInv, CardInv, Waiting
      <3>3. v.busy # 0 => v.busy \in DOMAIN actions' /\ actions'[v.busy].kind # "over" /\ actions'[v.busy].email = v.email
        BY <3>2
      <3>4. v.email \in Emails /\ v.sent \in Nat
        BY <1>1, <3>1 DEF IsCard
      <3>5. v.sent # 0 => CodeOf(v.sent, v.email) /\ Mailed(v.sent, v.email)
        BY <3>1 DEF SignInInv, CardInv
      <3>6. v.sent # 0 => CodeOf(v.sent, v.email)' /\ Mailed(v.sent, v.email)'
        BY <3>4, <3>5 DEF Kept, CodeOf
      <3> QED
        BY <3>1, <3>3, <3>6 DEF Waiting, CodeOf, Mailed
    <2> QED
      BY <2>1, <2>2
  <1>5. \A u, v \in Tabs : card'[u].busy # 0 /\ card'[u].busy = card'[v].busy => u = v
    BY <1>2 DEF SignInInv, CardInv
  <1>6. CardInv'
    BY <1>4, <1>5 DEF CardInv
  <1> QED
    BY <1>2, <1>3, <1>6

\* A card that waits for nothing any more, whose call may be forgotten.
LEMMA BrowserStep ==
  ASSUME SignInInv, NEW t \in Tabs, NEW d, IsCard(d), Dealt(t, d), d.busy = 0,
         d.sent # 0 => CodeOf(d.sent, d.email) /\ Mailed(d.sent, d.email),
         actions' = actions \/ (card[t].busy # 0 /\ Put(card[t].busy, NoCall)),
         jar' \in [session : Nat, anon : BOOLEAN], jar'.session <= Len(opened), ~jar'.anon => owner # Nobody,
         \A c \in DOMAIN actions : SignedIn(actions[c]) /\ actions'[c] = actions[c] => jar'.session # actions[c].session,
         UNCHANGED <<inbox, issued, opened, owner, hits, second>>
  PROVE  SignInInv' /\ WaitIsEnough
  <1>1. Kept
    BY LenProperties DEF Kept, Mailed, SignInInv, SignInTypes
  <1>2. /\ actions' \in Seq(ActionRow) /\ DOMAIN actions' = DOMAIN actions
        /\ \A c \in DOMAIN actions : actions'[c] = actions[c] \/ (c = card[t].busy /\ actions'[c] = NoCall)
    <2>1. CASE actions' = actions
      BY <2>1 DEF SignInInv, SignInTypes
    <2>2. CASE card[t].busy # 0 /\ Put(card[t].busy, NoCall)
      <3>1. card[t].busy \in DOMAIN actions /\ NoCall \in ActionRow
        BY <2>2, NoCallRow DEF SignInInv, CardInv, Waiting
      <3> QED
        BY <2>2, <3>1, ActionsAt
    <2> QED
      BY <2>1, <2>2
  <1>3. /\ card' = [u \in Tabs |-> card'[u]] /\ \A u \in Tabs : IsCard(card'[u])
        /\ CardInv'
    <2>1. d.sent # 0 => CodeOf(d.sent, d.email)' /\ Mailed(d.sent, d.email)'
      BY DEF CodeOf, Mailed
    <2> QED
      BY <1>1, <1>2, <2>1, CardStep
  <1>4. SignInTypes'
    BY <1>2, <1>3 DEF SignInInv, SignInTypes
  <1>5. HitsInv' /\ JarInv' /\ \A n \in DOMAIN issued' : WhySpent(n)'
    BY DEF SignInInv, HitsInv, InWindow, Limit, JarInv, WhySpent
  <1>6. ASSUME NEW c \in DOMAIN actions PROVE ActionInv(c)'
    <2>1. CASE actions'[c] = actions[c]
      <3>1. ASSUME SignedIn(actions[c])
            PROVE  /\ ~opened'[actions[c].session].revoked /\ jar'.session # actions[c].session
                   /\ \A b \in DOMAIN actions' : actions'[b].session = actions[c].session => b = c
        <4>1. FreshSession(c)
          BY <3>1 DEF SignInInv, ActionInv
        <4>2. actions[c].session # 0
          <5>1. DOMAIN opened = 1 .. Len(opened)
            BY LenProperties DEF SignInInv, SignInTypes
          <5> QED
            BY <4>1, <5>1 DEF FreshSession
        <4> QED
          BY <1>2, <2>1, <3>1, <4>1, <4>2, NoCallRow DEF FreshSession
      <3> QED
        BY <1>1, <1>2, <1>4, <2>1, <3>1, ActionFrame
    <2>2. CASE actions'[c] = NoCall
      <3>1. 0 <= Len(opened')
        BY LenProperties DEF SignInInv, SignInTypes
      <3> QED
        BY <2>2, <3>1, NoCallRow DEF ActionInv, SignedIn
    <2> QED
      BY <1>2, <2>1, <2>2
  <1>7. WaitIsEnough
    BY <1>2, NoCallRow DEF WaitIsEnough
  <1> QED
    BY <1>2, <1>3, <1>4, <1>5, <1>6, <1>7 DEF SignInInv

\* A new call, of a card that waited for none.
LEMMA StartStep ==
  ASSUME SignInInv, NEW t \in Tabs, NEW kind \in {"send", "verify", "signOut"}, NEW code \in Nat,
         kind = "signOut" => jar.session # 0, Start(kind, t, code)
  PROVE  SignInInv' /\ HonestStep
  <1>1. PICK a : a = Call(kind, t, code)
    OBVIOUS
  <1>2. card[t].email \in Emails /\ IsCard(card[t]) /\ jar.session \in Nat /\ jar.anon \in BOOLEAN
    BY DEF SignInInv, SignInTypes, IsCard
  <1>3. PICK L \in Nat : L = Len(actions) /\ DOMAIN actions = 1 .. L
    BY LenProperties DEF SignInInv, SignInTypes
  <1>4. PICK o : o = NoCall
    OBVIOUS
  <1>5. o \in ActionRow /\ o.answer = "none"
    BY <1>4, NoCallRow
  <1>6. a = [o EXCEPT !.kind = kind, !.email = card[t].email, !.code = code, !.stage = "sent",
                      !.session = jar.session, !.anon = jar.anon]
    BY <1>1, <1>4 DEF Call
  <1>7. /\ a \in ActionRow /\ a.kind = kind /\ a.email = card[t].email /\ a.stage = "sent" /\ a.answer = "none"
        /\ a.session = jar.session /\ a.anon = jar.anon
    BY <1>2, <1>5, <1>6 DEF ActionRow
  <1>8. /\ actions' \in Seq(ActionRow) /\ Len(actions') = L + 1
        /\ \A c \in 1 .. L : actions'[c] = actions[c]
        /\ actions'[L + 1] = a
    <2>1. actions \in Seq(ActionRow) /\ actions' = Append(actions, a)
      BY <1>1 DEF Start, SignInInv, SignInTypes
    <2> QED
      BY <1>3, <1>7, <2>1, AppendProperties
  <1>9. DOMAIN actions' = 1 .. L + 1
    BY <1>8, LenProperties
  <1>10. UNCHANGED <<jar, inbox, issued, opened, owner, hits, second>> /\ card[t].busy = 0
    BY DEF Start
  <1>11. Kept
    BY <1>10, LenProperties DEF Kept, Mailed, SignInInv, SignInTypes
  <1>12. PICK d : d = [card[t] EXCEPT !.busy = L + 1]
    OBVIOUS
  <1>13. IsCard(d) /\ d.busy = L + 1 /\ d.email = card[t].email /\ d.sent = card[t].sent /\ d.step = card[t].step
    BY <1>2, <1>12 DEF IsCard
  <1>14. Dealt(t, d)
    BY <1>3, <1>12 DEF Start, Dealt
  <1>15. /\ card' = [u \in Tabs |-> card'[u]] /\ \A u \in Tabs : card'[u] = IF u = t THEN d ELSE card[u]
         /\ \A u \in Tabs : IsCard(card'[u])
         /\ CardInv'
    <2>1. \A u \in Tabs : card[u].busy # d.busy
      BY <1>3, <1>13 DEF SignInInv, CardInv, Waiting
    <2>2. d.sent # 0 => CodeOf(d.sent, d.email) /\ Mailed(d.sent, d.email)
      BY <1>13 DEF SignInInv, CardInv
    <2>3. d.sent # 0 => CodeOf(d.sent, d.email)' /\ Mailed(d.sent, d.email)'
      BY <1>10, <2>2 DEF CodeOf, Mailed
    <2>4. d.busy \in DOMAIN actions' /\ actions'[d.busy].kind # "over" /\ actions'[d.busy].email = d.email
      BY <1>7, <1>8, <1>9, <1>13
    <2> QED
      BY <1>3, <1>8, <1>9, <1>11, <1>13, <1>14, <2>1, <2>3, <2>4, CardStep
  <1>16. SignInTypes'
    BY <1>8, <1>10, <1>15 DEF SignInInv, SignInTypes
  <1>17. HitsInv' /\ JarInv' /\ \A n \in DOMAIN issued' : WhySpent(n)'
    BY <1>10 DEF SignInInv, HitsInv, InWindow, Limit, JarInv, WhySpent
  <1>18. ASSUME NEW c \in DOMAIN actions PROVE ActionInv(c)'
    <2>1. ASSUME SignedIn(actions[c])
          PROVE  /\ ~opened'[actions[c].session].revoked /\ jar'.session # actions[c].session
                 /\ \A b \in DOMAIN actions' : actions'[b].session = actions[c].session => b = c
      <3>1. FreshSession(c)
        BY <2>1 DEF SignInInv, ActionInv
      <3>2. a.session # actions[c].session
        BY <1>7, <3>1 DEF FreshSession
      <3>3. \A b \in DOMAIN actions' : b \in DOMAIN actions \/ b = L + 1
        BY <1>3, <1>9
      <3> QED
        BY <1>3, <1>8, <1>10, <3>1, <3>2, <3>3 DEF FreshSession
    <2> QED
      BY <1>3, <1>8, <1>9, <1>11, <1>16, <2>1, ActionFrame
  <1>19. ActionInv(L + 1)'
    <2>1. a.session <= Len(opened') /\ (~a.anon => owner' # Nobody)
      BY <1>7, <1>10 DEF SignInInv, JarInv
    <2> QED
      BY <1>7, <1>8, <1>10, <2>1 DEF ActionInv, SignedIn
  <1>20. \A c \in DOMAIN actions' : ActionInv(c)'
    <2>1. \A c \in DOMAIN actions' : c \in DOMAIN actions \/ c = L + 1
      BY <1>3, <1>9
    <2> QED
      BY <1>18, <1>19, <2>1
  <1>21. HonestStep
    BY <1>3, <1>8, <1>13, <1>15, QuietStep
  <1> QED
    BY <1>15, <1>16, <1>17, <1>20, <1>21 DEF SignInInv

LEMMA TabStarts ==
  ASSUME SignInInv, NEW t \in Tabs, SendCode(t) \/ Verify(t) \/ SignOutAction(t)
  PROVE  SignInInv' /\ HonestStep
  <1>1. CASE SendCode(t)
    BY <1>1, StartStep DEF SendCode
  <1>2. CASE Verify(t)
    <2>1. card[t].email \in Emails
      BY DEF SignInInv, SignInTypes, IsCard
    <2>2. inbox[card[t].email] \in Seq(Nat)
      BY <2>1 DEF SignInInv, SignInTypes
    <2>3. \A i \in DOMAIN inbox[card[t].email] : inbox[card[t].email][i] \in Nat
      BY <2>2, ElementOfSeq, LenProperties
    <2>4. PICK code \in Nat : Start("verify", t, code)
      BY <1>2, <2>3 DEF Verify
    <2> QED
      BY <2>4, StartStep
  <1>3. CASE SignOutAction(t)
    BY <1>3, StartStep DEF SignOutAction
  <1> QED
    BY <1>1, <1>2, <1>3

\* What is typed into a card, and the way back to it.
LEMMA TabEdits ==
  ASSUME SignInInv, NEW t \in Tabs,
         UseExistingCode(t) \/ (\E e \in Emails : ChangeEmail(t, e)) \/ OpenPage(t)
  PROVE  SignInInv' /\ HonestStep
  <1>1. /\ card[t].busy = 0
        /\ UNCHANGED <<actions, jar, inbox, issued, opened, owner, hits, second, failures>>
    BY DEF UseExistingCode, ChangeEmail, OpenPage
  <1>2. PICK a : a = card[t]
    OBVIOUS
  <1>3. IsCard(a) /\ a.busy = 0 /\ (a.sent # 0 => CodeOf(a.sent, a.email) /\ Mailed(a.sent, a.email))
    BY <1>1, <1>2 DEF SignInInv, SignInTypes, CardInv
  <1>4. PICK d : /\ Dealt(t, d) /\ IsCard(d) /\ d.busy = 0 /\ d.step # "done"
                 /\ d.sent # 0 => CodeOf(d.sent, d.email) /\ Mailed(d.sent, d.email)
    <2>1. CASE UseExistingCode(t)
      <3>1. PICK d : d = [a EXCEPT !.step = "code", !.sent = 0]
        OBVIOUS
      <3>2. IsCard(d) /\ d.busy = 0 /\ d.step # "done" /\ d.sent = 0
        BY <1>3, <3>1 DEF IsCard
      <3>3. Dealt(t, d)
        BY <1>2, <2>1, <3>1 DEF UseExistingCode, Dealt
      <3> QED
        BY <3>2, <3>3
    <2>2. ASSUME NEW e \in Emails, ChangeEmail(t, e)
          PROVE  \E d : /\ Dealt(t, d) /\ IsCard(d) /\ d.busy = 0 /\ d.step # "done"
                        /\ d.sent # 0 => CodeOf(d.sent, d.email) /\ Mailed(d.sent, d.email)
      <3>1. PICK d : d = [a EXCEPT !.step = "email", !.email = e, !.until.resend = 0, !.sent = 0]
        OBVIOUS
      <3>2. IsCard(d) /\ d.busy = 0 /\ d.step # "done" /\ d.sent = 0
        BY <1>3, <3>1 DEF IsCard
      <3>3. Dealt(t, d)
        BY <1>2, <2>2, <3>1 DEF ChangeEmail, Dealt
      <3> QED
        BY <3>2, <3>3
    <2>3. CASE OpenPage(t)
      <3>1. PICK d : d = [a EXCEPT !.step = "email", !.until = Waits]
        OBVIOUS
      <3>2. IsCard(d) /\ d.busy = 0 /\ d.step # "done" /\ d.sent = a.sent /\ d.email = a.email
        BY <1>3, <3>1 DEF IsCard
      <3>3. Dealt(t, d)
        BY <1>2, <2>3, <3>1 DEF OpenPage, Dealt
      <3> QED
        BY <1>3, <3>2, <3>3
    <2> QED
      BY <2>1, <2>2, <2>3
  <1>5. /\ jar' \in [session : Nat, anon : BOOLEAN] /\ jar'.session <= Len(opened) /\ (~jar'.anon => owner # Nobody)
        /\ \A c \in DOMAIN actions : SignedIn(actions[c]) => jar'.session # actions[c].session
    BY <1>1 DEF SignInInv, SignInTypes, JarInv, ActionInv, FreshSession
  <1>6. SignInInv' /\ WaitIsEnough
    BY <1>1, <1>4, <1>5, BrowserStep
  <1>7. DoneWithCookie
    BY <1>4 DEF DoneWithCookie, Dealt, SignInInv, SignInTypes
  <1> QED
    BY <1>6, <1>7 DEF HonestStep

LEMMA LoseStep ==
  ASSUME SignInInv, NEW t \in Tabs, Lose(t) PROVE SignInInv' /\ HonestStep
  <1>1. PICK a : a = card[t]
    OBVIOUS
  <1>2. IsCard(a) /\ (a.sent # 0 => CodeOf(a.sent, a.email) /\ Mailed(a.sent, a.email))
    BY <1>1 DEF SignInInv, SignInTypes, CardInv
  <1>3. PICK d : d = [a EXCEPT !.busy = 0]
    OBVIOUS
  <1>4. IsCard(d) /\ d.busy = 0 /\ d.step = a.step /\ d.sent = a.sent /\ d.email = a.email
    BY <1>2, <1>3 DEF IsCard
  <1>5. /\ Dealt(t, d)
        /\ actions' = actions \/ (card[t].busy # 0 /\ Put(card[t].busy, NoCall))
        /\ UNCHANGED <<jar, inbox, issued, opened, owner, hits, second>>
    BY <1>1, <1>3 DEF Lose, Dealt, Put
  <1>6. /\ jar' \in [session : Nat, anon : BOOLEAN] /\ jar'.session <= Len(opened) /\ (~jar'.anon => owner # Nobody)
        /\ \A c \in DOMAIN actions : SignedIn(actions[c]) => jar'.session # actions[c].session
    BY <1>5 DEF SignInInv, SignInTypes, JarInv, ActionInv, FreshSession
  <1>7. SignInInv' /\ WaitIsEnough
    <2>1. d.sent # 0 => CodeOf(d.sent, d.email) /\ Mailed(d.sent, d.email)
      BY <1>2, <1>4
    <2>2. \A c \in DOMAIN actions : SignedIn(actions[c]) /\ actions'[c] = actions[c] => jar'.session # actions[c].session
      BY <1>6
    <2>3. UNCHANGED <<inbox, issued, opened, owner, hits, second>>
      BY <1>5
    <2> QED
      BY <1>4, <1>5, <1>6, <2>1, <2>2, <2>3, BrowserStep
  <1>8. DoneWithCookie
    <2>1. card = [u \in Tabs |-> card[u]]
      BY DEF SignInInv, SignInTypes
    <2>2. \A u \in Tabs : card'[u] = IF u = t THEN d ELSE card[u]
      BY <1>5, <2>1 DEF Dealt
    <2>3. \A u \in Tabs : card'[u].step = "done" => card[u].step = "done"
      BY <1>1, <1>4, <2>2
    <2> QED
      BY <2>3 DEF DoneWithCookie
  <1> QED
    BY <1>7, <1>8 DEF HonestStep

\* What an answer does to the card.
LEMMA SettledSound ==
  ASSUME SignInInv, NEW d, IsCard(d), NEW c \in DOMAIN actions, actions[c].email = d.email,
         actions[c].kind \in {"send", "verify", "signOut"},
         d.sent # 0 => CodeOf(d.sent, d.email) /\ Mailed(d.sent, d.email)
  PROVE  \E x : /\ x = Settled(d, c) /\ IsCard(x) /\ x.email = d.email
                /\ x.sent # 0 => CodeOf(x.sent, x.email) /\ Mailed(x.sent, x.email)
                /\ x.step = "done" => d.step = "done" \/ SignedIn(actions[c])
  <1>1. PICK a : a = actions[c]
    OBVIOUS
  <1>2. a \in ActionRow /\ ActionInv(c)
    BY <1>1, ActionTyped DEF SignInInv
  <1>3. CASE a.kind = "signOut"
    <2>1. PICK x : x = [d EXCEPT !.step = "email", !.until = Waits, !.sent = 0]
      OBVIOUS
    <2>2. IsCard(x) /\ x.email = d.email /\ x.sent = 0 /\ x.step = "email"
      BY <2>1 DEF IsCard
    <2> QED
      BY <1>1, <1>3, <2>1, <2>2 DEF Settled
  <1>4. CASE a.kind # "signOut" /\ a.answer = "limited"
    <2>1. PICK w : w = second + a.wait
      OBVIOUS
    <2>2. PICK x : x = IF a.kind = "send" THEN [d EXCEPT !.until.send = w] ELSE [d EXCEPT !.until.verify = w]
      OBVIOUS
    <2>3. IsCard(x) /\ x.email = d.email /\ x.sent = d.sent /\ x.step = d.step
      BY <2>2 DEF IsCard
    <2>4. x = Settled(d, c)
      BY <1>1, <1>4, <2>1, <2>2 DEF Settled, Shown
    <2> QED
      BY <2>3, <2>4
  <1>5. CASE a.kind = "send" /\ a.answer = "ok"
    <2>1. PICK w : w = second + ResendWait
      OBVIOUS
    <2>2. PICK x : x = [d EXCEPT !.step = "code", !.until.resend = w, !.sent = a.code]
      OBVIOUS
    <2>3. IsCard(x) /\ x.email = d.email /\ x.sent = a.code /\ x.step = "code"
      BY <1>2, <2>2 DEF IsCard, ActionRow
    <2>4. x = Settled(d, c)
      BY <1>1, <1>5, <2>1, <2>2 DEF Settled
    <2>5. CodeOf(a.code, a.email) /\ Mailed(a.code, a.email)
      BY <1>1, <1>2, <1>5 DEF ActionInv
    <2> QED
      BY <1>1, <2>3, <2>4, <2>5
  <1>6. CASE a.kind = "verify" /\ a.answer = "ok"
    <2>1. PICK x : x = [d EXCEPT !.step = "done", !.sent = 0]
      OBVIOUS
    <2>2. IsCard(x) /\ x.email = d.email /\ x.sent = 0
      BY <2>1 DEF IsCard
    <2>3. x = Settled(d, c)
      BY <1>1, <1>6, <2>1 DEF Settled
    <2> QED
      BY <1>1, <1>6, <2>2, <2>3 DEF SignedIn
  <1>7. CASE a.kind # "signOut" /\ a.answer # "limited" /\ a.answer # "ok"
    <2>1. d = Settled(d, c)
      BY <1>1, <1>7 DEF Settled
    <2> QED
      BY <2>1
  <1> QED
    BY <1>1, <1>3, <1>4, <1>5, <1>6, <1>7

\* The cookies that come with an answer.
LEMMA RelayedSound ==
  ASSUME SignInInv, NEW c \in DOMAIN actions, actions[c].kind \in {"send", "verify", "signOut"}
  PROVE  /\ Relayed(c) \in [session : Nat, anon : BOOLEAN]
         /\ Relayed(c).session <= Len(opened) /\ (~Relayed(c).anon => owner # Nobody)
         /\ \A d \in DOMAIN actions : d # c /\ SignedIn(actions[d]) => Relayed(c).session # actions[d].session
         /\ SignedIn(actions[c]) => Relayed(c).session = actions[c].session
  <1>1. PICK a : a = actions[c]
    OBVIOUS
  <1>2. a \in ActionRow /\ ActionInv(c)
    BY <1>1, ActionTyped DEF SignInInv
  <1>3. a.session \in Nat /\ a.session <= Len(opened) /\ 0 <= Len(opened)
    BY <1>1, <1>2, LenProperties DEF ActionInv, ActionRow, SignInInv, SignInTypes
  <1>4. ASSUME NEW d \in DOMAIN actions, d # c, SignedIn(actions[d])
        PROVE  actions[d].session # 0 /\ jar.session # actions[d].session /\ a.session # actions[d].session
    <2>1. FreshSession(d)
      BY <1>4 DEF SignInInv, ActionInv
    <2>2. DOMAIN opened = 1 .. Len(opened)
      BY LenProperties DEF SignInInv, SignInTypes
    <2> QED
      BY <1>1, <1>4, <2>1, <2>2 DEF FreshSession
  <1>5. jar \in [session : Nat, anon : BOOLEAN] /\ jar.session <= Len(opened) /\ (~jar.anon => owner # Nobody)
    BY DEF SignInInv, SignInTypes, JarInv
  <1>6. PICK r : r = Relayed(c)
    OBVIOUS
  <1>7. CASE SignedIn(a)
    <2>1. r = [session |-> a.session, anon |-> FALSE]
      BY <1>1, <1>6, <1>7 DEF Relayed, SignedIn
    <2>2. owner # Nobody
      BY <1>1, <1>2, <1>7 DEF ActionInv
    <2> QED
      BY <1>1, <1>3, <1>4, <1>6, <2>1, <2>2
  <1>8. CASE a.kind = "signOut" /\ a.answer = "ok"
    <2>1. r = [jar EXCEPT !.session = 0]
      BY <1>1, <1>6, <1>8 DEF Relayed
    <2> QED
      BY <1>1, <1>3, <1>4, <1>5, <1>6, <1>8, <2>1 DEF SignedIn
  <1>9. CASE ~SignedIn(a) /\ ~(a.kind = "signOut" /\ a.answer = "ok")
    <2>1. r = jar
      BY <1>1, <1>6, <1>9 DEF Relayed, SignedIn
    <2> QED
      BY <1>1, <1>4, <1>5, <1>6, <1>9, <2>1
  <1> QED
    BY <1>7, <1>8, <1>9

LEMMA ReceiveStep ==
  ASSUME SignInInv, NEW t \in Tabs, Receive(t) PROVE SignInInv' /\ HonestStep
  <1>1. PICK b : b = card[t]
    OBVIOUS
  <1>2. PICK c \in DOMAIN actions : c = b.busy /\ c # 0 /\ actions[c].kind # "over" /\ actions[c].email = b.email
    BY <1>1 DEF Receive, SignInInv, CardInv, Waiting
  <1>3. IsCard(b) /\ (b.sent # 0 => CodeOf(b.sent, b.email) /\ Mailed(b.sent, b.email))
    BY <1>1 DEF SignInInv, SignInTypes, CardInv
  <1>4. actions[c].kind \in {"send", "verify", "signOut"}
    BY <1>2, ActionTyped DEF ActionRow
  <1>5. PICK x : /\ x = Settled(b, c) /\ IsCard(x) /\ x.email = b.email
                 /\ x.sent # 0 => CodeOf(x.sent, x.email) /\ Mailed(x.sent, x.email)
                 /\ x.step = "done" => b.step = "done" \/ SignedIn(actions[c])
    BY <1>2, <1>3, <1>4, SettledSound
  <1>6. PICK d : d = [x EXCEPT !.busy = 0]
    OBVIOUS
  <1>7. IsCard(d) /\ d.busy = 0 /\ d.sent = x.sent /\ d.email = x.email /\ d.step = x.step
    BY <1>5, <1>6 DEF IsCard
  <1>8. /\ Dealt(t, d) /\ Put(c, NoCall) /\ jar' = Relayed(c)
        /\ UNCHANGED <<inbox, issued, opened, owner, hits, second>>
    BY <1>1, <1>2, <1>5, <1>6 DEF Receive, Dealt, Put
  <1>9. PICK j : j = Relayed(c)
    OBVIOUS
  <1>10. /\ j \in [session : Nat, anon : BOOLEAN] /\ j.session <= Len(opened) /\ (~j.anon => owner # Nobody)
         /\ \A e \in DOMAIN actions : e # c /\ SignedIn(actions[e]) => j.session # actions[e].session
         /\ SignedIn(actions[c]) => j.session = actions[c].session
    BY <1>4, <1>9, RelayedSound
  <1>11. \A e \in DOMAIN actions : SignedIn(actions[e]) /\ actions'[e] = actions[e] => j.session # actions[e].session
    <2>1. actions'[c] = NoCall
      BY <1>8, NoCallRow, ActionsAt
    <2> QED
      BY <1>10, <2>1, NoCallRow DEF SignedIn
  <1>12. SignInInv' /\ WaitIsEnough
    <2>1. d.sent # 0 => CodeOf(d.sent, d.email) /\ Mailed(d.sent, d.email)
      BY <1>5, <1>7
    <2>2. card[t].busy # 0 /\ Put(card[t].busy, NoCall)
      BY <1>1, <1>2, <1>8
    <2>3. jar' = j /\ UNCHANGED <<inbox, issued, opened, owner, hits, second>>
      BY <1>8, <1>9
    <2>4. Dealt(t, d)
      BY <1>8
    <2> QED
      BY <1>7, <1>10, <1>11, <2>1, <2>2, <2>3, <2>4, BrowserStep
  <1>13. DoneWithCookie
    <2>1. card = [u \in Tabs |-> card[u]]
      BY DEF SignInInv, SignInTypes
    <2>2. \A u \in Tabs : card'[u] = IF u = t THEN d ELSE card[u]
      BY <1>8, <2>1 DEF Dealt
    <2>3. ASSUME card[t].step # "done", card'[t].step = "done"
          PROVE  /\ jar'.session # 0 /\ ~opened[jar'.session].revoked
                 /\ opened[jar'.session].email = card[t].email
      <3>1. SignedIn(actions[c])
        BY <1>1, <1>5, <1>7, <2>2, <2>3
      <3>2. FreshSession(c)
        BY <3>1 DEF SignInInv, ActionInv
      <3>3. jar'.session = actions[c].session
        BY <1>8, <1>9, <1>10, <3>1
      <3>4. DOMAIN opened = 1 .. Len(opened)
        BY LenProperties DEF SignInInv, SignInTypes
      <3> QED
        BY <1>1, <1>2, <3>2, <3>3, <3>4 DEF FreshSession
    <2> QED
      BY <2>2, <2>3 DEF DoneWithCookie
  <1> QED
    BY <1>12, <1>13 DEF HonestStep

(***************************************************************************)
(* The steps elsewhere.                                                    *)
(***************************************************************************)

LEMMA ElsewhereStep ==
  ASSUME SignInInv, UNCHANGED <<card, actions, jar, opened, owner>>, HitsInv',
         issued' \in Seq(IssuedRow), \A n \in DOMAIN issued : n \in DOMAIN issued' /\ issued'[n].email = issued[n].email,
         \A n \in DOMAIN issued' : WhySpent(n)',
         inbox' \in [Emails -> Seq(Nat)], \A f \in Emails, m \in Nat : Mailed(m, f) => Mailed(m, f)'
  PROVE  SignInInv' /\ HonestStep
  <1>1. Kept
    BY LenProperties DEF Kept, SignInInv, SignInTypes
  <1>2. SignInTypes' /\ JarInv'
    BY DEF SignInInv, SignInTypes, JarInv
  <1>3. CardInv'
    <2>1. \A t \in Tabs : card[t].busy # 0 => Waiting(t, card[t].busy)'
      BY DEF SignInInv, CardInv, Waiting
    <2> QED
      BY <1>1, <2>1, CardFrame
  <1>4. ASSUME NEW c \in DOMAIN actions PROVE ActionInv(c)'
    <2>1. ASSUME SignedIn(actions[c])
          PROVE  /\ ~opened'[actions[c].session].revoked /\ jar'.session # actions[c].session
                 /\ \A b \in DOMAIN actions' : actions'[b].session = actions[c].session => b = c
      BY <2>1 DEF SignInInv, ActionInv, FreshSession
    <2> QED
      BY <1>1, <1>2, <2>1, ActionFrame
  <1>5. HonestStep
    BY QuietStep
  <1> QED
    BY <1>2, <1>3, <1>4, <1>5 DEF SignInInv

LEMMA AskElsewhereStep ==
  ASSUME SignInInv, NEW e \in Emails, AskElsewhere(e) PROVE SignInInv' /\ HonestStep
  <1>1. /\ hits' = Taken(hits, e) /\ Issue(e) /\ inbox' = [inbox EXCEPT ![e] = Append(@, Len(issued) + 1)]
        /\ UNCHANGED <<card, actions, jar, opened, owner, second>>
    BY DEF AskElsewhere
  <1>2. HitsInv'
    BY <1>1, TakenOne DEF SignInInv, Keys
  <1>3. PICK n \in Nat : n = Len(issued) + 1
    BY LenProperties DEF SignInInv, SignInTypes
  <1>4. /\ inbox' \in [Emails -> Seq(Nat)]
        /\ \A f \in Emails, m \in Nat : Mailed(m, f) => Mailed(m, f)'
    <2>1. inbox' = [inbox EXCEPT ![e] = Append(@, n)]
      BY <1>1, <1>3
    <2> QED
      BY <2>1, MailArrives
  <1>5. /\ issued' \in Seq(IssuedRow)
        /\ \A m \in DOMAIN issued : m \in DOMAIN issued' /\ issued'[m].email = issued[m].email
        /\ \A m \in DOMAIN issued' : WhySpent(m)'
    BY <1>1, IssueSound
  <1> QED
    BY <1>1, <1>2, <1>4, <1>5, ElsewhereStep

\* The clock, another instance with empty windows, and steps of nothing here.
LEMMA WindowsOnly ==
  ASSUME SignInInv, UNCHANGED <<card, actions, jar, inbox, issued, opened, owner>>, HitsInv'
  PROVE  SignInInv' /\ HonestStep
  <1>1. issued' \in Seq(IssuedRow) /\ inbox' \in [Emails -> Seq(Nat)]
    BY DEF SignInInv, SignInTypes
  <1>2. \A n \in DOMAIN issued' : WhySpent(n)'
    BY DEF SignInInv, WhySpent
  <1>3. \A f \in Emails, m \in Nat : Mailed(m, f) => Mailed(m, f)'
    BY DEF Mailed
  <1> QED
    BY <1>1, <1>2, <1>3, ElsewhereStep

LEMMA RestartStep ==
  ASSUME SignInInv, RestartGateway PROVE SignInInv' /\ HonestStep
  <1>1. PICK empty : empty = <<>>
    OBVIOUS
  <1>2. empty \in Seq(Nat) /\ Len(empty) = 0
    BY <1>1
  <1>3. DOMAIN empty = {}
    BY <1>2, LenProperties
  <1>4. second \in Nat
    BY DEF SignInInv, HitsInv
  <1>5. ASSUME NEW k \in Keys PROVE InWindow(empty, k, second)
    BY <1>2, <1>3, LimitPositive DEF InWindow
  <1>6. hits' = [k \in Keys |-> empty] /\ UNCHANGED <<card, actions, jar, inbox, issued, opened, owner, second>>
    BY <1>1 DEF RestartGateway
  <1>7. HitsInv'
    BY <1>4, <1>5, <1>6 DEF HitsInv, InWindow, Limit
  <1> QED
    BY <1>6, <1>7, WindowsOnly

LEMMA SecondStep ==
  ASSUME SignInInv, Second PROVE SignInInv' /\ HonestStep
  <1>1. second \in Nat /\ second' = second + 1 /\ hits' = hits
    BY DEF SignInInv, HitsInv, Second
  <1>2. ASSUME NEW k \in Keys PROVE InWindow(hits[k], k, second + 1)
    <2>1. InWindow(hits[k], k, second)
      BY DEF SignInInv, HitsInv
    <2>2. \A i \in DOMAIN hits[k] : hits[k][i] \in Nat
      BY <2>1, ElementOfSeq, LenProperties DEF InWindow
    <2> QED
      BY <1>1, <2>1, <2>2 DEF InWindow
  <1>3. HitsInv'
    BY <1>1, <1>2 DEF SignInInv, HitsInv, InWindow, Limit
  <1> QED
    BY <1>3, WindowsOnly DEF Second

LEMMA SignInStep ==
  ASSUME SignInInv, [SignInNext]_signInVars PROVE SignInInv' /\ HonestStep
  <1>1. ASSUME NEW t \in Tabs, SendCode(t) \/ Verify(t) \/ SignOutAction(t) PROVE SignInInv' /\ HonestStep
    BY <1>1, TabStarts
  <1>2. ASSUME NEW t \in Tabs, UseExistingCode(t) \/ (\E e \in Emails : ChangeEmail(t, e)) \/ OpenPage(t)
        PROVE  SignInInv' /\ HonestStep
    BY <1>2, TabEdits
  <1>3. ASSUME NEW t \in Tabs, Receive(t) PROVE SignInInv' /\ HonestStep
    BY <1>3, ReceiveStep
  <1>4. ASSUME NEW t \in Tabs, Lose(t) PROVE SignInInv' /\ HonestStep
    BY <1>4, LoseStep
  <1>5. ASSUME NEW c \in DOMAIN actions, RequestCode(c) PROVE SignInInv' /\ HonestStep
    BY <1>5, RequestCodeStep
  <1>6. ASSUME NEW c \in DOMAIN actions, SendMail(c) PROVE SignInInv' /\ HonestStep
    BY <1>6, SendMailStep
  <1>7. ASSUME NEW c \in DOMAIN actions, VerifyCode(c) PROVE SignInInv' /\ HonestStep
    BY <1>7, VerifyCodeStep
  <1>8. ASSUME NEW c \in DOMAIN actions, SignOut(c) PROVE SignInInv' /\ HonestStep
    BY <1>8, SignOutStep
  <1>9. ASSUME NEW e \in Emails, AskElsewhere(e) PROVE SignInInv' /\ HonestStep
    BY <1>9, AskElsewhereStep
  <1>10. CASE RestartGateway
    BY <1>10, RestartStep
  <1>11. CASE Second
    BY <1>11, SecondStep
  <1>12. CASE UNCHANGED signInVars
    <2>1. HitsInv'
      BY <1>12 DEF SignInInv, HitsInv, InWindow, Limit, signInVars
    <2> QED
      BY <1>12, <2>1, WindowsOnly DEF signInVars
  <1> QED
    BY <1>1, <1>2, <1>3, <1>4, <1>5, <1>6, <1>7, <1>8, <1>9, <1>10, <1>11, <1>12 DEF SignInNext

\* Signing in tells the truth: "Code sent", "wait", "You're signed in" and the way to the build made
\* before it, whatever is lost, late, asked for twice or from elsewhere, and whenever the gateway restarts.
THEOREM SignInIsHonest == SignInSpec => SignInHonest
  <1>1. SignInInit => SignInInv
    BY SignInInitSound
  <1>2. SignInInv /\ [SignInNext]_signInVars => SignInInv'
    BY SignInStep
  <1>3. SignInInv /\ SignInInv' /\ [SignInNext]_signInVars
          => [DoneWithCookie /\ WaitIsEnough /\ (SentIsUsable /\ BuildReachable)']_signInVars
    <2>1. SUFFICES ASSUME SignInInv, SignInInv', [SignInNext]_signInVars
                   PROVE  DoneWithCookie /\ WaitIsEnough /\ (SentIsUsable /\ BuildReachable)'
      OBVIOUS
    <2>2. HonestStep
      BY <2>1, SignInStep
    <2>3. (SignInInv => SentIsUsable /\ BuildReachable)'
      BY SignInInvHonest, PTL
    <2> QED
      BY <2>1, <2>2, <2>3 DEF HonestStep
  <1> QED
    BY <1>1, <1>2, <1>3, PTL DEF SignInSpec, SignInHonest
=============================================================================
