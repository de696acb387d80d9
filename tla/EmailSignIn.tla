---------------------------- MODULE EmailSignIn -----------------------------
(***************************************************************************)
(* Signing in with an emailed code, from the card in the browser to the    *)
(* gateway and back: EmailCodeCard.tsx, the server actions of auth.ts, the *)
(* relay of credential cookies (session-client.ts, cookies.ts), the routes *)
(* of auth-routes.ts and their sliding windows (rate-limit.ts).            *)
(*                                                                         *)
(* The tabs are those of one browser: they share the cookies and the       *)
(* client address.  Someone elsewhere may ask for codes of the same        *)
(* address.  issueCode and verifyCode are transactions under the lock of   *)
(* the address (Accounts has their statements) and are one step here.      *)
(***************************************************************************)
EXTENDS Naturals, Sequences, FiniteSets

CONSTANTS Tabs, Emails, Nobody,
          CodeTtl,        \* CODE_TTL_MS
          Window,         \* WINDOW_15_MIN_MS
          LimitOf,        \* the limit of each limiter: "ip", "email", "verify"
          ResendWait,     \* LOCAL_RESEND_WAIT_MS
          Attempts,       \* CODE_MAX_ATTEMPTS
          LastSecond, MaxCalls, MaxFailures  \* bounds

ASSUME SignInAssumption ==
  /\ Emails # {} /\ Nobody \notin Emails /\ Emails \cap {"ip", "verify"} = {}
  /\ CodeTtl \in Nat /\ Window \in Nat /\ Attempts \in Nat
  /\ LimitOf.ip \in Nat \ {0} /\ LimitOf.email \in Nat \ {0} /\ LimitOf.verify \in Nat \ {0}

VARIABLES
  card,     \* per tab: the card
  actions,  \* the server actions started, in order
  jar,      \* the credential cookies of the browser
  inbox,    \* per address: the codes mailed, in the order they arrived
  issued,   \* users.email_codes
  opened,   \* users.sessions
  owner,    \* who holds the build made before the sign-in
  hits,     \* the windows of the gateway instance
  second,
  failures

signInVars == <<card, actions, jar, inbox, issued, opened, owner, hits, second, failures>>

Waits == [send |-> 0, verify |-> 0, resend |-> 0]
Keys == {"ip", "verify"} \cup Emails
Limit(k) == IF k \in Emails THEN LimitOf.email ELSE LimitOf[k]

SignInInit ==
  /\ card \in [Tabs -> [step : {"email"}, email : Emails, until : {Waits}, busy : {0}, sent : {0}]]
  /\ actions = <<>> /\ issued = <<>> /\ opened = <<>>
  /\ inbox = [e \in Emails |-> <<>>]
  /\ jar = [session |-> 0, anon |-> TRUE] /\ owner = Nobody
  /\ hits = [k \in Keys |-> <<>>]
  /\ second = 0 /\ failures = 0

(***************************************************************************)
(* The windows.                                                            *)
(***************************************************************************)

\* The hits of key k inside the window: hits stand in the order of time, so those that have left it
\* come first.
Expired(k) == {i \in DOMAIN hits[k] : hits[k][i] + Window <= second}
Recent(k) == SubSeq(hits[k], Cardinality(Expired(k)) + 1, Len(hits[k]))

Full(k) == Len(Recent(k)) >= Limit(k)
RetryAfter(k) == Recent(k)[1] + Window - second

\* take: a hit is recorded unless the window is full.
Taken(h, k) == [h EXCEPT ![k] = IF Full(k) THEN Recent(k) ELSE Append(Recent(k), second)]

(***************************************************************************)
(* The card.                                                               *)
(***************************************************************************)

Later(a, b) == IF a > b THEN a ELSE b
SendUntil(c) == Later(c.until.send, IF c.step = "code" THEN c.until.resend ELSE 0)

\* An answer that has arrived, or that nobody waits for, is forgotten.
NoCall ==
  [kind |-> "over", email |-> CHOOSE e \in Emails : TRUE, code |-> 0, stage |-> "answered",
   answer |-> "none", key |-> "ip", wait |-> 0, session |-> 0, anon |-> FALSE]
Call(kind, t, code) ==
  [NoCall EXCEPT !.kind = kind, !.email = card[t].email, !.code = code, !.stage = "sent",
                 !.session = jar.session, !.anon = jar.anon]

Start(kind, t, code) ==
  /\ card[t].busy = 0 /\ Len(actions) < MaxCalls
  /\ actions' = Append(actions, Call(kind, t, code))
  /\ card' = [card EXCEPT ![t] = [@ EXCEPT !.busy = Len(actions) + 1]]
  /\ UNCHANGED <<jar, inbox, issued, opened, owner, hits, second, failures>>

SendCode(t) ==
  /\ card[t].step \in {"email", "code"} /\ second >= SendUntil(card[t])
  /\ Start("send", t, 0)

\* Six digits: one of the codes in the inbox of the address, or a slip.
Verify(t) ==
  /\ card[t].step = "code" /\ second >= card[t].until.verify
  /\ \E code \in {0} \cup {inbox[card[t].email][i] : i \in DOMAIN inbox[card[t].email]} :
       Start("verify", t, code)

\* The form of the header, in any tab.
SignOutAction(t) == jar.session # 0 /\ Start("signOut", t, 0)

UseExistingCode(t) ==
  /\ card[t].busy = 0 /\ card[t].step = "email"
  /\ card' = [card EXCEPT ![t] = [@ EXCEPT !.step = "code", !.sent = 0]]
  /\ UNCHANGED <<actions, jar, inbox, issued, opened, owner, hits, second, failures>>

\* The real limits stay; they may be those of the client address.
ChangeEmail(t, e) ==
  /\ card[t].busy = 0 /\ card[t].step = "code"
  /\ card' = [card EXCEPT ![t] = [@ EXCEPT !.step = "email", !.email = e, !.until.resend = 0, !.sent = 0]]
  /\ UNCHANGED <<actions, jar, inbox, issued, opened, owner, hits, second, failures>>

(***************************************************************************)
(* The gateway.                                                            *)
(***************************************************************************)

Awaited(c, answered) == IF \E t \in Tabs : card[t].busy = c THEN answered ELSE NoCall
Answer(c, answer) == Awaited(c, [actions[c] EXCEPT !.stage = "answered", !.answer = answer])
Limited(c, k) ==
  Awaited(c, [actions[c] EXCEPT !.stage = "answered", !.answer = "limited", !.key = k, !.wait = RetryAfter(k)])
Verified(c, s) == Awaited(c, [actions[c] EXCEPT !.stage = "answered", !.answer = "ok", !.session = s])

\* A new code spends the ones before it.
Issue(e) ==
  issued' = Append([n \in DOMAIN issued |-> IF issued[n].email = e THEN [issued[n] EXCEPT !.spent = TRUE]
                                                                   ELSE issued[n]],
                   [email |-> e, expires |-> second + CodeTtl, spent |-> FALSE, tries |-> 0])

\* POST /v1/auth/code: the window of the client address, that of the email address, the code.
RequestCode(c) ==
  LET e == actions[c].email IN
  /\ actions[c].kind = "send" /\ actions[c].stage = "sent"
  /\ \/ /\ Full("ip") /\ hits' = Taken(hits, "ip")
        /\ actions' = [actions EXCEPT ![c] = Limited(c, "ip")] /\ UNCHANGED issued
     \/ /\ ~Full("ip") /\ Full(e) /\ hits' = Taken(Taken(hits, "ip"), e)
        /\ actions' = [actions EXCEPT ![c] = Limited(c, e)] /\ UNCHANGED issued
     \/ /\ ~Full("ip") /\ ~Full(e) /\ hits' = Taken(Taken(hits, "ip"), e)
        /\ Issue(e)
        /\ actions' = [actions EXCEPT ![c] = [@ EXCEPT !.stage = "mail", !.code = Len(issued) + 1]]
  /\ UNCHANGED <<card, jar, inbox, opened, owner, second, failures>>

\* Mutant: the answer does not wait for the mail.
SendMail_Unchecked(c) ==
  /\ actions[c].stage = "mail"
  /\ \/ inbox' = [inbox EXCEPT ![actions[c].email] = Append(@, actions[c].code)] /\ UNCHANGED failures
     \/ failures < MaxFailures /\ failures' = failures + 1 /\ UNCHANGED inbox
  /\ actions' = [actions EXCEPT ![c] = Answer(c, "ok")]
  /\ UNCHANGED <<card, jar, issued, opened, owner, hits, second>>

\* The mail is accepted, or it fails, and may then arrive all the same (a timeout).
SendMail(c) ==
  /\ actions[c].stage = "mail"
  /\ \/ /\ inbox' = [inbox EXCEPT ![actions[c].email] = Append(@, actions[c].code)]
        /\ actions' = [actions EXCEPT ![c] = Answer(c, "ok")] /\ UNCHANGED failures
     \/ /\ failures < MaxFailures /\ failures' = failures + 1
        /\ inbox' \in {inbox, [inbox EXCEPT ![actions[c].email] = Append(@, actions[c].code)]}
        /\ actions' = [actions EXCEPT ![c] = Answer(c, "failed")]
  /\ UNCHANGED <<card, jar, issued, opened, owner, hits, second>>

LiveCode(e, n) == issued[n].email = e /\ ~issued[n].spent /\ issued[n].expires > second
Tried(n) ==
  [issued EXCEPT ![n] = [@ EXCEPT !.tries = issued[n].tries + 1, !.spent = issued[n].tries + 1 >= Attempts]]

\* A session, and the anonymous work of the cookie that came with the request.
OpenSession(c) ==
  /\ opened' = Append(opened, [email |-> actions[c].email, code |-> actions[c].code, revoked |-> FALSE])
  /\ owner' = IF owner = Nobody /\ actions[c].anon THEN actions[c].email ELSE owner

\* POST /v1/auth/verify.
VerifyCode(c) ==
  LET e == actions[c].email IN
  /\ actions[c].kind = "verify" /\ actions[c].stage = "sent"
  /\ hits' = Taken(hits, "verify")
  /\ \/ /\ Full("verify")
        /\ actions' = [actions EXCEPT ![c] = Limited(c, "verify")] /\ UNCHANGED <<issued, opened, owner>>
     \/ /\ ~Full("verify") /\ \A n \in DOMAIN issued : ~LiveCode(e, n)
        /\ actions' = [actions EXCEPT ![c] = Answer(c, "invalid")] /\ UNCHANGED <<issued, opened, owner>>
     \/ \E n \in DOMAIN issued :
        /\ ~Full("verify") /\ LiveCode(e, n) /\ n # actions[c].code
        /\ issued' = Tried(n)
        /\ actions' = [actions EXCEPT ![c] = Answer(c, "invalid")] /\ UNCHANGED <<opened, owner>>
     \/ \E n \in DOMAIN issued :
        /\ ~Full("verify") /\ LiveCode(e, n) /\ n = actions[c].code
        /\ issued' = [issued EXCEPT ![n] = [@ EXCEPT !.spent = TRUE]]
        /\ OpenSession(c)
        /\ actions' = [actions EXCEPT ![c] = Verified(c, Len(opened) + 1)]
  /\ UNCHANGED <<card, jar, inbox, second, failures>>

\* POST /v1/auth/signout with the cookie of the request; the action goes on when it fails.
SignOut(c) ==
  /\ actions[c].kind = "signOut" /\ actions[c].stage = "sent"
  /\ \/ opened' = [opened EXCEPT ![actions[c].session] = [@ EXCEPT !.revoked = TRUE]] /\ UNCHANGED failures
     \/ failures < MaxFailures /\ failures' = failures + 1 /\ UNCHANGED opened
  /\ actions' = [actions EXCEPT ![c] = Answer(c, "ok")]
  /\ UNCHANGED <<card, jar, inbox, issued, owner, hits, second>>

(***************************************************************************)
(* The answers.                                                            *)
(***************************************************************************)

\* The relayed cookies, and what the card does, arrive with one response.
Relayed(c) ==
  IF actions[c].answer # "ok" THEN jar
  ELSE CASE actions[c].kind = "send" -> jar
         [] actions[c].kind = "verify" -> [session |-> actions[c].session, anon |-> FALSE]
         [] actions[c].kind = "signOut" -> [jar EXCEPT !.session = 0]

\* limit: the countdown of the button that was pressed.
Shown(d, c) ==
  IF actions[c].kind = "send" THEN [d EXCEPT !.until.send = second + actions[c].wait]
                            ELSE [d EXCEPT !.until.verify = second + actions[c].wait]

Settled(d, c) ==
  CASE actions[c].kind = "signOut" -> [d EXCEPT !.step = "email", !.until = Waits, !.sent = 0]
    [] actions[c].answer = "limited" /\ actions[c].kind # "signOut" -> Shown(d, c)
    [] actions[c].answer = "ok" /\ actions[c].kind = "send" ->
         [d EXCEPT !.step = "code", !.until.resend = second + ResendWait, !.sent = actions[c].code]
    [] actions[c].answer = "ok" /\ actions[c].kind = "verify" -> [d EXCEPT !.step = "done", !.sent = 0]
    [] OTHER -> d

Receive(t) ==
  LET c == card[t].busy IN
  /\ c # 0 /\ actions[c].stage = "answered"
  /\ jar' = Relayed(c)
  /\ card' = [card EXCEPT ![t] = [Settled(card[t], c) EXCEPT !.busy = 0]]
  /\ actions' = [actions EXCEPT ![c] = NoCall]
  /\ UNCHANGED <<inbox, issued, opened, owner, hits, second, failures>>

\* settle: the response is lost on its way; what the gateway does goes on.
Lose(t) ==
  /\ card[t].busy # 0 /\ failures < MaxFailures
  /\ card' = [card EXCEPT ![t] = [@ EXCEPT !.busy = 0]]
  /\ actions' = IF actions[card[t].busy].stage = "answered" THEN [actions EXCEPT ![card[t].busy] = NoCall]
                                                           ELSE actions
  /\ failures' = failures + 1
  /\ UNCHANGED <<jar, inbox, issued, opened, owner, hits, second>>

\* GET /v1/me with the session cookie, asked only when there is one.
Me(session) == ~opened[session].revoked
ResolveSession == jar.session # 0 /\ Me(jar.session)

\* requireSession on the page the card leads to: without a live session it is the card again.
OpenPage(t) ==
  /\ card[t].step = "done" /\ card[t].busy = 0 /\ ~ResolveSession
  /\ card' = [card EXCEPT ![t] = [@ EXCEPT !.step = "email", !.until = Waits]]
  /\ UNCHANGED <<actions, jar, inbox, issued, opened, owner, hits, second, failures>>

(***************************************************************************)
(* Elsewhere.                                                              *)
(***************************************************************************)

\* A code is asked for from another client address, and mailed.
AskElsewhere(e) ==
  /\ ~Full(e) /\ failures < MaxFailures /\ failures' = failures + 1
  /\ hits' = Taken(hits, e)
  /\ Issue(e) /\ inbox' = [inbox EXCEPT ![e] = Append(@, Len(issued) + 1)]
  /\ UNCHANGED <<card, actions, jar, opened, owner, second>>

\* Another instance, with empty windows.
RestartGateway ==
  /\ failures < MaxFailures /\ failures' = failures + 1
  /\ hits' = [k \in Keys |-> <<>>]
  /\ UNCHANGED <<card, actions, jar, inbox, issued, opened, owner, second>>

Second ==
  /\ second < LastSecond /\ second' = second + 1
  /\ UNCHANGED <<card, actions, jar, inbox, issued, opened, owner, hits, failures>>

SignInNext ==
  \/ \E t \in Tabs : SendCode(t) \/ Verify(t) \/ SignOutAction(t) \/ UseExistingCode(t)
                     \/ (\E e \in Emails : ChangeEmail(t, e)) \/ Receive(t) \/ Lose(t) \/ OpenPage(t)
  \/ \E c \in DOMAIN actions : RequestCode(c) \/ SendMail(c) \/ VerifyCode(c) \/ SignOut(c)
  \/ (\E e \in Emails : AskElsewhere(e)) \/ RestartGateway \/ Second

SignInSpec == SignInInit /\ [][SignInNext]_signInVars

(***************************************************************************)
(* Properties.                                                             *)
(***************************************************************************)

\* A card that says "Code sent" spoke the truth: its code is in the inbox, and it works until
\* it expires, unless it was used, tried too often or replaced by a later request.
SentIsUsable ==
  \A t \in Tabs : LET n == card[t].sent IN n # 0 =>
    /\ \E i \in DOMAIN inbox[card[t].email] : inbox[card[t].email][i] = n
    /\ issued[n].email = card[t].email
    /\ issued[n].spent =>
         \/ \E m \in DOMAIN issued : m > n /\ issued[m].email = card[t].email
         \/ issued[n].tries >= Attempts
         \/ \E s \in DOMAIN opened : opened[s].code = n

\* The build made before the sign-in is never out of reach, whichever answers are lost: the
\* browser still has the anonymous cookie, or the build belongs to an account.
BuildReachable == owner = Nobody => jar.anon

\* A caller told to wait has waited long enough when the wait is over: but for hits made since,
\* the window then has room.
WaitIsEnough ==
  \A c \in DOMAIN actions : LET k == actions'[c].key IN
    actions[c].answer # "limited" /\ actions'[c].answer = "limited" =>
      Cardinality({i \in DOMAIN hits'[k] : hits'[k][i] + Window > second + actions'[c].wait}) < Limit(k)

\* A card says "You're signed in" only in the step that puts a live session of its own address
\* into the cookies.
DoneWithCookie ==
  \A t \in Tabs : card[t].step # "done" /\ card'[t].step = "done" =>
    /\ jar'.session # 0 /\ ~opened[jar'.session].revoked
    /\ opened[jar'.session].email = card[t].email

\* Signing in tells the truth, whatever is lost, late or asked for twice.
SignInHonest == [][DoneWithCookie /\ WaitIsEnough /\ (SentIsUsable /\ BuildReachable)']_signInVars
=============================================================================
