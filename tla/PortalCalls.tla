---------------------------- MODULE PortalCalls -----------------------------
(***************************************************************************)
(* For whom the portal's server speaks when it calls the gateway: the      *)
(* identity token of the portal and its cache (id-token.server.ts), the    *)
(* headers of a call (gateway-headers.server.ts, server.ts,                *)
(* gateway-stream.server.ts), the credential cookies on their way there    *)
(* and back (credential-cookies.ts, cookies.ts, session-client.ts), and    *)
(* what the gateway makes of them (internal-auth.ts, session-cookie.ts,    *)
(* owner.ts, mutation-origin.ts).                                          *)
(*                                                                         *)
(* A visit is one request of a browser: a page, a stream through the       *)
(* portal, a Server Action on the auth routes with the render that follows *)
(* it, a guarded Server Action, or an auth request that reaches the        *)
(* gateway directly.  A Cookie header is a sequence of name and value      *)
(* pairs, an X-Forwarded-For header the sequence of its entries.           *)
(***************************************************************************)
EXTENDS Naturals, Sequences, FiniteSets

CONSTANTS Visits,
          Asked,                     \* per visit: the requests a browser may make of it
          TrustedHops,               \* TRUSTED_PROXY_HOPS
          Margin,                    \* REFRESH_MARGIN_MS
          Fallback,                  \* FALLBACK_LIFETIME_MS
          CacheMax,                  \* CACHE_MAX
          Lifetime, Skew,            \* of Google's tokens, and what their verification tolerates
          Patience,                  \* how long a call takes at most
          LastMinute, MaxTokens, MaxTroubles  \* bounds

NoAddress == "none"
Malformed == {"", "torn"}

\* The load balancer in front is the one trusted proxy; Google's tokens outlive the margin, and the
\* margin, with what verification tolerates, a call.
ASSUME CallsAssumption ==
  /\ TrustedHops = 1
  /\ Margin \in Nat /\ Fallback \in Nat /\ Lifetime \in Nat /\ Skew \in Nat /\ Patience \in Nat
  /\ MaxTokens \in Nat
  /\ Margin < Lifetime /\ Patience <= Margin + Skew + 1
  /\ \A v \in Visits : \A q \in Asked[v] :
       /\ q.from # NoAddress
       /\ q.stated \in Seq({q.stated[i] : i \in DOMAIN q.stated})

VARIABLES
  visits,    \* per visit: where it stands
  idCache,   \* the portal's cached token and when it takes it to expire
  tokens,    \* the tokens Google has signed, by number
  verified,  \* per token: the expiry the gateway remembers, 0 for none
  minute,
  troubles

callVars == <<visits, idCache, tokens, verified, minute, troubles>>

Proxy == "proxy"   \* the load balancer's own address
Portal == "portal" \* the socket address of the portal's calls

\* One of the site's other cookies.
Other == <<"theme", "dark">>

NoVisit ==
  [pc |-> "idle", kind |-> "page", from |-> NoAddress, stated |-> <<>>, origin |-> "none",
   store |-> [session |-> "", anon |-> ""], cookies |-> <<>>, token |-> 0, began |-> 0, since |-> 0,
   charged |-> NoAddress, acting |-> [session |-> "", anon |-> ""], hindered |-> FALSE, again |-> FALSE]

Gone == [NoVisit EXCEPT !.pc = "over"]

CallsInit ==
  /\ visits = [v \in Visits |-> NoVisit]
  /\ idCache = [token |-> 0, expiresAt |-> 0]
  /\ tokens = <<>> /\ verified = [n \in 1..MaxTokens |-> 0]
  /\ minute = 0 /\ troubles = 0

(***************************************************************************)
(* Cookies.                                                                *)
(***************************************************************************)

\* Where the name stands in a Cookie header with a value that is not passed over.
Places(header, name, passedOver) == {i \in DOMAIN header : header[i][1] = name /\ header[i][2] \notin passedOver}

\* The first of them, 0 for none.
First(header, name, passedOver) ==
  IF Places(header, name, passedOver) = {} THEN 0
  ELSE CHOOSE i \in Places(header, name, passedOver) : \A j \in Places(header, name, passedOver) : i <= j

ValueAt(header, i) == IF i = 0 THEN "" ELSE header[i][2]

\* A Cookie header with the values of the allowlisted names that have one, in their order.
Pair(name, value) == IF value = "" THEN <<>> ELSE << <<name, value>> >>
Header(value) == Pair("session", value.session) \o Pair("anon", value.anon)

ForwardedCookies(header) ==
  Header([session |-> ValueAt(header, First(header, "session", {""})),
          anon |-> ValueAt(header, First(header, "anon", {""}))])

CredentialCookieHeader(store) == Header(store)

\* A session or anonymous owner token: 43 characters of base64url.
WholeOrNone(value) == IF value \in Malformed THEN "" ELSE value

\* cookieValue: the first occurrence wins, whatever its value.
SessionToken(header) == WholeOrNone(ValueAt(header, First(header, "session", {})))

AnonToken(header) == ValueAt(header, First(header, "anon", Malformed))

Credentials(header) == [session |-> SessionToken(header), anon |-> AnonToken(header)]

\* The Set-Cookie lines of an auth route: of a sign-out with a session, of a sign-in without one,
\* and none of a code request.
SetCookies(session) ==
  {<<>>, IF session = "" THEN << <<"session", "new", 30>>, <<"anon", "", 0>> >>
                         ELSE << <<"session", "", 0>> >>}

ParseSetCookie(line) == [name |-> line[1], value |-> line[2], maxAge |-> line[3]]

\* relayableCookies: the last line of a name decides; an empty or expired value deletes.
RelayedValue(lines, name, old) ==
  LET at == {i \in DOMAIN lines : ParseSetCookie(lines[i]).name = name} IN
  IF at = {} THEN old
  ELSE LET cookie == ParseSetCookie(lines[CHOOSE i \in at : \A j \in at : i >= j]) IN
       IF cookie.value = "" \/ cookie.maxAge <= 0 THEN "" ELSE cookie.value

ApplyRelays(store, lines) == [name \in DOMAIN store |-> RelayedValue(lines, name, store[name])]

(***************************************************************************)
(* Addresses.                                                              *)
(***************************************************************************)

\* The load balancer appends the client and itself to what the client sent.
XForwardedFor(visit) == visit.stated \o <<visit.from, Proxy>>

ClientIpFromXff(entries) ==
  IF Len(entries) > TrustedHops THEN entries[Len(entries) - TrustedHops] ELSE NoAddress

\* What a call shows the gateway: its X-Albus-Client-IP, X-Forwarded-For and socket address.
\* Between the portal and the gateway there is no load balancer.
ForwardedIp(visit) == IF visit.kind = "direct" THEN NoAddress ELSE ClientIpFromXff(XForwardedFor(visit))
SeenEntries(visit) == IF visit.kind = "direct" THEN XForwardedFor(visit) ELSE <<>>
SocketIp(visit) == IF visit.kind = "direct" THEN Proxy ELSE Portal

\* The visitor when the forwarded address is not believed; never undefined.
Unforwarded(visit) ==
  LET ip == ClientIpFromXff(SeenEntries(visit)) IN IF ip # NoAddress THEN ip ELSE SocketIp(visit)

(***************************************************************************)
(* The browser and the portal.                                             *)
(***************************************************************************)

\* The header the gateway receives: the portal's filtered one, or the browser's own.
Sent(visit) == IF visit.kind = "direct" THEN visit.cookies ELSE ForwardedCookies(visit.cookies)

Arrive(v) ==
  \E q \in Asked[v] :
    LET store == [session |-> q.session, anon |-> q.anon] IN
    /\ visits[v].pc = "idle"
    /\ visits' = [visits EXCEPT ![v] =
         [NoVisit EXCEPT !.pc = IF q.kind = "direct" THEN "sent" ELSE "token", !.kind = q.kind,
                         !.from = q.from, !.stated = q.stated, !.origin = q.origin, !.store = store,
                         !.cookies = IF q.kind \in {"direct", "stream"} THEN <<Other>> \o Header(store)
                                                                        ELSE CredentialCookieHeader(store),
                         !.began = minute]]
    /\ UNCHANGED <<idCache, tokens, verified, minute, troubles>>

\* assertActionOrigin, of the portal and, for the gateway's guarded routes, assertSameOrigin.
SameOrigin(origin, host) == origin = host

\* A guarded Server Action from another origin ends before any call.
RefuseOrigin(v) ==
  /\ visits[v].pc = "token" /\ visits[v].kind = "guarded" /\ ~SameOrigin(visits[v].origin, "portal")
  /\ visits' = [visits EXCEPT ![v] = Gone]
  /\ UNCHANGED <<idCache, tokens, verified, minute, troubles>>

Callable(v) ==
  /\ visits[v].pc = "token"
  /\ visits[v].kind = "guarded" => SameOrigin(visits[v].origin, "portal")

\* Mutant: a cached token is used until the moment it expires.
Fresh_UntilExpiry(c) == c.token # 0 /\ c.expiresAt > minute

Fresh(c) == c.token # 0 /\ c.expiresAt > minute + Margin

UseCached(v) ==
  /\ Callable(v) /\ Fresh(idCache)
  /\ visits' = [visits EXCEPT ![v] = [@ EXCEPT !.pc = "sent", !.token = idCache.token]]
  /\ UNCHANGED <<idCache, tokens, verified, minute, troubles>>

AskMetadata(v) ==
  /\ Callable(v) /\ ~Fresh(idCache)
  /\ visits' = [visits EXCEPT ![v] = [@ EXCEPT !.pc = "fetching", !.since = minute]]
  /\ UNCHANGED <<idCache, tokens, verified, minute, troubles>>

\* The metadata server signs a token, or returns one it still holds; an unreadable expiry is a
\* trouble.
Signed(t) ==
  \/ /\ Len(tokens) < MaxTokens /\ t = Len(tokens) + 1
     /\ \E readable \in BOOLEAN :
          /\ readable \/ troubles < MaxTroubles
          /\ troubles' = IF readable THEN troubles ELSE troubles + 1
          /\ tokens' = Append(tokens, [exp |-> minute + Lifetime, readable |-> readable])
  \/ t \in DOMAIN tokens /\ tokens[t].exp > minute + Margin /\ UNCHANGED <<tokens, troubles>>

JwtExpiry(t, since) == IF tokens'[t].readable THEN tokens'[t].exp ELSE since + Fallback

MetadataAnswers(v) ==
  /\ visits[v].pc = "fetching"
  /\ \E t \in 1..MaxTokens :
       /\ Signed(t)
       /\ idCache' = [token |-> t, expiresAt |-> JwtExpiry(t, visits[v].since)]
       /\ visits' = [visits EXCEPT ![v] = [@ EXCEPT !.pc = "sent", !.token = t, !.since = 0]]
  /\ UNCHANGED <<verified, minute>>

\* No token: the call is not made and the visit fails.
MetadataFails(v) ==
  /\ visits[v].pc = "fetching" /\ troubles < MaxTroubles /\ troubles' = troubles + 1
  /\ visits' = [visits EXCEPT ![v] = Gone]
  /\ UNCHANGED <<idCache, tokens, verified, minute>>

\* The gateway cannot be reached: a page fails, a stream is answered 502.
CallFails(v) ==
  /\ visits[v].pc = "sent" /\ troubles < MaxTroubles /\ troubles' = troubles + 1
  /\ visits' = [visits EXCEPT ![v] = Gone]
  /\ UNCHANGED <<idCache, tokens, verified, minute>>

(***************************************************************************)
(* The gateway.                                                            *)
(***************************************************************************)

OriginSent(visit) == IF visit.kind = "guarded" THEN "gateway" ELSE "none"
HostSent(visit) == IF visit.kind = "direct" THEN "portal" ELSE "gateway"

\* Only the auth routes resolve the visitor, for their limits.
ChargesVisitor(visit) == visit.kind = "direct" \/ (visit.kind = "action" /\ ~visit.again)

Read(v) == Credentials(Sent(visits[v]))

\* A route that asks for no address: the credentials, and on a guarded one the origin.
Serve(v) ==
  /\ visits[v].pc = "sent" /\ ~ChargesVisitor(visits[v])
  /\ visits[v].kind = "guarded" => SameOrigin(OriginSent(visits[v]), HostSent(visits[v]))
  /\ visits' = [visits EXCEPT ![v] = [@ EXCEPT !.pc = "served", !.acting = Read(v), !.token = 0, !.began = 0]]
  /\ UNCHANGED <<idCache, tokens, verified, minute, troubles>>

ChargeTo(v, ip, hindered) ==
  visits' = [visits EXCEPT ![v] = [@ EXCEPT !.pc = "charged", !.charged = ip, !.acting = Read(v),
                                            !.hindered = hindered, !.token = 0, !.began = 0]]

\* Without a bearer token and an address the load balancer's view counts.
CountSeen(v) ==
  /\ visits[v].pc = "sent" /\ ChargesVisitor(visits[v])
  /\ ForwardedIp(visits[v]) = NoAddress \/ visits[v].token = 0
  /\ ChargeTo(v, Unforwarded(visits[v]), FALSE)
  /\ UNCHANGED <<idCache, tokens, verified, minute, troubles>>

Presented(v) ==
  visits[v].pc = "sent" /\ ChargesVisitor(visits[v]) /\ ForwardedIp(visits[v]) # NoAddress /\ visits[v].token # 0

Remembered(t) == verified[t] > minute

\* verify: a remembered token counts while it lasts.
Recall(v) ==
  /\ Presented(v) /\ Remembered(visits[v].token)
  /\ ChargeTo(v, ForwardedIp(visits[v]), FALSE)
  /\ UNCHANGED <<idCache, tokens, verified, minute, troubles>>

CheckSignature(v) ==
  /\ Presented(v) /\ ~Remembered(visits[v].token)
  /\ verified' = [verified EXCEPT ![visits[v].token] = 0]
  /\ visits' = [visits EXCEPT ![v] = [@ EXCEPT !.pc = "checking"]]
  /\ UNCHANGED <<idCache, tokens, minute, troubles>>

\* verifyIdToken: the signature, the audience, and the expiry with its tolerance.
Verifies(t) == tokens[t].readable /\ tokens[t].exp + Skew >= minute

\* A full map is cleared before the token is remembered.
Remember(t) ==
  LET full == Cardinality({n \in DOMAIN verified : verified[n] # 0}) >= CacheMax IN
  verified' = [n \in DOMAIN verified |-> IF n = t THEN tokens[t].exp ELSE IF full THEN 0 ELSE verified[n]]

Checked(v) ==
  /\ visits[v].pc = "checking"
  /\ \/ /\ Verifies(visits[v].token)
        /\ Remember(visits[v].token)
        /\ ChargeTo(v, ForwardedIp(visits[v]), FALSE)
     \/ /\ ~Verifies(visits[v].token)
        /\ ChargeTo(v, Unforwarded(visits[v]), ~tokens[visits[v].token].readable)
        /\ UNCHANGED verified
  /\ UNCHANGED <<idCache, tokens, minute, troubles>>

\* The signing keys cannot be had.
CheckFails(v) ==
  /\ visits[v].pc = "checking" /\ troubles < MaxTroubles /\ troubles' = troubles + 1
  /\ ChargeTo(v, Unforwarded(visits[v]), TRUE)
  /\ UNCHANGED <<idCache, tokens, verified, minute>>

(***************************************************************************)
(* The answer.                                                             *)
(***************************************************************************)

\* The answer reaches the browser, with the cookies of a direct one.
AnswerBrowser(v) ==
  /\ visits[v].pc = "served" \/ (visits[v].pc = "charged" /\ visits[v].kind = "direct")
  /\ visits' = [visits EXCEPT ![v] = Gone]
  /\ UNCHANGED <<idCache, tokens, verified, minute, troubles>>

\* mutate relays the answer's cookies to the store; the render in the same roundtrip reads it.
Render(v) ==
  /\ visits[v].pc = "charged" /\ visits[v].kind = "action"
  /\ \E lines \in SetCookies(visits[v].store.session) :
       LET store == ApplyRelays(visits[v].store, lines) IN
       visits' = [visits EXCEPT ![v] =
         [NoVisit EXCEPT !.pc = "token", !.kind = "action", !.again = TRUE, !.from = visits[v].from,
                         !.store = store, !.cookies = CredentialCookieHeader(store), !.began = minute]]
  /\ UNCHANGED <<idCache, tokens, verified, minute, troubles>>

RestartPortal ==
  /\ troubles < MaxTroubles /\ troubles' = troubles + 1
  /\ idCache' = [token |-> 0, expiresAt |-> 0]
  /\ visits' = [v \in Visits |-> IF visits[v].pc \in {"token", "fetching"}
                                 THEN Gone ELSE visits[v]]
  /\ UNCHANGED <<tokens, verified, minute>>

\* Another gateway instance, which remembers nothing.
OtherInstance ==
  /\ troubles < MaxTroubles /\ troubles' = troubles + 1
  /\ verified' = [n \in DOMAIN verified |-> 0]
  /\ UNCHANGED <<visits, idCache, tokens, minute>>

\* No call takes longer than Patience: the margin is meant to outlast a request.  An answer is
\* passed on at once.
Minute ==
  /\ minute < LastMinute /\ minute' = minute + 1
  /\ \A v \in Visits : /\ visits[v].pc \notin {"charged", "served"}
                       /\ visits[v].pc \in {"idle", "over"} \/ minute < visits[v].began + Patience
  /\ UNCHANGED <<visits, idCache, tokens, verified, troubles>>

CallsNext ==
  \/ \E v \in Visits :
       Arrive(v) \/ RefuseOrigin(v) \/ UseCached(v) \/ AskMetadata(v) \/ MetadataAnswers(v) \/ MetadataFails(v)
       \/ CallFails(v) \/ Serve(v) \/ CountSeen(v) \/ Recall(v) \/ CheckSignature(v) \/ Checked(v)
       \/ CheckFails(v) \/ AnswerBrowser(v) \/ Render(v)
  \/ RestartPortal \/ OtherInstance \/ Minute

CallsSpec == CallsInit /\ [][CallsNext]_callVars

(***************************************************************************)
(* Properties.                                                             *)
(***************************************************************************)

\* The limits of the auth routes are charged to the visitor who asked, through the portal as
\* without it; the portal's own address is charged only when its token could not be checked.
ChargedToSender ==
  \A v \in Visits : visits[v].charged # NoAddress =>
    visits[v].charged = visits[v].from \/ (visits[v].hindered /\ visits[v].charged = Portal)

\* The gateway acts on the well-formed credentials the browser holds: before a Server Action
\* relays new ones, and on those in the render that follows.
ActsForBrowser ==
  \A v \in Visits :
    visits[v].pc \in {"charged", "served"} =>
      visits[v].acting = [session |-> WholeOrNone(visits[v].store.session), anon |-> WholeOrNone(visits[v].store.anon)]

\* The portal speaks for the visitor whose request it serves, whatever its caches hold.
SpeaksForVisitor == ChargedToSender /\ ActsForBrowser
=============================================================================
