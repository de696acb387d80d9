------------------------------ MODULE Workspace ------------------------------
(***************************************************************************)
(* The tabs of one browser that share a session cookie: sign-in and        *)
(* sign-out, switching the workspace, the signals by which the other tabs  *)
(* hear of a switch (WorkspaceBoundary.tsx), the check of a tab's identity *)
(* on mount and on focus (WorkspaceIdentity.tsx), and starting a build,    *)
(* which the tab admits by that check and the gateway by the workspace the *)
(* request names.                                                          *)
(*                                                                         *)
(* A request carries the cookies of the moment it is sent and meets the    *)
(* session as it is when the gateway reads it.  A signal is a value in     *)
(* localStorage, here its number; it reaches the other tabs by a storage   *)
(* event or a BroadcastChannel, in no order, or not until they get focus.  *)
(***************************************************************************)
EXTENDS Naturals, Sequences, FiniteSets

CONSTANTS Tabs,
          Actors,      \* bound: the tabs in which the person switches, signs in and signs out
          Returned,    \* bound: the tabs the person returns to and starts builds in
          Users,       \* accounts somebody may sign in to
          MemberOf,    \* the workspaces of each user
          Nobody,
          MaxChanges,  \* bound: times the browser's identity changes
          MaxSignals,  \* bound: signals
          MaxChecks    \* bound: identity checks of one page

ASSUME WorkspaceAssumption ==
  /\ \A u \in Users : MemberOf[u] # {} /\ Nobody \notin MemberOf[u]
  /\ Actors \cup Returned \subseteq Tabs /\ Nobody \notin Users /\ {MaxChanges, MaxSignals, MaxChecks} \subseteq Nat

VARIABLES
  jar,      \* the session cookie: a session, or 0
  sessions, \* users.sessions
  tab,
  signals,  \* the phases signalled so far; the last is in localStorage
  mail,     \* the signals on their way to each tab
  late,     \* switches whose answer nobody waits for any more
  changes,  \* times the browser's identity changed
  since,    \* tabs for which it has not changed since their newest check began
  strays    \* builds committed outside the workspace their tab showed

workspaceVars == <<jar, sessions, tab, signals, mail, late, changes, since, strays>>

NoIdentity == [user |-> Nobody, tenant |-> Nobody]
NoCall == [pc |-> "none", jar |-> 0, tenant |-> Nobody, shown |-> Nobody]
Rendered(who) ==
         [state |-> "rendered", shown |-> who, blocked |-> FALSE, revision |-> 0, own |-> {},
          admitted |-> FALSE, gen |-> 0, checks |-> {}, switch |-> NoCall, build |-> NoCall]

\* resolveSession: no cookie is nobody, and so is a session the gateway answers with 401.
ResolveSession(s, cookie) ==
  IF cookie = 0 \/ ~s[cookie].live THEN NoIdentity
  ELSE [user |-> s[cookie].user, tenant |-> s[cookie].tenant]

Identity == ResolveSession(sessions, jar)

\* The page as the server renders it for whoever is signed in.
Reloaded == Rendered(Identity)

\* The browser starts signed in to an account with the most workspaces.
FirstUser == CHOOSE u \in Users : \A v \in Users : Cardinality(MemberOf[v]) <= Cardinality(MemberOf[u])

WorkspaceInit ==
  /\ \E t \in MemberOf[FirstUser] : sessions = <<[user |-> FirstUser, tenant |-> t, live |-> TRUE]>>
  /\ jar = 1 /\ tab = [x \in Tabs |-> Rendered(ResolveSession(sessions, 1))] /\ signals = <<>> /\ mail = [x \in Tabs |-> {}]
  /\ late = {} /\ changes = 0 /\ since = {} /\ strays = {}

\* What a step does to the cookie and the sessions, with the changes of session or identity counted;
\* `started` are the tabs that begin a check in it.
Becomes(cookie, s, started) ==
  /\ jar' = cookie /\ sessions' = s
  /\ IF cookie = jar /\ ResolveSession(s, cookie) = Identity THEN changes' = changes /\ since' = since \cup started
     ELSE changes' = changes + 1 /\ since' = started

SameIdentity(started) == UNCHANGED <<jar, sessions, changes>> /\ since' = since \cup started
MayChange == changes < MaxChanges

(***************************************************************************)
(* Cookies a Server Function relays from the gateway to the browser.       *)
(***************************************************************************)

CredentialCookies == {"session", "anon"}

\* An empty value or a Max-Age that is over deletes; the last line of a name wins.
Expired(line) == line.value = 0 \/ line.maxAge <= 0
Relays(lines) ==
  [n \in {lines[i].name : i \in DOMAIN lines} \cap CredentialCookies |->
     LET i == CHOOSE i \in DOMAIN lines : lines[i].name = n /\ \A j \in DOMAIN lines : lines[j].name = n => j <= i
     IN  IF Expired(lines[i]) THEN 0 ELSE lines[i].value]
Relayed(cookie, lines) == IF "session" \in DOMAIN Relays(lines) THEN Relays(lines)["session"] ELSE cookie
CredentialSet(lines) == "session" \in DOMAIN Relays(lines) /\ Relays(lines)["session"] # 0

\* The gateway's answer to a verified code, and to a sign-out.
SessionSetCookie(s) == <<[name |-> "session", value |-> s, maxAge |-> 1], [name |-> "anon", value |-> 0, maxAge |-> 0]>>
SessionClearCookie == <<[name |-> "session", value |-> 0, maxAge |-> 0]>>

(***************************************************************************)
(* Identity checks.                                                        *)
(***************************************************************************)

\* check: admission is withdrawn until the newest check has answered.
Checking(x) ==
  [x EXCEPT !.gen = @ + 1, !.admitted = FALSE,
            !.checks = @ \cup {[gen |-> x.gen + 1, jar |-> jar', answer |-> "asked"]}]

\* Only when a page has mounted does it read the last signal and start to listen.
Mount(x) ==
  /\ tab[x].state = "rendered" /\ SameIdentity({x})
  /\ tab' = [tab EXCEPT ![x] = Checking([@ EXCEPT !.state = "open", !.revision = Len(signals)])]
  /\ mail' = [mail EXCEPT ![x] = {}]
  /\ UNCHANGED <<signals, late, strays>>

\* getHeaderSession: when the session could not be read the header is rendered signed out.
HeaderFailed(x) ==
  /\ tab[x].state = "rendered" /\ tab[x].shown # NoIdentity
  /\ tab' = [tab EXCEPT ![x].shown = NoIdentity]
  /\ SameIdentity({}) /\ UNCHANGED <<signals, mail, late, strays>>

\* The header renders again for a new identity, and its effect runs again.
Rerender(x, who) == Checking([x EXCEPT !.shown = who, !.gen = 0, !.checks = {}])

CheckEvaluated(x, c) ==
  /\ c \in tab[x].checks /\ c.answer = "asked"
  /\ LET a == IF ResolveSession(sessions, c.jar) = tab[x].shown THEN "same" ELSE "other"
     IN  tab' = [tab EXCEPT ![x].checks = (@ \ {c}) \cup {[c EXCEPT !.answer = a]}]
  /\ SameIdentity({}) /\ UNCHANGED <<signals, mail, late, strays>>

\* The session cannot be read or the answer is lost: the tab stays without admission.
CheckFailed(x, c) ==
  /\ c \in tab[x].checks
  /\ tab' = [tab EXCEPT ![x].checks = @ \ {c}]
  /\ SameIdentity({}) /\ UNCHANGED <<signals, mail, late, strays>>

\* Mutant: an answer counts whichever check it belongs to.
Current_Any(x, c) == TRUE

\* An older check's answer is ignored.
Current(x, c) == c.gen = tab[x].gen

CheckAnswered(x, c) ==
  /\ c \in tab[x].checks /\ c.answer # "asked"
  /\ tab' = [tab EXCEPT ![x] =
       IF ~Current(x, c) THEN [tab[x] EXCEPT !.checks = @ \ {c}]
       ELSE IF c.answer = "same" THEN [tab[x] EXCEPT !.checks = @ \ {c}, !.admitted = TRUE]
       ELSE Reloaded]
  /\ SameIdentity({}) /\ UNCHANGED <<signals, mail, late, strays>>

(***************************************************************************)
(* Signals.                                                                *)
(***************************************************************************)

\* changed: a signal of another tab blocks this one, and its end reloads it.
Changed(x, n) ==
  IF n = tab[x].revision THEN tab[x]
  ELSE IF n \in tab[x].own THEN [tab[x] EXCEPT !.revision = n]
  ELSE IF signals[n] = "finish" THEN Reloaded
  ELSE [tab[x] EXCEPT !.revision = n, !.blocked = TRUE]

\* signal: stored, and broadcast to every tab that listens.  The tab that sends it hears it
\* too, and ignores it.
Signal(x, phase) ==
  /\ Len(signals) < MaxSignals
  /\ signals' = Append(signals, phase)
  /\ mail' = [y \in Tabs |-> IF tab[y].state = "open" /\ y # x THEN mail[y] \cup {Len(signals) + 1} ELSE mail[y]]

Hear(x, n) ==
  /\ tab[x].state = "open" /\ n \in mail[x]
  /\ tab' = [tab EXCEPT ![x] = Changed(x, n)]
  /\ mail' = [mail EXCEPT ![x] = @ \ {n}]
  /\ SameIdentity({}) /\ UNCHANGED <<signals, late, strays>>

\* The person returns to the tab: both effects listen.
Focus(x) ==
  /\ tab[x].state = "open" /\ tab[x].gen < MaxChecks
  /\ LET heard == IF signals = <<>> THEN tab[x] ELSE Changed(x, Len(signals))
     IN  SameIdentity({x}) /\ tab' = [tab EXCEPT ![x] = IF heard.state = "open" THEN Checking(heard) ELSE heard]
  /\ UNCHANGED <<signals, mail, late, strays>>

\* "Reload workspace".
Reload(x) ==
  /\ tab[x].state = "open" /\ tab[x].blocked /\ tab[x].switch = NoCall
  /\ tab' = [tab EXCEPT ![x] = Reloaded]
  /\ SameIdentity({}) /\ UNCHANGED <<signals, mail, late, strays>>

(***************************************************************************)
(* Switching the workspace, signing in and signing out.                    *)
(***************************************************************************)

BeginSwitch(x, t) ==
  /\ tab[x].state = "open" /\ ~tab[x].blocked /\ tab[x].switch = NoCall
  /\ tab[x].shown.user # Nobody /\ t \in MemberOf[tab[x].shown.user] \ {tab[x].shown.tenant}
  /\ Signal(x, "begin")
  /\ tab' = [tab EXCEPT ![x].blocked = TRUE, ![x].own = @ \cup {Len(signals) + 1},
                        ![x].switch = [NoCall EXCEPT !.pc = "sent", !.jar = jar, !.tenant = t]]
  /\ SameIdentity({}) /\ UNCHANGED <<late, strays>>

\* switchTenant: the session must live and its user be a member.
CanSwitch(call) ==
  call.jar # 0 /\ sessions[call.jar].live /\ call.tenant \in MemberOf[sessions[call.jar].user]
Switched(call) == [sessions EXCEPT ![call.jar].tenant = call.tenant]

SwitchHandled(x) ==
  /\ tab[x].switch.pc = "sent"
  /\ \/ /\ CanSwitch(tab[x].switch) /\ MayChange /\ Becomes(jar, Switched(tab[x].switch), {})
        /\ tab' = [tab EXCEPT ![x].switch.pc = "done"]
     \/ /\ SameIdentity({})
        /\ tab' = [tab EXCEPT ![x].switch.pc = "failed"]
  /\ UNCHANGED <<signals, mail, late, strays>>

\* finish reloads this tab; fail leaves it blocked with a button.  Both tell the others.
SwitchAnswered(x) ==
  /\ tab[x].switch.pc \in {"done", "failed"} /\ Signal(x, "finish")
  /\ tab' = [tab EXCEPT ![x] = IF tab[x].switch.pc = "done" THEN Reloaded
                               ELSE [tab[x] EXCEPT !.switch = NoCall, !.own = @ \cup {Len(signals) + 1}]]
  /\ SameIdentity({}) /\ UNCHANGED <<late, strays>>

\* The connection breaks: the switch may still reach the gateway.
SwitchLost(x) ==
  /\ tab[x].switch.pc = "sent" /\ Signal(x, "finish")
  /\ late' = late \cup {tab[x].switch}
  /\ tab' = [tab EXCEPT ![x].switch = NoCall, ![x].own = @ \cup {Len(signals) + 1}]
  /\ SameIdentity({}) /\ UNCHANGED strays

\* The tab is reloaded or closed in the middle of a switch.
Abandon(x) ==
  /\ tab[x].switch.pc \in {"sent", "done", "failed"}
  /\ late' = IF tab[x].switch.pc = "sent" THEN late \cup {tab[x].switch} ELSE late
  /\ tab' = [tab EXCEPT ![x] = Reloaded]
  /\ SameIdentity({}) /\ UNCHANGED <<signals, mail, strays>>

LateSwitch(call) ==
  /\ call \in late /\ MayChange /\ CanSwitch(call)
  /\ late' = late \ {call} /\ Becomes(jar, Switched(call), {})
  /\ UNCHANGED <<tab, signals, mail, strays>>

\* verifySignInCode: success is the session cookie set, whatever else the answer says.
SignIn(x, u, t) ==
  /\ tab[x].state = "open" /\ ~tab[x].blocked /\ tab[x].shown = NoIdentity /\ t \in MemberOf[u] /\ MayChange
  /\ LET opened == Append(sessions, [user |-> u, tenant |-> t, live |-> TRUE])
         lines == SessionSetCookie(Len(opened))
     IN  /\ CredentialSet(lines)
         /\ Becomes(Relayed(jar, lines), opened, {x})
         /\ tab' = [tab EXCEPT ![x] = Rerender(@, ResolveSession(opened, Len(opened)))]
  /\ UNCHANGED <<signals, mail, late, strays>>

\* signOut: the cookie goes even when the gateway could not revoke the session family.
SignOut(x) ==
  /\ tab[x].state = "open" /\ tab[x].shown # NoIdentity /\ MayChange
  /\ \E revoked \in {sessions, IF jar = 0 THEN sessions ELSE [sessions EXCEPT ![jar].live = FALSE]} :
       Becomes(Relayed(jar, SessionClearCookie), revoked, {x})
  /\ tab' = [tab EXCEPT ![x] = Rerender(@, NoIdentity)]
  /\ UNCHANGED <<signals, mail, late, strays>>

(***************************************************************************)
(* Starting a build.                                                       *)
(***************************************************************************)

\* send: nothing before the workspace has been checked.
StartBuild(x) ==
  /\ tab[x].state = "open" /\ ~tab[x].blocked /\ tab[x].admitted /\ tab[x].build = NoCall
  /\ tab' = [tab EXCEPT ![x].build = [pc |-> "sent", jar |-> jar, tenant |-> tab[x].shown.tenant, shown |-> tab[x].shown.tenant]]
  /\ SameIdentity({}) /\ UNCHANGED <<signals, mail, late, strays>>

\* expected_tenant_id is compared before anything is created.
Intended(call, owner) == call.tenant = owner

BuildHandled(x) ==
  /\ tab[x].build.pc = "sent"
  /\ LET owner == ResolveSession(sessions, tab[x].build.jar).tenant
     IN  strays' = IF Intended(tab[x].build, owner) /\ owner # tab[x].build.shown
                   THEN strays \cup {owner} ELSE strays
  /\ tab' = [tab EXCEPT ![x].build = NoCall]
  /\ SameIdentity({}) /\ UNCHANGED <<signals, mail, late>>

WorkspaceNext ==
  \/ \E x \in Tabs :
       \/ Mount(x) \/ Reload(x) \/ BuildHandled(x)
       \/ SwitchHandled(x) \/ SwitchAnswered(x) \/ SwitchLost(x) \/ Abandon(x)
       \/ \E c \in tab[x].checks : CheckEvaluated(x, c) \/ CheckFailed(x, c) \/ CheckAnswered(x, c)
       \/ \E n \in mail[x] : Hear(x, n)
  \/ \E x \in Returned : HeaderFailed(x) \/ Focus(x) \/ StartBuild(x)
  \/ \E x \in Actors : SignOut(x)
  \/ \E x \in Actors, u \in Users, t \in UNION {MemberOf[v] : v \in Users} : BeginSwitch(x, t) \/ SignIn(x, u, t)
  \/ \E call \in late : LateSwitch(call)

\* A build is committed only in the workspace its tab showed when it was sent
\* (build-routes.ts 192), and a tab that admits writes since its newest identity check shows
\* whoever is signed in, unless session or identity changed after the check began (WorkspaceIdentity.tsx).
ActsWhereShown ==
  /\ strays = {}
  /\ \A x \in since : tab[x].admitted => tab[x].shown = Identity
=============================================================================
