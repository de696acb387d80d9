------------------------------- MODULE Events -------------------------------
(***************************************************************************)
(* One build conversation between a browser and the gateway: the event     *)
(* stream the gateway serves by polling, the EventSource that reads it,    *)
(* sends with a client message id, reads of the build, and the watchdog    *)
(* that chases a reply.  Turns of intake, which write the replies, are     *)
(* module IntakeTurns; here a turn commits one reply or is lost.           *)
(*                                                                         *)
(* A message is its position in the build.  The user's k-th message is at  *)
(* 2k and its reply at 2k + 1, "directly after the message it answers"     *)
(* however late it commits; both fall into the same millisecond, all the   *)
(* browser sees of created_at.  Optimistic copies, which the page shows     *)
(* last, are known by their client message ids.  Texts, candidate parts    *)
(* and cards are left out.                                                 *)
(***************************************************************************)
EXTENDS Integers, Sequences, SequencesExt, FiniteSets

CONSTANTS MaxUser,    \* bound: messages the user sends
          MaxSends,   \* bound: client message ids
          MaxSpec,    \* bound: spec versions
          Statuses,   \* bound: the statuses a new version may give the build
          MaxFaults,  \* bound: lost answers, lost turns, cut streams, failing reads,
                      \* hidden tabs, lost sessions
          Streams,    \* connections the gateway may hold for this page
          PerOwner,   \* streams one owner may hold (DEFAULT_STREAM_LIMITS)
          Lookback,   \* lookbackMs, in positions
          Waits,      \* length of REPLY_RETRY_AFTER_MS
          Retries     \* length of RETRY_DELAYS_MS

ASSUME EventsAssumption ==
  /\ {MaxUser, MaxSends, Waits, PerOwner} \subseteq Nat \ {0}
  /\ {MaxSpec, MaxFaults, Lookback, Retries} \subseteq Nat
  /\ IsFiniteSet(Streams) /\ 0 \notin Streams

VARIABLES
  log,      \* committed messages: position -> client message id and text (0 for a reply)
  detail,   \* the build's status and newest spec version
  turn,     \* the message an intake turn is answering, or 0
  aged,     \* the newest message is older than TURN_IN_PROGRESS_S
  held,     \* the browser's credentials hold the build
  cut,      \* messages committed when they stopped to
  streams,  \* the gateway's side of each connection
  leases,   \* the registry's count for this owner
  page,     \* ConversationState, and the EventSource
  post,     \* the send under way
  read,     \* the refresh under way
  nextId, faults

db == <<log, detail, turn, aged>>
vars == <<log, detail, turn, aged, held, cut, streams, leases, page, post, read, nextId, faults>>

NoEvents == [update |-> <<>>, msgs |-> {}, id |-> 0]
NoStream == [st |-> "free", resume |-> 0, cursor |-> 0, told |-> <<>>, sent |-> {}, batch |-> NoEvents]
NoPost == [text |-> 0, id |-> 0, answer |-> "none"]
NoRead == [on |-> FALSE, min |-> 0, retry |-> 0, got |-> <<>>]

\* initConversation, before any EventSource.
NewConversation ==
  [build |-> FALSE, msgs |-> <<>>, mine |-> {}, status |-> "asking", spec |-> 0, observed |-> 0,
   refErr |-> FALSE, overdue |-> FALSE, unsent |-> <<>>, attempt |-> 0,
   source |-> 0, lastId |-> 0, state |-> "none"]

Init ==
  /\ log = <<>> /\ detail = [status |-> "asking", spec |-> 0] /\ turn = 0 /\ aged = FALSE
  /\ held = TRUE /\ cut = {} /\ streams = [s \in Streams |-> NoStream] /\ leases = 0
  /\ page = NewConversation
  /\ post = NoPost /\ read = NoRead /\ nextId = 1 /\ faults = 0

Fault == faults < MaxFaults /\ faults' = faults + 1

(***************************************************************************)
(* Messages: build-transcript.ts and the reducer's helpers.                *)
(***************************************************************************)
IsUser(m) == m % 2 = 0
Ms(m) == m \div 2
Committed == DOMAIN log
NewestMessage == IF Committed = {} THEN 0 ELSE CHOOSE m \in Committed : \A n \in Committed : n <= m

\* Where a message stands before the sort: shown already, or after those in the database's order.
Place(cur, m) == IF m \in ToSet(cur) THEN CHOOSE i \in DOMAIN cur : cur[i] = m ELSE Len(cur) + m

\* Mutant: messages stay in the order of arrival.
Before_Arrival(cur, m, n) == Place(cur, m) < Place(cur, n)

\* The stable sort by created_at.
Before(cur, m, n) == Ms(m) < Ms(n) \/ (Ms(m) = Ms(n) /\ Place(cur, m) < Place(cur, n))

\* The messages of cur and those that arrive, each once.
Merged(cur, arrived) ==
  LET all == ToSet(cur) \cup arrived IN
  [k \in 1 .. Cardinality(all) |->
     CHOOSE m \in all : Cardinality({n \in all : Before(cur, n, m)}) = k - 1]

\* mergeMessages: unique by id; a server copy replaces the optimistic one.
Merge(p, arrived) ==
  [p EXCEPT !.msgs = Merged(p.msgs, arrived), !.mine = p.mine \ {log[m].id : m \in arrived}]

AwaitingReply(p) == p.mine # {} \/ (p.msgs # <<>> /\ IsUser(Last(p.msgs)))
IsTyping(p) == AwaitingReply(p) /\ ~p.overdue

\* settleOverdue: a reply arrived, so the offer to check goes.
SettleOverdue(p) == [p EXCEPT !.overdue = @ /\ AwaitingReply(p)]

\* The watchdog's clock starts again when nothing is waited for.
Clocked(p) == IF IsTyping(p) THEN p ELSE [p EXCEPT !.attempt = 0]

\* withTranscript: an older detail than the stream announced leaves the details alone.
WithTranscript(p, d, arrived) ==
  LET merged == [Merge(p, arrived) EXCEPT !.build = TRUE] IN
  IF d.spec < p.observed THEN merged
  ELSE [merged EXCEPT !.status = d.status, !.spec = d.spec, !.observed = d.spec, !.refErr = FALSE]

\* useBuildRefresh: a new request supersedes the one under way, its retries and its answer.
Request(p, min) ==
  /\ page' = Clocked([p EXCEPT !.refErr = FALSE])
  /\ read' = [NoRead EXCEPT !.on = TRUE, !.min = min]

(***************************************************************************)
(* Sending: BuildConversation.send, runSend and the gateway's routes.      *)
(***************************************************************************)

\* Mutant: every send has a new id.
IdFor_Fresh(unsent, text) == nextId

\* clientMessageIdFor: the failed send's id again for the same text.
IdFor(unsent, text) == IF unsent # <<>> /\ unsent[1] = text THEN unsent[2] ELSE nextId

\* sent: the optimistic copy.
SentLocally(p, id) == [p EXCEPT !.overdue = FALSE, !.mine = p.mine \cup {id}]

\* The user sends a text: its next one, or the one the page gave back.
Send(text) ==
  LET id == IdFor(page.unsent, text) IN
  /\ post = NoPost /\ ~IsTyping(page) /\ id <= MaxSends
  /\ IF page.unsent # <<>> THEN text = page.unsent[1]
     ELSE text = Ms(NewestMessage) + 1
  /\ nextId' = IF id = nextId THEN nextId + 1 ELSE nextId
  /\ page' = Clocked(SentLocally(page, id))
  /\ post' = [text |-> text, id |-> id, answer |-> "none"]
  /\ UNCHANGED <<log, detail, turn, aged, held, cut, streams, leases, read, faults>>

Replayed(id) == {m \in Committed : log[m].id = id /\ log[m].text > 0}

\* createBuild and submitUserMessage: a known id is answered with its message; a recent
\* unanswered message refuses the send; otherwise it commits and triggers a turn.
GatewayPost ==
  /\ post.id > 0 /\ post.answer = "none"
  /\ \/ /\ held /\ Replayed(post.id) # {}
        /\ post' = [post EXCEPT !.answer = "accepted"] /\ UNCHANGED db
     \/ /\ held /\ Replayed(post.id) = {} /\ NewestMessage > 0 /\ IsUser(NewestMessage) /\ ~aged
        /\ post' = [post EXCEPT !.answer = "refused"] /\ UNCHANGED db
     \/ /\ held /\ Replayed(post.id) = {} /\ (NewestMessage > 0 /\ IsUser(NewestMessage) => aged)
        /\ LET m == 2 * (Ms(NewestMessage) + 1) IN
             /\ m <= 2 * MaxUser
             /\ log' = [x \in Committed \cup {m} |-> IF x = m THEN [id |-> post.id, text |-> post.text] ELSE log[x]]
             /\ turn' = IF turn = 0 THEN m ELSE turn
        /\ aged' = FALSE /\ post' = [post EXCEPT !.answer = "accepted"] /\ UNCHANGED detail
     \/ /\ ~held
        /\ post' = [post EXCEPT !.answer = "refused"] /\ UNCHANGED db
  /\ UNCHANGED <<held, cut, streams, leases, page, read, nextId, faults>>

MessageAccepted(p, m) == SettleOverdue(Merge([p EXCEPT !.unsent = <<>>], {m}))
BuildCreated(p, d, arrived) == SettleOverdue(WithTranscript([p EXCEPT !.unsent = <<>>], d, arrived))

\* runSend in an existing build.
PostAnswered ==
  /\ post.answer = "accepted" /\ page.build
  /\ page' = Clocked(MessageAccepted(page, CHOOSE m \in Replayed(post.id) : TRUE))
  /\ post' = NoPost
  /\ UNCHANGED <<log, detail, turn, aged, held, cut, streams, leases, read, nextId, faults>>

\* startBuild: the read that follows the creation may fail, then the ask stays local.
BuildStarted ==
  /\ post.answer = "accepted" /\ ~page.build
  /\ \/ /\ page' = Clocked(BuildCreated(page, detail, IF held THEN Committed
                                                      ELSE {CHOOSE m \in Replayed(post.id) : TRUE}))
        /\ UNCHANGED faults
     \/ Fault /\ page' = Clocked(BuildCreated(page, detail, {}))
  /\ post' = NoPost
  /\ UNCHANGED <<log, detail, turn, aged, held, cut, streams, leases, read, nextId>>

\* failed: the optimistic copy goes and the text comes back.
Unsent ==
  /\ page' = Clocked([page EXCEPT !.mine = page.mine \ {post.id}, !.unsent = <<post.text, post.id>>])
  /\ post' = NoPost

PostRefused ==
  /\ post.answer = "refused" /\ Unsent
  /\ UNCHANGED <<log, detail, turn, aged, held, cut, streams, leases, read, nextId, faults>>

\* SEND_TIMEOUT_MS: the request or its answer is lost.
PostLost ==
  /\ post.id > 0 /\ post.answer # "refused" /\ Fault /\ Unsent
  /\ UNCHANGED <<log, detail, turn, aged, held, cut, streams, leases, read, nextId>>

(***************************************************************************)
(* Turns.                                                                  *)
(***************************************************************************)
\* A turn's transaction: the reply beside its question, perhaps a new version, which decides the status;
\* a later message is taken up by the next turn.
TurnReply(bump, status) ==
  LET r == turn + 1 IN
  /\ turn > 0
  /\ log' = [x \in Committed \cup {r} |-> IF x = r THEN [id |-> 0, text |-> 0] ELSE log[x]]
  /\ detail.spec + bump <= MaxSpec
  /\ detail' = [status |-> status, spec |-> detail.spec + bump]
  /\ turn' = IF NewestMessage > r /\ IsUser(NewestMessage) THEN NewestMessage ELSE 0
  /\ aged' = (aged /\ turn' > 0)
  /\ UNCHANGED <<held, cut, streams, leases, page, post, read, nextId, faults>>

TurnLost ==
  /\ turn > 0 /\ Fault /\ turn' = 0
  /\ UNCHANGED <<log, detail, aged, held, cut, streams, leases, page, post, read, nextId>>

\* A minute passes without a reply.
Age ==
  /\ NewestMessage > 0 /\ IsUser(NewestMessage) /\ ~aged /\ aged' = TRUE
  /\ UNCHANGED <<log, detail, turn, held, cut, streams, leases, page, post, read, nextId, faults>>

\* The session ends, or another tenant claims the build.
Revoke ==
  /\ held /\ Fault /\ held' = FALSE /\ cut' = Committed
  /\ UNCHANGED <<log, detail, turn, aged, streams, leases, page, post, read, nextId>>

(***************************************************************************)
(* The gateway's side of a stream: sse.ts.                                 *)
(***************************************************************************)

\* Mutant: every end of a stream gives a lease back.
Release_Twice(s) == leases' = leases - 1

\* close: only the first of timer, sockets and shutdown releases the lease.
Release(s) == leases' = IF streams[s].st = "open" THEN leases - 1 ELSE leases

CloseStream(s, st) == streams' = [streams EXCEPT ![s] = [NoStream EXCEPT !.st = st]] /\ Release(s)

\* The browser's EventSource loses its connection and will open it again.
Dropped(s) == IF page.source = s THEN [page EXCEPT !.source = 0, !.state = "reconnecting"] ELSE page

\* Mutant: a stream is authorized when it is opened.
StreamAuthorized_AtOpen(s) == TRUE

\* readEventBatch resolves the credentials in the same snapshot as the messages.
StreamAuthorized(s) == held

\* messagesSince the cursor less the lookback, but no id already sent on this connection
\* and none up to Last-Event-ID.
Due(s) ==
  LET x == streams[s] IN
  {m \in Committed : (x.cursor > 0 => m > x.cursor - Lookback) /\ m \notin x.sent /\ m > x.resume}

\* The events of a poll: build.updated if the build changed since the last one, then the
\* messages in order; on their way from here on.
Polled(x, due) ==
  LET state == <<detail.status, detail.spec>> IN
  [x EXCEPT !.told = state, !.sent = x.sent \cup due, !.cursor = Max(due \cup {x.cursor}),
            !.batch = [update |-> IF x.told # state THEN state ELSE <<>>, msgs |-> due, id |-> x.cursor]]

Poll(s) ==
  /\ streams[s].st = "open" /\ streams[s].batch = NoEvents /\ StreamAuthorized(s)
  /\ streams[s].told # <<detail.status, detail.spec>> \/ Due(s) # {}
  /\ streams' = [streams EXCEPT ![s] = Polled(streams[s], Due(s))]
  /\ UNCHANGED <<log, detail, turn, aged, held, cut, leases, page, post, read, nextId, faults>>

\* The stream ends itself because its credentials no longer hold the build.
StreamEnds(s) ==
  /\ streams[s].st = "open" /\ ~held /\ CloseStream(s, "ended") /\ page' = Dropped(s)
  /\ UNCHANGED <<log, detail, turn, aged, held, cut, post, read, nextId, faults>>

\* maxMs passed, a poll failed, or the client reads too slowly.
StreamCut(s) ==
  /\ streams[s].st = "open" /\ Fault /\ CloseStream(s, "ended") /\ page' = Dropped(s)
  /\ UNCHANGED <<log, detail, turn, aged, held, cut, post, read, nextId>>

\* The socket is gone: after the stream ended, or because the browser closed it.
SocketCloses(s) ==
  /\ streams[s].st = "ended" \/ (streams[s].st = "open" /\ page.source # s)
  /\ CloseStream(s, "free") /\ page' = Dropped(s)
  /\ UNCHANGED <<log, detail, turn, aged, held, cut, post, read, nextId, faults>>

\* The browser loses the connection, and the gateway has yet to notice.
SocketBreaks(s) ==
  /\ streams[s].st = "open" /\ page.source = s /\ Fault /\ page' = Dropped(s)
  /\ UNCHANGED <<log, detail, turn, aged, held, cut, streams, leases, post, read, nextId>>

(***************************************************************************)
(* The browser's side: useEventStream, useBuildRefresh, useReplyWatchdog.  *)
(***************************************************************************)

\* "A fresh connection may have missed a spec change: read the build once."
OnOpen(p) == Request(p, p.observed)

\* A connection after Last-Event-ID, or from the start.
Opened(lastId) == [NoStream EXCEPT !.st = "open", !.resume = lastId, !.cursor = lastId]

\* The EventSource connects, with Last-Event-ID if it was connected before.
Connect(s) ==
  /\ page.build /\ page.state \in {"none", "reconnecting"}
  /\ streams[s].st = "free" /\ held /\ leases < PerOwner
  /\ leases' = leases + 1
  /\ streams' = [streams EXCEPT ![s] = Opened(page.lastId)]
  /\ OnOpen([page EXCEPT !.source = s, !.state = "open"])
  /\ UNCHANGED <<log, detail, turn, aged, held, cut, post, nextId, faults>>

\* 404 or 429: an EventSource does not try again.
ConnectRefused ==
  /\ page.build /\ page.state \in {"none", "reconnecting"}
  /\ ~held \/ leases >= PerOwner
  /\ page' = [page EXCEPT !.state = "unavailable"]
  /\ UNCHANGED <<log, detail, turn, aged, held, cut, streams, leases, post, read, nextId, faults>>

BuildUpdated(p, status, spec) ==
  [p EXCEPT !.status = status, !.observed = Max({@, spec})]

MessagesCreated(p, arrived) == SettleOverdue(Merge(p, arrived))

\* The events of a poll reach the page: build.updated, whose id is the cursor before this
\* poll, then the messages.
Deliver(s) ==
  LET e == streams[s].batch  u == e.update
      told == IF u = <<>> THEN page ELSE BuildUpdated(page, u[1], u[2])
      p == [MessagesCreated(told, e.msgs) EXCEPT
             !.lastId = IF e.msgs # {} THEN Max(e.msgs) ELSE Max({page.lastId, e.id})] IN
  /\ page.source = s /\ e # NoEvents
  /\ streams' = [streams EXCEPT ![s] = [streams[s] EXCEPT !.batch = NoEvents]]
  /\ IF u # <<>> /\ u # <<page.status, page.spec>> THEN Request(p, u[2])
     ELSE page' = Clocked(p) /\ UNCHANGED read
  /\ UNCHANGED <<log, detail, turn, aged, held, cut, leases, post, nextId, faults>>

\* A hidden tab closes its EventSource; a visible one opens a new one, which resumes nothing.
Visibility ==
  /\ \/ /\ page.state # "paused" /\ page.build /\ Fault
        /\ page' = [page EXCEPT !.source = 0, !.state = "paused"]
     \/ /\ page.state = "paused"
        /\ page' = [page EXCEPT !.state = "none", !.lastId = 0]
        /\ UNCHANGED faults
  /\ UNCHANGED <<log, detail, turn, aged, held, cut, streams, leases, post, read, nextId>>

\* recoverLostTurn: a read of an old unanswered message starts its turn again.
Recover == turn' = IF turn = 0 /\ NewestMessage > 0 /\ IsUser(NewestMessage) /\ aged THEN NewestMessage ELSE turn

RefreshFailed(p) == [p EXCEPT !.refErr = TRUE, !.overdue = AwaitingReply(p)]
Overdue(p) == [p EXCEPT !.overdue = AwaitingReply(p)]

\* Mutant: the last failure is not shown.
ReadAgain_Silent ==
  IF read.retry < Retries
  THEN read' = [read EXCEPT !.retry = @ + 1, !.got = <<>>] /\ UNCHANGED page
  ELSE read' = NoRead /\ UNCHANGED page

\* A failed or too old answer: read again after a pause, then say so.
ReadAgain ==
  IF read.retry < Retries
  THEN read' = [read EXCEPT !.retry = @ + 1, !.got = <<>>] /\ UNCHANGED page
  ELSE /\ read' = NoRead
       /\ page' = Clocked(RefreshFailed(page))

Refreshed(d, S) ==
  IF d.spec >= read.min
  THEN page' = Clocked(SettleOverdue(WithTranscript(page, d, S))) /\ read' = NoRead
  ELSE ReadAgain

\* GET /v1/builds/:id and GET /v1/builds/:id/messages run side by side; the second answer
\* completes the refresh.
ReadDetail ==
  /\ read.on /\ held /\ Recover
  /\ \/ /\ read.got = <<>>
        /\ read' = [read EXCEPT !.got = <<"detail", detail>>] /\ UNCHANGED page
     \/ /\ read.got # <<>> /\ read.got[1] = "messages" /\ Refreshed(detail, read.got[2])
  /\ UNCHANGED <<log, detail, aged, held, cut, streams, leases, post, nextId, faults>>

ReadMessages ==
  /\ read.on /\ held /\ Recover
  /\ \/ /\ read.got = <<>>
        /\ read' = [read EXCEPT !.got = <<"messages", Committed>>] /\ UNCHANGED page
     \/ /\ read.got # <<>> /\ read.got[1] = "detail" /\ Refreshed(read.got[2], Committed)
  /\ UNCHANGED <<log, detail, aged, held, cut, streams, leases, post, nextId, faults>>

ReadFails ==
  /\ read.on /\ ReadAgain
  /\ IF held THEN Fault ELSE UNCHANGED faults
  /\ UNCHANGED <<log, detail, turn, aged, held, cut, streams, leases, post, nextId>>

ReplyChecked(p) == [p EXCEPT !.overdue = FALSE]

\* A wait of the watchdog is over: check, and after the last one say that the reply is
\* overdue.  The waits outlast a send's timeout, and together TURN_IN_PROGRESS_S.
Watchdog ==
  LET n == page.attempt + 1
      checked == [ReplyChecked(page) EXCEPT !.attempt = n]
      p == IF n = Waits THEN Overdue(checked) ELSE checked IN
  /\ IsTyping(page) /\ post = NoPost /\ page.attempt < Waits
  /\ n = Waits /\ NewestMessage > 0 /\ IsUser(NewestMessage) => aged
  /\ IF page.build THEN Request(p, page.observed) ELSE page' = Clocked(p) /\ UNCHANGED read
  /\ UNCHANGED <<log, detail, turn, aged, held, cut, streams, leases, post, nextId, faults>>

\* The person asks for a check: "Check for a reply" and "Refresh build details".
CheckAgain ==
  /\ page.build /\ (page.overdue \/ page.refErr \/ page.state = "unavailable")
  /\ Request(ReplyChecked(page), page.observed)
  /\ UNCHANGED <<log, detail, turn, aged, held, cut, streams, leases, post, nextId, faults>>

Reply == \/ TurnReply(0, detail.status) \/ \E status \in Statuses : TurnReply(1, status)

Next ==
  \/ \E text \in 1 .. MaxUser : Send(text)
  \/ GatewayPost \/ PostAnswered \/ BuildStarted \/ PostRefused \/ PostLost
  \/ Reply \/ TurnLost \/ Age \/ Revoke
  \/ \E s \in Streams : \/ Connect(s) \/ Poll(s) \/ Deliver(s)
                       \/ StreamEnds(s) \/ StreamCut(s) \/ SocketCloses(s) \/ SocketBreaks(s)
  \/ ConnectRefused \/ Visibility \/ ReadDetail \/ ReadMessages \/ ReadFails \/ Watchdog \/ CheckAgain

EventsSpec == Init /\ [][Next]_vars

\* What goes on without the person: timers fire, sockets close, requests are answered or time
\* out and turns end.
Progress ==
  \/ Age \/ Watchdog \/ ReadDetail \/ ReadMessages \/ ReadFails \/ ConnectRefused
  \/ GatewayPost \/ PostAnswered \/ BuildStarted \/ PostRefused
  \/ \E s \in Streams : Connect(s) \/ Poll(s) \/ Deliver(s) \/ StreamEnds(s) \/ SocketCloses(s)
  \/ Reply

FairSpec == EventsSpec /\ WF_vars(Progress)

(***************************************************************************)
(* Properties.                                                             *)
(***************************************************************************)

\* However events, answers and refetches interleave, the page shows each stored message once
\* and in the database's order, although it sees milliseconds where the order needs
\* microseconds (mergeMessages).
TranscriptInOrder == \A i, j \in 1 .. Len(page.msgs) : i < j => page.msgs[i] < page.msgs[j]

\* "nothing the person wrote is ever sent twice": a text the page gave back and the person
\* sent again is one stored message (clientMessageIdFor, submitUserMessage, createBuild).
SentOnce == \A m, n \in Committed : log[m].text > 0 /\ log[m].text = log[n].text => m = n

\* "later data cannot use its earlier authorization": nothing committed after the browser
\* lost the build reaches its page (readEventBatch).
NoLateDisclosure == ~held => ToSet(page.msgs) \subseteq cut

\* The registry counts the open streams of the owner, and never more than its limit
\* (StreamRegistry): a leak would lock the owner out, a double release would lift the limit.
LeasesExact == leases = Cardinality({s \in Streams : streams[s].st = "open"}) /\ leases <= PerOwner

\* A stream is no more than its owner may have: what it shows ends with the access, and what
\* it takes from the registry is given back once.
StreamsSound == NoLateDisclosure /\ LeasesExact

\* An answer that committed after a later question can be further behind a stream's cursor than
\* it looks back; only the next read of the build shows it.
Overtaken == {m \in Committed : ~IsUser(m) /\ m < NewestMessage}

UpToDate ==
  /\ page.mine = {} /\ ToSet(page.msgs) \subseteq Committed /\ Committed \ Overtaken \subseteq ToSet(page.msgs)
  /\ page.spec = detail.spec /\ page.status = detail.status
  /\ ~IsTyping(page)

\* The page tells the person that it may be behind, or nobody is looking.
Notice == page.state \in {"paused", "unavailable"} \/ page.refErr \/ page.overdue \/ page.unsent # <<>>

\* The page never stays behind in silence: lost turns, replies behind the cursor, broken
\* connections and stale details end in an up-to-date page or in a message that says so.
NeverSilentlyBehind == []<>(UpToDate \/ Notice)
=============================================================================
