-------------------------------- MODULE Fleet --------------------------------
(***************************************************************************)
(* What the portal tells about the devices of a workspace while they       *)
(* upload: the status of a device and of each of its sources, the state of *)
(* its setup, the pages of the fleet and of a camera's pictures, and the   *)
(* device page, which is read in two transactions.                         *)
(*                                                                         *)
(* A device is a number, its place in the order of ids.  A picture is a    *)
(* number too: its place in the order of capture time and id.              *)
(***************************************************************************)
EXTENDS Integers, FiniteSets, FiniteSetsExt

CONSTANTS Devices,      \* ids, numbers
          SourcesOf,    \* device -> its capabilities: [kind, required, enabled, channels]
          ChannelsOf,   \* device -> its provisioned channels
          Grace,        \* kind -> how long an upload keeps a source healthy: 2 intervals and 300 s
                        \* for images, 3 intervals and at least 60 s for packets
          Camera,       \* the device with a camera
          Skew,         \* how far ahead a device's clock may be, 300 s in the code
          Retention,    \* how long a picture is kept
          PageSize,     \* rows of a page
          LastTick,     \* bound: the clock
          MaxUploads    \* bound: uploads

ASSUME FleetAssumption ==
  /\ Devices \subseteq Nat \ {0} /\ IsFiniteSet(Devices) /\ Camera \in Devices
  /\ {Skew, Retention, LastTick, MaxUploads} \subseteq Nat /\ PageSize \in Nat \ {0}
  /\ \A d \in Devices :
       /\ IsFiniteSet(DOMAIN SourcesOf[d])
       /\ \A c \in DOMAIN SourcesOf[d] : Grace[SourcesOf[d][c].kind] \in Nat

VARIABLES
  clock,       \* statement_timestamp()
  registered,  \* telemetry.devices
  revoked,     \* those with a revoked_at
  lastSeen,    \* last_seen_at
  latestOf,    \* channels with a row in telemetry.latest
  seenOf,      \* telemetry.capability_presence of each source
  pictures,    \* stored pictures of the camera
  uploads,     \* uploads accepted so far
  walk,        \* somebody following the pages of a list
  detail       \* the device page being read

fleetWorld == <<clock, registered, revoked, lastSeen, latestOf, seenOf, pictures, uploads>>
fleetVars == <<fleetWorld, walk, detail>>

Never == 0
NotSeen == [capture |-> Never, received |-> Never]
NoWalk == [pc |-> "none", list |-> "fleet", filter |-> "all", after |-> Never, listed |-> {},
           twice |-> FALSE, always |-> {}]
NoDetail == [pc |-> "none", id |-> 0, tx |-> 0, status |-> "none", revoked |-> FALSE,
             seen |-> <<>>, sources |-> <<>>, latest |-> {}]

\* The place of a picture among those captured before, with it and after it.
Rank(t, tie) == 3 * t + tie

\* The camera has just stored its first picture; a device is still to be claimed.
FleetInit ==
  /\ clock = 1 /\ registered = Devices \ {Max(Devices)} /\ revoked = {}
  /\ lastSeen = [d \in Devices |-> Never] /\ latestOf = [d \in Devices |-> {}]
  /\ pictures = {[rank |-> Rank(clock, 1), capture |-> clock]}
  /\ seenOf = [d \in Devices |-> [c \in DOMAIN SourcesOf[d] |->
       IF d = Camera /\ SourcesOf[d][c].kind = "image" THEN [capture |-> clock, received |-> clock] ELSE NotSeen]]
  /\ uploads = 0 /\ walk = NoWalk /\ detail = NoDetail

(***************************************************************************)
(* What is derived from the rows.                                          *)
(***************************************************************************)
Smaller(a, b) == IF a < b THEN a ELSE b
Greatest(a, b) == IF a < b THEN b ELSE a

\* RECEIVED: GREATEST passes over NULLs.
Received(d, seen) == Max({lastSeen[d]} \cup {seen[c].received : c \in DOMAIN seen})

\* A backlog of old captures keeps no source healthy, nor does a capture of the past.
Recent(source, p, at) == p.received # Never /\ Smaller(p.received, p.capture) >= at - Grace[source.kind]

Required(d) == {c \in DOMAIN SourcesOf[d] : SourcesOf[d][c].required}
Enabled(d) == {c \in DOMAIN SourcesOf[d] : SourcesOf[d][c].enabled}
Stale(d, seen, at) == \E c \in Required(d) : c \notin Enabled(d) \/ ~Recent(SourcesOf[d][c], seen[c], at)
HealthySource(d, seen, at) == \E c \in Enabled(d) : Recent(SourcesOf[d][c], seen[c], at)

\* The status column of DEVICE_COLUMNS.
DeviceStatus(d, seen, at) ==
  IF Received(d, seen) = Never THEN "never_seen"
  ELSE IF d \in revoked \/ Stale(d, seen, at) THEN "offline"
  ELSE IF IF DOMAIN SourcesOf[d] # {} THEN Required(d) # {} \/ HealthySource(d, seen, at)
          ELSE Received(d, seen) >= at - Grace.packet
       THEN "online" ELSE "offline"

SourceStatus(d, c, isRevoked, p, at) ==
  IF isRevoked THEN "credential_revoked"
  ELSE IF c \notin Enabled(d) THEN "disabled"
  ELSE IF p.received = Never THEN "waiting"
  ELSE IF Recent(SourcesOf[d][c], p, at) THEN "healthy" ELSE "stale"

RequiredChannels(d) ==
  IF DOMAIN SourcesOf[d] = {} THEN ChannelsOf[d] ELSE UNION {SourcesOf[d][c].channels : c \in Required(d)}

\* The state of GET /v1/devices/:id/setup.
SetupState(d, at) ==
  LET required(status) == \E c \in Required(d) : SourceStatus(d, c, FALSE, seenOf[d][c], at) = status IN
  IF d \in revoked THEN "credential_revoked"
  ELSE IF required("disabled") THEN "degraded"
  ELSE IF Received(d, seenOf[d]) = Never THEN "waiting_for_upload"
  ELSE IF ~(RequiredChannels(d) \subseteq latestOf[d]) THEN "waiting_for_channels"
  ELSE IF required("waiting") THEN "waiting_for_capabilities"
  ELSE IF required("stale") THEN "degraded" ELSE "confirmed"

(***************************************************************************)
(* The lists.                                                              *)
(***************************************************************************)

\* The rows of a list: the fleet with its status filter, the unexpired pictures.
InList(list, filter, x) ==
  IF list = "fleet"
  THEN x \in registered /\ (filter = "all" \/ (IF x \in revoked THEN "revoked"
                                               ELSE DeviceStatus(x, seenOf[x], clock)) = filter)
  ELSE \E p \in pictures : p.rank = x /\ p.capture + Retention > clock

Listable(list) == IF list = "fleet" THEN Devices ELSE {p.rank : p \in pictures}

\* ORDER BY id, or by capture time and id, newest first.
Before(list, x, y) == IF list = "fleet" THEN x < y ELSE x > y

PageOf(list, rows) == {x \in rows : Cardinality({y \in rows : Before(list, y, x)}) < PageSize}
LastOf(list, page) == CHOOSE x \in page : \A y \in page : ~Before(list, x, y)

\* Mutant: the cursor is the extra row that tells there is a next page.
NextCursor_Extra(list, rows) ==
  IF Cardinality(rows) > PageSize THEN LastOf(list, PageOf(list, rows \ PageOf(list, rows))) ELSE Never

\* The cursor is the last row shown, when a row was left over.
NextCursor(list, rows) == IF Cardinality(rows) > PageSize THEN LastOf(list, PageOf(list, rows)) ELSE Never

\* A step during a walk: which rows were in the list at every moment of it.
Followed ==
  \E list \in {walk.list}, filter \in {walk.filter} :
    walk' = [walk EXCEPT !.always = {x \in @ : InList(list, filter, x)'}]

(***************************************************************************)
(* Devices come, upload and are revoked.                                   *)
(***************************************************************************)
Tick ==
  /\ clock < LastTick /\ clock' = clock + 1
  /\ UNCHANGED <<registered, revoked, lastSeen, latestOf, seenOf, pictures, uploads, detail>> /\ Followed

Claimed(d) ==
  /\ d \notin registered /\ registered' = registered \cup {d}
  /\ UNCHANGED <<clock, revoked, lastSeen, latestOf, seenOf, pictures, uploads, detail>> /\ Followed

Revoke(d) ==
  /\ d \in registered \ revoked /\ revoked' = revoked \cup {d}
  /\ UNCHANGED <<clock, registered, lastSeen, latestOf, seenOf, pictures, uploads, detail>> /\ Followed

Upload(d, t) ==
  /\ d \in registered \ revoked /\ uploads < MaxUploads /\ uploads' = uploads + 1
  /\ t <= clock + Skew

Touched(p, t) == [capture |-> Greatest(p.capture, t), received |-> clock]

\* An accepted packet: the channels it may use, the latest readings, last_seen_at and the presence
\* of the sources it has readings of.
Packet(d, channels, t) ==
  LET measures == {c \in Enabled(d) : SourcesOf[d][c].kind = "packet"} IN
  /\ Upload(d, t) /\ channels # {} /\ channels \subseteq ChannelsOf[d]
  /\ DOMAIN SourcesOf[d] # {} => channels \subseteq UNION {SourcesOf[d][c].channels : c \in measures}
  /\ lastSeen' = [lastSeen EXCEPT ![d] = clock]
  /\ latestOf' = [latestOf EXCEPT ![d] = @ \cup channels]
  /\ seenOf' = [seenOf EXCEPT ![d] = [c \in DOMAIN @ |->
       IF c \in measures /\ SourcesOf[d][c].channels \cap channels # {} THEN Touched(@[c], t) ELSE @[c]]]
  /\ UNCHANGED <<clock, registered, revoked, pictures, detail>> /\ Followed

\* A stored picture counts for its camera, not as a packet.
Picture(d, c, t) ==
  /\ Upload(d, t) /\ c \in Enabled(d) /\ SourcesOf[d][c].kind = "image"
  /\ seenOf' = [seenOf EXCEPT ![d][c] = Touched(@, t)]
  /\ \E tie \in {1, 2} :
       /\ \A p \in pictures : p.rank # Rank(t, tie)
       /\ pictures' = pictures \cup {[rank |-> Rank(t, tie), capture |-> t]}
  /\ UNCHANGED <<clock, registered, revoked, lastSeen, latestOf, detail>> /\ Followed

(***************************************************************************)
(* Reads.  They share nothing, so one is followed at a time.               *)
(***************************************************************************)
AtRest == walk = NoWalk /\ detail = NoDetail

WalkStarts(list, filter) ==
  /\ AtRest /\ (list = "pictures" => filter = "all")
  /\ walk' = [NoWalk EXCEPT !.pc = "asking", !.list = list, !.filter = filter,
                            !.always = {x \in Listable(list) : InList(list, filter, x)}]
  /\ UNCHANGED <<fleetWorld, detail>>

\* One page, in one statement.  No next cursor: the walk is over.
WalkPage ==
  LET rows == {x \in Listable(walk.list) : InList(walk.list, walk.filter, x)
                                           /\ (walk.after = Never \/ Before(walk.list, walk.after, x))}
      page == PageOf(walk.list, rows) IN
  /\ walk.pc = "asking"
  /\ walk' = [walk EXCEPT !.pc = IF NextCursor(walk.list, rows) = Never THEN "over" ELSE "asking",
                          !.after = NextCursor(walk.list, rows), !.listed = @ \cup page,
                          !.twice = @ \/ page \cap walk.listed # {}]
  /\ UNCHANGED <<fleetWorld, detail>>

WalkEnds == walk.pc = "over" /\ walk' = NoWalk /\ UNCHANGED <<fleetWorld, detail>>

\* BEGIN fixes CURRENT_TIMESTAMP, the clock of the device's status.
DetailBegins(d) ==
  /\ AtRest /\ d \in registered /\ detail' = [NoDetail EXCEPT !.pc = "begun", !.id = d, !.tx = clock]
  /\ UNCHANGED <<fleetWorld, walk>>

\* The first query fixes the rows this transaction sees.
DetailSnapshot ==
  LET d == detail.id IN
  /\ detail.pc = "begun"
  /\ detail' = [detail EXCEPT !.pc = "device", !.status = DeviceStatus(d, seenOf[d], detail.tx),
                              !.revoked = d \in revoked, !.seen = seenOf[d]]
  /\ UNCHANGED <<fleetWorld, walk>>

\* BEGIN ISOLATION LEVEL REPEATABLE READ.
SeenBy(read) == read.seen

\* The sources, by the clock of this statement.
DetailSources ==
  LET d == detail.id IN
  /\ detail.pc = "device"
  /\ detail' = [detail EXCEPT !.pc = "sources", !.seen = <<>>, !.sources =
       [c \in DOMAIN SourcesOf[d] |-> SourceStatus(d, c, detail.revoked, SeenBy(detail)[c], clock)]]
  /\ UNCHANGED <<fleetWorld, walk>>

\* The page then asks for the latest readings, in a transaction of their own, and is rendered.
DetailLatest ==
  /\ detail.pc = "sources" /\ detail' = [detail EXCEPT !.pc = "shown", !.latest = latestOf[detail.id]]
  /\ UNCHANGED <<fleetWorld, walk>>

DetailEnds == detail.pc = "shown" /\ detail' = NoDetail /\ UNCHANGED <<fleetWorld, walk>>

\* What a reader has got no longer changes: it is judged before anything else happens.
Judged == walk.pc # "over" /\ detail.pc # "shown"

FleetNext ==
  \/ WalkPage \/ WalkEnds \/ DetailSnapshot \/ DetailSources \/ DetailLatest \/ DetailEnds
  \/ Judged /\ Tick
  \/ \E d \in Devices : Judged /\ (Claimed(d) \/ Revoke(d) \/ DetailBegins(d))
  \/ \E d \in Devices, t \in Greatest(1, clock - 1) .. clock + Skew :
       \/ \E channels \in SUBSET ChannelsOf[d] : Judged /\ Packet(d, channels, t)
       \/ \E c \in DOMAIN SourcesOf[d] : Judged /\ Picture(d, c, t)
  \/ \E list \in {"fleet", "pictures"}, filter \in {"all", "online", "offline", "never_seen", "revoked"} :
       WalkStarts(list, filter)

(***************************************************************************)
(* Properties.                                                             *)
(***************************************************************************)

\* Whoever follows the pages to the end has seen everything that was in the list all the time,
\* and nothing twice, although devices change their status, come and are revoked, and pictures
\* arrive late and expire between one page and the next (next_after of the fleet, next_cursor of
\* the pictures).
WalkComplete == walk.pc = "over" => walk.always \subseteq walk.listed /\ ~walk.twice

\* The fleet, the setup and the device page never contradict each other about a device: setup
\* waits for an upload exactly while the device was never seen, a device with required sources is
\* online exactly while its setup is confirmed or waits for single channels; and a device page,
\* whose device, sources and readings are read by different clocks or transactions, never shows
\* an offline device all of whose required sources are healthy, an online one with a required
\* source that never uploaded, or a source that uploaded without any reading of it.
StatusesAgree ==
  /\ \A d \in registered :
       LET status == DeviceStatus(d, seenOf[d], clock)
           setup == SetupState(d, clock) IN
       /\ setup = "waiting_for_upload" => status = "never_seen"
       /\ status = "never_seen" => setup \in {"waiting_for_upload", "credential_revoked", "degraded"}
       /\ Required(d) # {} /\ status = "online" => setup \in {"confirmed", "waiting_for_channels"}
       /\ Required(d) # {} /\ setup = "confirmed" => status = "online"
  /\ detail.pc \in {"sources", "shown"} =>
       LET required == {detail.sources[c] : c \in Required(detail.id)} IN
       /\ detail.status = "online" => required \subseteq {"healthy", "stale"}
       /\ detail.status = "offline" /\ ~detail.revoked /\ required # {} => required # {"healthy"}
       /\ detail.status = "never_seen" => \A c \in DOMAIN detail.sources : detail.sources[c] # "healthy"
  /\ detail.pc = "shown" =>
       \A c \in DOMAIN detail.sources :
         SourcesOf[detail.id][c].kind = "packet" /\ detail.sources[c] \in {"healthy", "stale"} =>
           detail.latest \cap SourcesOf[detail.id][c].channels # {}

\* What the pages of a workspace say about its devices is complete and consistent.
FleetSound == WalkComplete /\ StatusesAgree
=============================================================================
