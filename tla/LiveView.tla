------------------------------ MODULE LiveView ------------------------------
(***************************************************************************)
(* The live dashboard and the live fleet tile of one device                *)
(* (live-dashboard.ts, live-fleet.ts, useLiveStream.ts): a snapshot        *)
(* rendered by the server, the events of the tenant's stream applied over  *)
(* it, and a new snapshot merged in after every connection.  Events are    *)
(* lost while the stream is down; a sample may be stored after newer ones; *)
(* an event may arrive while a snapshot that does not hold it is on its    *)
(* way.                                                                    *)
(*                                                                         *)
(* The service that publishes readings is not in the repository and is     *)
(* modelled from what the views expect of it: everything it observes of    *)
(* the device has a time of its own, which here stands for the value too;  *)
(* time 0 is never.                                                        *)
(***************************************************************************)
EXTENDS Naturals, FiniteSets, FiniteSetsExt

CONSTANTS Channels,
          TileChannel,   \* the channel whose value the fleet tile shows
          MaxTime,       \* bound: times
          MaxOpens,      \* bound: connections of the stream
          Window,        \* the seconds of a chart, WINDOW_SECONDS
          RAW_CAP

ASSUME LiveViewAssumption ==
  TileChannel \in Channels /\ {MaxTime, MaxOpens, Window} \subseteq Nat /\ RAW_CAP \in Nat \ {0}

VARIABLES
  samples,    \* the times of the readings stored, by channel
  presence,   \* the device's status and when it was observed
  stream,     \* the connection: "closed" or "open"
  events,     \* published and not yet delivered
  render,     \* the refresh under way, and whether another was asked for
  opens,
  dashboard,  \* what the dashboard shows
  tile        \* what the fleet shows

liveVars == <<samples, presence, stream, events, render, opens, dashboard, tile>>

Later(a, b) == IF a >= b THEN a ELSE b
NewestOf(times) == IF times = {} THEN 0 ELSE Max(times)

\* What falls out of the window, and then over the cap, is dropped.
Bounded(points) ==
  LET inside == {t \in points : t + Window >= NewestOf(points)}
  IN  {t \in inside : Cardinality({u \in inside : u > t}) < RAW_CAP}

\* The service's answers to GET device and GET devices.
Dashboard(stored, p) ==
  [latest |-> [c \in Channels |-> NewestOf(stored[c])], series |-> [c \in Channels |-> Bounded(stored[c])],
   status |-> p.status, statusAt |-> p.at, lastReadingAt |-> NewestOf(UNION {stored[c] : c \in Channels})]
Tile(stored, p) ==
  [valueAt |-> NewestOf(stored[TileChannel]), status |-> p.status, statusAt |-> p.at,
   lastReadingAt |-> NewestOf(UNION {stored[c] : c \in Channels})]

NoRender == [pc |-> "none", dashboard |-> <<>>, tile |-> <<>>, again |-> FALSE]

LiveInit ==
  /\ samples = [c \in Channels |-> {}] /\ presence = [status |-> "never_seen", at |-> 0]
  /\ stream = "closed" /\ events = {} /\ render = NoRender /\ opens = 0
  /\ dashboard = Dashboard(samples, presence) /\ tile = Tile(samples, presence)

(***************************************************************************)
(* live-dashboard.ts.                                                      *)
(***************************************************************************)

\* Points are added once, and the series bounded again.  The code appends several points one
\* by one; of the points of one channel that comes to the same series.
AppendPoints(points, more) ==
  IF more \subseteq points THEN points ELSE Bounded(points \cup more)

ApplyReadingToDashboard(d, c, t) ==
  LET drawn == [d EXCEPT !.series[c] = AppendPoints(d.series[c], {t})]
  IN  IF t <= d.latest[c] THEN drawn
      ELSE [drawn EXCEPT !.latest[c] = t, !.status = IF t > d.statusAt THEN "online" ELSE @,
                         !.statusAt = Later(t, @), !.lastReadingAt = Later(@, t)]

ApplyStatusToDashboard(d, e) ==
  IF e.at <= d.statusAt THEN d
  ELSE [d EXCEPT !.status = e.status, !.statusAt = e.at, !.lastReadingAt = Later(@, e.lastReadingAt)]

\* Mutant: the snapshot replaces what the stream brought.
MergeDashboardSnapshot_Replace(snapshot, current) == snapshot

\* The readings newer than the snapshot are applied to it, the newest of them deciding its
\* status, the raw series united, and the newer of the two statuses kept.
MergeDashboardSnapshot(snapshot, current) ==
  LET newer == {c \in Channels : current.latest[c] > snapshot.latest[c]}
      newest == NewestOf({current.latest[c] : c \in newer})
      statusAt == Later(snapshot.statusAt, newest)
      Drawn(c) == IF c \in newer THEN AppendPoints(snapshot.series[c], {current.latest[c]}) ELSE snapshot.series[c]
  IN  [latest |-> [c \in Channels |-> Later(snapshot.latest[c], current.latest[c])],
       series |-> [c \in Channels |-> AppendPoints(Drawn(c), current.series[c])],
       status |-> IF current.statusAt > statusAt THEN current.status
                  ELSE IF newest > snapshot.statusAt THEN "online" ELSE snapshot.status,
       statusAt |-> Later(statusAt, current.statusAt),
       lastReadingAt |-> Later(Later(snapshot.lastReadingAt, newest), current.lastReadingAt)]

(***************************************************************************)
(* live-fleet.ts.                                                          *)
(***************************************************************************)

ApplyReadingToFleet(x, c, t) ==
  LET newerDevice == t > x.lastReadingAt
      newerValue == c = TileChannel /\ t > x.valueAt
  IN  [x EXCEPT !.status = IF newerDevice /\ t > x.statusAt THEN "online" ELSE @,
                !.statusAt = IF newerDevice THEN Later(@, t) ELSE @,
                !.lastReadingAt = Later(@, t),
                !.valueAt = IF newerValue THEN t ELSE @]

ApplyStatusToFleet(x, e) ==
  IF e.at <= x.statusAt THEN x
  ELSE [x EXCEPT !.status = e.status, !.statusAt = e.at, !.lastReadingAt = Later(@, e.lastReadingAt)]

MergeFleetSnapshot(snapshot, current) ==
  [lastReadingAt |-> Later(snapshot.lastReadingAt, current.lastReadingAt),
   status |-> IF current.statusAt > snapshot.statusAt THEN current.status ELSE snapshot.status,
   statusAt |-> Later(snapshot.statusAt, current.statusAt),
   valueAt |-> Later(snapshot.valueAt, current.valueAt)]

(***************************************************************************)
(* The service.                                                            *)
(***************************************************************************)

Taken == UNION {samples[c] : c \in Channels}
Published(e) == events' = IF stream = "open" THEN events \cup {e} ELSE events

\* A sample is stored, newer or older than those before it; a newer one shows the device online.
ReadingStored(c, t) ==
  /\ t \notin Taken /\ t # presence.at
  /\ samples' = [samples EXCEPT ![c] = @ \cup {t}]
  /\ presence' = IF t > presence.at THEN [status |-> "online", at |-> t] ELSE presence
  /\ Published([kind |-> "reading", channel |-> c, at |-> t, status |-> "online", lastReadingAt |-> t])
  /\ UNCHANGED <<stream, render, opens, dashboard, tile>>

\* The device is found silent, or back, at a time after everything observed so far.
StatusObserved(status, t) ==
  /\ \A u \in Taken \cup {presence.at} : t > u
  /\ presence.status \notin {"never_seen", status} /\ presence' = [status |-> status, at |-> t]
  /\ Published([kind |-> "status", channel |-> TileChannel, at |-> t, status |-> status,
                lastReadingAt |-> NewestOf(Taken)])
  /\ UNCHANGED <<samples, stream, render, opens, dashboard, tile>>

(***************************************************************************)
(* useLiveStream, LiveDashboard and LiveFleet.                             *)
(***************************************************************************)

AskedAgain == IF render.pc = "none" THEN [render EXCEPT !.pc = "asked"] ELSE [render EXCEPT !.again = TRUE]

\* Every connection, the first too, refreshes the page.
StreamOpens ==
  /\ stream = "closed" /\ opens < MaxOpens
  /\ stream' = "open" /\ opens' = opens + 1 /\ render' = AskedAgain
  /\ UNCHANGED <<samples, presence, events, dashboard, tile>>

StreamBreaks ==
  /\ stream = "open" /\ stream' = "closed" /\ events' = {}
  /\ UNCHANGED <<samples, presence, render, opens, dashboard, tile>>

EventArrives(e) ==
  /\ e \in events /\ events' = events \ {e}
  /\ IF e.kind = "reading"
     THEN /\ dashboard' = ApplyReadingToDashboard(dashboard, e.channel, e.at)
          /\ tile' = ApplyReadingToFleet(tile, e.channel, e.at)
     ELSE dashboard' = ApplyStatusToDashboard(dashboard, e) /\ tile' = ApplyStatusToFleet(tile, e)
  /\ UNCHANGED <<samples, presence, stream, render, opens>>

SnapshotRead ==
  /\ render.pc = "asked"
  /\ render' = [render EXCEPT !.pc = "read", !.dashboard = Dashboard(samples, presence),
                              !.tile = Tile(samples, presence)]
  /\ UNCHANGED <<samples, presence, stream, events, opens, dashboard, tile>>

SnapshotShown ==
  /\ render.pc = "read"
  /\ render' = [NoRender EXCEPT !.pc = IF render.again THEN "asked" ELSE "none"]
  /\ dashboard' = MergeDashboardSnapshot(render.dashboard, dashboard)
  /\ tile' = MergeFleetSnapshot(render.tile, tile)
  /\ UNCHANGED <<samples, presence, stream, events, opens>>

LiveNext ==
  \/ \E t \in 1..MaxTime :
       (\E c \in Channels : ReadingStored(c, t)) \/ (\E s \in {"online", "offline"} : StatusObserved(s, t))
  \/ StreamOpens \/ StreamBreaks \/ (\E e \in events : EventArrives(e))
  \/ SnapshotRead \/ SnapshotShown

\* Once a connection is up and the refresh it asked for has been shown, with no event on its
\* way, both views show what the service has: the newest value of every channel, the raw
\* series within its window and cap, the status and the time of the last reading.  Late
\* samples, reordered events, broken connections and snapshots older than the stream change
\* nothing of that (mergeDashboardSnapshot, mergeFleetSnapshot, useLiveStream.ts 18-36).
ViewsAgree ==
  stream = "open" /\ events = {} /\ render.pc = "none" =>
    dashboard = Dashboard(samples, presence) /\ tile = Tile(samples, presence)
=============================================================================
