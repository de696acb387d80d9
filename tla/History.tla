------------------------------ MODULE History ------------------------------
(***************************************************************************)
(* What the cloud keeps of one telemetry channel: raw readings in daily    *)
(* partitions, minute and hour rollups recomputed from them by a worker,   *)
(* the retention that drops raw data and minutes, and the reads of the     *)
(* gateway and of the ask service, each a transaction beside the others.   *)
(*                                                                         *)
(* A time is a minute.  A reading is a model value; an aggregate is the    *)
(* set of the readings it was computed from, which decides its count, sum, *)
(* extremes and last value.                                                *)
(***************************************************************************)
EXTENDS Integers, FiniteSets

CONSTANTS Readings,        \* readings a device may upload
          Stamps,          \* bound: the times of readings
          LastDay,         \* bound: the clock
          MaxFaults,       \* bound: transactions rolled back
          MinutesPerHour, HoursPerDay,
          RawDays,         \* days raw readings are kept, 90 in the code
          MinuteDays,      \* days minute rollups are kept, 7 in the code
          Ahead,           \* days partitions are made ahead of time, 7 in the code
          Limit            \* the most points of an answer

ASSUME HistoryAssumption ==
  /\ {LastDay, MinutesPerHour, HoursPerDay, RawDays, MinuteDays} \subseteq Nat \ {0}
  /\ {MaxFaults, Ahead, Limit} \subseteq Nat /\ Stamps \subseteq Nat /\ MinuteDays < RawDays

VARIABLES
  today,      \* the day of statement_timestamp()
  rawBefore,  \* telemetry.retention_state
  parts,      \* days with a partition of their own; other days are in readings_default
  stamp,      \* readings accepted so far -> ts
  raw,        \* those still in telemetry.readings
  dirty,      \* telemetry.dirty_hours
  minutes,    \* rollups of resolution 1m: minute -> readings
  hours,      \* rollups of resolution 1h: hour -> readings
  ingest,     \* the upload's transaction
  worker,     \* the rollup transaction
  maintain,   \* the day of the maintenance that holds ACCESS EXCLUSIVE on telemetry.readings
  reader,     \* a history read
  faults

store == <<rawBefore, parts, stamp, raw, dirty, minutes, hours>>
vars == <<today, rawBefore, parts, stamp, raw, dirty, minutes, hours, ingest, worker, maintain, reader, faults>>

MinutesPerDay == MinutesPerHour * HoursPerDay
Day(t) == t \div MinutesPerDay
Hour(t) == t \div MinutesPerHour
DayOfHour(h) == h \div HoursPerDay
DayStart(d) == d * MinutesPerDay
Larger(a, b) == IF a < b THEN b ELSE a

Accepted == DOMAIN stamp
Within(S, from) == {r \in S : stamp[r] >= from}
OfHour(S, h) == {r \in S : Hour(stamp[r]) = h}

NoIngest == [st |-> "none"]
NoWork == [st |-> "idle", hour |-> 0, day |-> 0, rows |-> {}]
NoMaintenance == -1
NoReader == [st |-> "idle", res |-> "raw", from |-> 0, pending |-> FALSE, rows |-> {}, want |-> {}]

Init ==
  /\ today = 0 /\ rawBefore = 0 /\ parts = {} /\ stamp = <<>> /\ raw = {} /\ dirty = {}
  /\ minutes = <<>> /\ hours = <<>> /\ ingest = NoIngest /\ worker = NoWork /\ maintain = NoMaintenance
  /\ reader = NoReader /\ faults = 0

Fault == faults < MaxFaults /\ faults' = faults + 1

Midnight ==
  /\ today < LastDay /\ today' = today + 1
  /\ UNCHANGED <<store, ingest, worker, maintain, reader, faults>>

(***************************************************************************)
(* Ingest: the insert into telemetry.readings and its trigger              *)
(* mark_dirty_hours.                                                       *)
(***************************************************************************)

\* Mutant: ON CONFLICT DO NOTHING, which does not wait for a marker the worker has locked.
MarkerFree_Ignored(h) == TRUE

\* The upsert of a marker waits while the rollup transaction holds it.
MarkerFree(h) == worker.st = "idle" \/ worker.hour # h

\* The insert; the trigger refuses readings older than the retained raw data.
Insert(r, t) ==
  /\ ingest = NoIngest /\ maintain = NoMaintenance /\ r \notin Accepted /\ Day(t) <= today /\ t >= rawBefore
  /\ MarkerFree(Hour(t))
  /\ ingest' = [st |-> "open", id |-> r, ts |-> t]
  /\ UNCHANGED <<today, store, worker, maintain, reader, faults>>

IngestCommit ==
  /\ ingest.st = "open" /\ ingest' = NoIngest
  /\ stamp' = [r \in Accepted \cup {ingest.id} |-> IF r = ingest.id THEN ingest.ts ELSE stamp[r]]
  /\ raw' = raw \cup {ingest.id} /\ dirty' = dirty \cup {Hour(ingest.ts)}
  /\ UNCHANGED <<today, rawBefore, parts, minutes, hours, worker, maintain, reader, faults>>

(***************************************************************************)
(* processTelemetryRollups: one dirty hour per transaction.                *)
(***************************************************************************)

\* FOR UPDATE SKIP LOCKED: not the marker an open upload is touching.
Claim(h) ==
  /\ worker.st = "idle" /\ h \in dirty /\ (ingest.st = "open" => Hour(ingest.ts) # h)
  /\ worker' = [st |-> "claimed", hour |-> h, day |-> today, rows |-> {}]
  /\ UNCHANGED <<today, store, ingest, maintain, reader, faults>>

\* Both statements over the readings of the hour; nothing can commit into it in between.
Aggregate ==
  /\ worker.st = "claimed" /\ maintain = NoMaintenance
  /\ worker' = [worker EXCEPT !.st = "aggregated", !.rows = OfHour(raw, worker.hour)]
  /\ UNCHANGED <<today, store, ingest, maintain, reader, faults>>

\* The rollups of an hour's buckets are replaced by the kept ones of its rows.
Group(rows, old, replaced, bucket, kept) ==
  LET keys == (DOMAIN old \ replaced) \cup {b \in {bucket[stamp[r]] : r \in rows} : b \in kept} IN
  [b \in keys |-> IF b \in replaced THEN {r \in rows : bucket[stamp[r]] = b} ELSE old[b]]

\* Full replacement of the hour's rollups, then the marker goes, in the same transaction.
RollupCommit ==
  LET h == worker.hour IN
  /\ worker.st = "aggregated"
  /\ minutes' = Group(worker.rows, minutes, {b \in Stamps : Hour(b) = h}, [t \in Stamps |-> t],
                      {b \in Stamps : b >= DayStart(worker.day - MinuteDays)})
  /\ hours' = Group(worker.rows, hours, {h}, [t \in Stamps |-> Hour(t)], {h})
  /\ dirty' = dirty \ {h} /\ worker' = NoWork
  /\ UNCHANGED <<today, rawBefore, parts, stamp, raw, ingest, maintain, reader, faults>>

(***************************************************************************)
(* maintainTelemetryStorage.                                               *)
(***************************************************************************)

\* LOCK TABLE ONLY telemetry.readings IN ACCESS SHARE MODE, until the read's transaction ends.
ReaderHolds == reader.st # "idle"

\* ACCESS EXCLUSIVE on telemetry.readings waits for every transaction that used the table.
MaintainLock ==
  /\ maintain = NoMaintenance /\ ingest = NoIngest /\ worker.st # "aggregated" /\ ~ReaderHolds
  /\ maintain' = today
  /\ UNCHANGED <<today, store, ingest, worker, reader, faults>>

\* An hour of the day still waits for its rollup: the partition is kept for now.
Pending(d) == \E h \in dirty : DayOfHour(h) = d

\* ensure_reading_partition for the days ahead and the recent days found in readings_default.
Made(now) == now .. now + Ahead \cup {Day(stamp[r]) : r \in Within(raw, DayStart(now - RawDays))}

InDefault(days) == {r \in raw : Day(stamp[r]) \notin days}

\* Mutant: only partitions expire.
ExpiredDefault_Kept(days, boundary) == {}

\* Rows that never had a partition go one by one, once their hour is rolled up.
ExpiredDefault(days, boundary) ==
  {r \in InDefault(days) : stamp[r] < boundary /\ Hour(stamp[r]) \notin dirty}

\* New partitions take over the rows of their day; the boundary only moves forward; expired
\* partitions, default rows and minutes go.
MaintainCommit ==
  LET now == maintain
      boundary == Larger(rawBefore, DayStart(now - RawDays))
      days == parts \cup Made(now)
      old == {d \in days : DayStart(d + 1) <= boundary /\ ~Pending(d)} IN
  /\ maintain # NoMaintenance /\ maintain' = NoMaintenance
  /\ rawBefore' = boundary
  /\ parts' = days \ old
  /\ raw' = {r \in raw : Day(stamp[r]) \notin old} \ ExpiredDefault(days, boundary)
  /\ minutes' = [b \in {x \in DOMAIN minutes : x >= DayStart(now - MinuteDays)} |-> minutes[b]]
  /\ UNCHANGED <<today, stamp, dirty, hours, ingest, worker, reader, faults>>

\* A transaction rolls back: a crash, a lost connection, a lock timeout.
RollBack ==
  /\ Fault
  /\ \/ ingest.st = "open" /\ ingest' = NoIngest /\ UNCHANGED <<worker, maintain>>
     \/ worker.st # "idle" /\ worker' = NoWork /\ UNCHANGED <<ingest, maintain>>
     \/ maintain # NoMaintenance /\ maintain' = NoMaintenance /\ UNCHANGED <<ingest, worker>>
  /\ UNCHANGED <<today, store, reader>>

\* A read is given up: its deadline passed or its connection broke.
ReadAborted ==
  /\ Fault /\ reader.st # "idle" /\ reader' = NoReader
  /\ UNCHANGED <<today, store, ingest, worker, maintain>>

(***************************************************************************)
(* History reads: the series route, and the facts of the ask service.      *)
(***************************************************************************)
Resolutions == {"raw", "1m", "1h", "window", "series"}

\* Lock first, so that session, boundary and data share a snapshot of a protected layout.
ReadLock ==
  /\ reader.st = "idle" /\ maintain = NoMaintenance
  /\ reader' = [NoReader EXCEPT !.st = "locked"]
  /\ UNCHANGED <<today, store, ingest, worker, maintain, faults>>

\* 410 HISTORY_EXPIRED.  The chat's window and series have no such check; its context tells
\* raw_before.
Expired(res, from) ==
  \/ res = "raw" /\ from < rawBefore
  \/ res = "1m" /\ from < DayStart(today - MinuteDays)

\* The raw readings of a window.
WindowRows(from) == Within(raw, from)

\* The buckets of a series, each `unit' minutes long.
SeriesRows(rollups, unit, from) == UNION {rollups[b] : b \in {x \in DOMAIN rollups : x * unit >= from}}

Points(res, from) ==
  CASE res \in {"raw", "window"} -> WindowRows(from)
    [] res = "1m" -> SeriesRows(minutes, 1, from)
    [] OTHER -> SeriesRows(hours, MinutesPerHour, from)

\* pending_rollup: a dirty hour overlaps the window.
PendingRollup(res, from) == res \in {"1m", "1h"} /\ \E h \in dirty : (h + 1) * MinutesPerHour > from

\* The first query fixes the repeatable-read snapshot.
Snapshot(res, from) ==
  /\ reader.st = "locked" /\ (res \in {"1h", "series"} => from % MinutesPerHour = 0)
  /\ reader' = IF Expired(res, from) THEN NoReader
               ELSE [st |-> "snapshot", res |-> res, from |-> from, pending |-> PendingRollup(res, from),
                     rows |-> Points(res, from), want |-> Within(Accepted, from)]
  /\ UNCHANGED <<today, store, ingest, worker, maintain, faults>>

\* The rows: what the snapshot saw, less what a dropped partition took away since; too many are refused.
ReadRows ==
  LET rows == IF reader.res \in {"raw", "window"} THEN reader.rows \cap raw ELSE reader.rows IN
  /\ reader.st = "snapshot"
  /\ reader' = IF Cardinality(rows) > Limit THEN NoReader ELSE [reader EXCEPT !.st = "answered", !.rows = rows]
  /\ UNCHANGED <<today, store, ingest, worker, maintain, faults>>

ReadEnds ==
  /\ reader.st = "answered" /\ reader' = NoReader
  /\ UNCHANGED <<today, store, ingest, worker, maintain, faults>>

Next ==
  \/ Midnight \/ IngestCommit \/ Aggregate \/ RollupCommit \/ MaintainLock \/ MaintainCommit \/ RollBack
  \/ \E r \in Readings, t \in Stamps : Insert(r, t)
  \/ \E h \in dirty : Claim(h)
  \/ ReadLock \/ ReadAborted \/ ReadRows \/ ReadEnds
  \/ \E res \in Resolutions, d \in 0 .. today : Snapshot(res, DayStart(d))

(***************************************************************************)
(* Properties.                                                             *)
(***************************************************************************)

\* An hour without a dirty marker has the rollup of every reading ever accepted for it, also
\* after its raw readings are gone: "uncommitted data cannot be lost" and "expired raw data
\* cannot later overwrite a full retained hourly aggregate" (telemetry-storage.ts).
RollupExact ==
  \A h \in {Hour(stamp[r]) : r \in Accepted} :
    h \notin dirty => h \in DOMAIN hours /\ hours[h] = OfHour(Accepted, h)

\* A dirty hour can still be recomputed: none of its readings was dropped before its rollup
\* (the "deferred" partitions of maintainTelemetryStorage).
NothingDroppedUnrolled == \A r \in Accepted : Hour(stamp[r]) \in dirty => r \in raw

\* An answer that does not say pending_rollup or HISTORY_EXPIRED holds every reading of its
\* window, whatever was rolled up, dropped or uploaded while it was read; so does a window
\* of the chat after the raw_before its context was told.  A series of the chat, which says
\* neither, holds no reading that was not there.
HistoryComplete ==
  reader.st = "answered" /\ ~reader.pending =>
    /\ reader.rows \subseteq reader.want
    /\ \/ reader.res = "series"
       \/ reader.res = "window" /\ reader.from < rawBefore
       \/ reader.rows = reader.want

\* Nothing accepted is lost on its way into rollups and out of retention, and history reads say
\* when they cannot answer in full.
KeptSound == RollupExact /\ NothingDroppedUnrolled /\ HistoryComplete

\* The rollups catch up, and raw readings and minutes do not stay beyond their retention.
RetentionCatchesUp ==
  <>[](/\ dirty = {}
       /\ \A r \in raw : Day(stamp[r]) >= today - RawDays
       /\ \A b \in DOMAIN minutes : Day(b) >= today - MinuteDays)
=============================================================================
