--------------------------- MODULE DeviceTelemetry ---------------------------
(***************************************************************************)
(* Readings of one device, from its flash to the tables: the provisioning  *)
(* of its credential (gateway device-provisioning-store.ts), the installer *)
(* that flashes it (firmware/tools/install.py), the upload loop of the     *)
(* sensor board (hsx_sdk.c) and of the camera board (telemetry_task of     *)
(* camera_runtime.c), and cloudlink's POST /ingest/v1 (routes.ts).         *)
(*                                                                         *)
(* Each cloud transaction locks the device row and is one action.  A       *)
(* request the device gave up on may still be handled later.  Power may    *)
(* fail between any two steps of the device; only NVS survives.            *)
(***************************************************************************)
EXTENDS Integers, FiniteSets

CONSTANTS Boards,      \* the firmware of the device: "sensor" (hsx_sdk.c), "camera" (camera_runtime.c)
          Signers,     \* user and session family a handoff is sealed for
          RequestIds,  \* request_id values of replacements
          Stamps,      \* readings of the device's clock
          None,
          MaxVersions, \* bound: credentials issued
          MaxSamples   \* bound: packets encoded

ASSUME TelemetryAssumption ==
  /\ Boards \subseteq {"sensor", "camera"} /\ Stamps \subseteq Nat
  /\ None \notin Signers \cup RequestIds
  /\ MaxVersions \in Nat \ {0} /\ MaxSamples \in Nat

VARIABLES
  board,    \* which firmware the device runs
  version,  \* credential_version and the token_hash that goes with it; 0: not claimed
  revoked,  \* devices.revoked_at
  handoff,  \* the sealed configuration: is it there, unexpired, for whom, from which sequence
  reissued, \* reissue_request_id and reissue_from_version
  packets,  \* telemetry.packets with their readings
  lastSeq,  \* devices.last_seq, -1 for NULL
  status,   \* sequence of the packet devices.status came from, -1 for NULL
  latest,   \* telemetry.latest
  usage,    \* telemetry.usage.readings_in
  files,    \* configuration files downloaded
  spent,    \* files with a .used marker beside them
  config,   \* the configuration in NVS
  nvs,      \* the state value in NVS
  run,      \* the running firmware
  stray,    \* requests the device no longer waits for
  samples,  \* packets encoded so far
  done      \* packets the device dropped because they were acknowledged

identity == <<version, revoked, handoff, reissued>>
tables == <<packets, lastSeq, status, latest, usage>>
bench == <<files, spent>>
device == <<config, nvs, run, samples, done>>
vars == <<board, identity, tables, bench, device, stray>>

NoPacket == [seq |-> -1, sample |-> 0, ts |-> 0]
NoHandoff == [sealed |-> FALSE, fresh |-> FALSE, signer |-> None, start |-> 0]
NoConfig == [version |-> 0, start |-> 0]
NoState == [saved |-> FALSE, packet |-> NoPacket, next |-> 0]
Off == [pc |-> "off", next |-> 0, packet |-> NoPacket, reply |-> "none"]

Init ==
  /\ version = 0 /\ revoked = FALSE /\ handoff = NoHandoff /\ reissued = [id |-> None, from |-> 0]
  /\ packets = {} /\ lastSeq = -1 /\ status = -1 /\ latest = NoPacket /\ usage = 0
  /\ files = {} /\ spent = {}
  /\ config = NoConfig /\ nvs = NoState /\ run = Off /\ samples = 0 /\ done = {}
  /\ stray = {} /\ board \in Boards

(***************************************************************************)
(* The gateway: claim, download, replace, revoke.                          *)
(***************************************************************************)

Sealed(s, start) == [sealed |-> TRUE, fresh |-> TRUE, signer |-> s, start |-> start]

\* One identity per accepted plan; a repeated claim returns it.
Claim(s) ==
  /\ version = 0
  /\ version' = 1 /\ handoff' = Sealed(s, 0)
  /\ UNCHANGED <<board, revoked, reissued, tables, bench, device, stray>>

\* Mutant: the new configuration starts at the highest accepted sequence.
NextSequence_Same == IF lastSeq = -1 THEN 0 ELSE lastSeq

\* seq_start of a replacement: after the highest accepted sequence.
NextSequence == IF lastSeq = -1 THEN 0 ELSE lastSeq + 1

\* A repeated request_id changes nothing, with whatever version it comes.
Reissue(s, id, from) ==
  /\ version # 0 /\ ~revoked /\ version < MaxVersions
  /\ version = from /\ reissued.id # id
  /\ version' = version + 1 /\ handoff' = Sealed(s, NextSequence)
  /\ reissued' = [id |-> id, from |-> from]
  /\ UNCHANGED <<board, revoked, tables, bench, device, stray>>

\* Mutant: the sealed credential stays after the download.
Consumed_Kept(h) == h

\* handoff_consumed_at is set and the sealed credential erased.
Consumed(h) == [h EXCEPT !.sealed = FALSE]

\* The configuration is handed out once, to the session it was sealed for; the reply
\* may be lost on its way.
Download(s, expected) ==
  /\ version # 0 /\ version = expected /\ ~revoked
  /\ handoff.signer = s /\ handoff.sealed /\ handoff.fresh
  /\ handoff' = Consumed(handoff)
  /\ \/ files' = files \cup {[version |-> version, start |-> handoff.start,
                              copy |-> Cardinality(files)]}
     \/ UNCHANGED files
  /\ UNCHANGED <<board, version, revoked, reissued, tables, spent, device, stray>>

HandoffExpires ==
  /\ handoff.fresh
  /\ handoff' = [handoff EXCEPT !.fresh = FALSE]
  /\ UNCHANGED <<board, version, revoked, reissued, tables, bench, device, stray>>

Revoke(expected) ==
  /\ version # 0 /\ version = expected /\ ~revoked
  /\ revoked' = TRUE /\ handoff' = [handoff EXCEPT !.sealed = FALSE]
  /\ UNCHANGED <<board, version, reissued, tables, bench, device, stray>>

\* install.py: an unused file is marked and then flashed, which replaces all of NVS.  A
\* failed flash keeps the marker, and leaves the device as it was or without a usable
\* configuration.
Install(f) ==
  /\ run.pc = "off" /\ f \in files \ spent
  /\ spent' = spent \cup {f}
  /\ \/ config' = [version |-> f.version, start |-> f.start] /\ nvs' = NoState
     \/ config' = NoConfig /\ nvs' = NoState
     \/ UNCHANGED <<config, nvs>>
  /\ UNCHANGED <<board, identity, tables, files, run, samples, done, stray>>

(***************************************************************************)
(* Cloudlink.                                                              *)
(***************************************************************************)

\* Mutant: an earlier packet under the sequence is not looked for.
Prior_Unchecked(p) == {}

Prior(p) == {q \in packets : q.seq = p.seq}

\* Mutant: the stored acknowledgment answers whatever comes with its sequence.
Replayed_BySeq(p) == Prior(p) # {}

Replayed(p) == p \in Prior(p)

\* Mutant: what arrives last is the latest.
Newer_Arrival(p, q) == TRUE

\* (ts, seq) decides, whatever the order of arrival.
Newer(p, q) == p.ts > q.ts \/ (p.ts = q.ts /\ p.seq > q.seq)

\* The transaction that accepts a packet.
Store(p) ==
  /\ packets' = packets \cup {p}
  /\ latest' = IF Newer(p, latest) THEN p ELSE latest
  /\ status' = IF p.seq > lastSeq THEN p.seq ELSE status
  /\ lastSeq' = IF p.seq > lastSeq THEN p.seq ELSE lastSeq
  /\ usage' = usage + 1

Authorized(m) == version # 0 /\ ~revoked /\ m.version = version

\* What the handler does with a request and what it answers.  503 stands for a failed
\* transaction, whose COMMIT may have been applied, and for a full instance; 403 and 422
\* for a disabled capability and for a value or time out of range.
Ingest(m, reply) ==
  \/ reply = "401" /\ ~Authorized(m) /\ UNCHANGED tables
  \/ reply = "403" /\ Authorized(m) /\ UNCHANGED tables
  \/ reply = "503" /\ UNCHANGED tables
  \/ /\ Authorized(m) /\ Prior(m.packet) # {} /\ UNCHANGED tables
     /\ reply = IF Replayed(m.packet) THEN "202" ELSE "409"
  \/ reply = "422" /\ Authorized(m) /\ Prior(m.packet) = {} /\ UNCHANGED tables
  \/ reply \in {"202", "503"} /\ Authorized(m) /\ Prior(m.packet) = {} /\ Store(m.packet)

Replies == {"202", "401", "403", "409", "422", "503"}
Request == [version |-> config.version, packet |-> run.packet]

\* The request the device is waiting for...
Handle(reply) ==
  /\ run.pc = "sent" /\ Ingest(Request, reply)
  /\ run' = [run EXCEPT !.pc = "answered", !.reply = reply]
  /\ UNCHANGED <<board, identity, bench, config, nvs, samples, done, stray>>

\* ...and one it has given up on.
HandleStray(m) ==
  /\ \E reply \in Replies : Ingest(m, reply)
  /\ stray' = stray \ {m}
  /\ UNCHANGED <<board, identity, bench, device>>

(***************************************************************************)
(* The device.                                                             *)
(***************************************************************************)

Rejections == {"401", "403", "409"} \cup (IF board = "camera" THEN {"422"} ELSE {})

\* Start: a saved sequence below the configured one stops the sensor board for good, and
\* its telemetry task on the camera board.
Boot ==
  /\ run.pc = "off" /\ config # NoConfig
  /\ run' = IF nvs.saved /\ nvs.next < config.start THEN [Off EXCEPT !.pc = "stopped"]
            ELSE [Off EXCEPT !.pc = "idle", !.packet = nvs.packet,
                             !.next = IF nvs.saved THEN nvs.next ELSE config.start]
  /\ UNCHANGED <<board, identity, tables, bench, config, nvs, samples, done, stray>>

Encoded(ts) == [seq |-> run.next, sample |-> samples + 1, ts |-> ts]
Bound(ts) == [saved |-> TRUE, packet |-> Encoded(ts), next |-> run.next + 1]

\* A new packet is bound to its sequence in NVS before it is sent.
Sample(ts) ==
  /\ run.pc = "idle" /\ run.packet = NoPacket /\ samples < MaxSamples
  /\ samples' = samples + 1
  /\ nvs' = Bound(ts)
  /\ run' = [run EXCEPT !.packet = Encoded(ts), !.next = @ + 1]
  /\ UNCHANGED <<board, identity, tables, bench, config, done, stray>>

\* After a write NVS reports as failed, which may have been made, the sensor board stops
\* and the camera board comes back with what it had in memory.
Stalled == [run EXCEPT !.pc = IF board = "sensor" THEN "stopped" ELSE "idle", !.reply = "none"]

SampleFails(ts) ==
  /\ run.pc = "idle" /\ run.packet = NoPacket /\ samples < MaxSamples
  /\ samples' = samples + 1
  /\ nvs' \in {nvs, Bound(ts)}
  /\ run' = Stalled
  /\ UNCHANGED <<board, identity, tables, bench, config, done, stray>>

Send ==
  /\ run.pc = "idle" /\ run.packet # NoPacket
  /\ run' = [run EXCEPT !.pc = "sent"]
  /\ UNCHANGED <<board, identity, tables, bench, config, nvs, samples, done, stray>>

\* The connection fails or times out; the request may still be on its way.
GiveUp ==
  /\ run.pc \in {"sent", "answered"}
  /\ run' = [run EXCEPT !.pc = "idle", !.reply = "none"]
  /\ \/ run.pc = "sent" /\ stray' = stray \cup {Request}
     \/ UNCHANGED stray
  /\ UNCHANGED <<board, identity, tables, bench, config, nvs, samples, done>>

\* Mutant: the sensor board forgets its sequence as well.
Cleared_All(s) == NoState

\* What is left in NVS after an acknowledgment: the sensor board keeps next_seq, the
\* camera board erases the key.
Cleared(s) == IF board = "sensor" THEN [s EXCEPT !.packet = NoPacket] ELSE NoState

Acknowledged ==
  /\ run.pc = "answered" /\ run.reply = "202"
  /\ nvs' = Cleared(nvs)
  /\ run' = [run EXCEPT !.pc = "idle", !.reply = "none", !.packet = NoPacket]
  /\ done' = done \cup {run.packet.sample}
  /\ UNCHANGED <<board, identity, tables, bench, config, samples, stray>>

ClearFails ==
  /\ run.pc = "answered" /\ run.reply = "202"
  /\ nvs' \in {nvs, Cleared(nvs)}
  /\ run' = Stalled
  /\ UNCHANGED <<board, identity, tables, bench, config, samples, done, stray>>

\* Stopped until the next start: fail_closed on the sensor board, AUTH_PAUSED on the camera.
Rejected ==
  /\ run.pc = "answered" /\ run.reply \in Rejections
  /\ run' = [run EXCEPT !.pc = "stopped"]
  /\ UNCHANGED <<board, identity, tables, bench, config, nvs, samples, done, stray>>

Retry ==
  /\ run.pc = "answered" /\ run.reply \notin Rejections \cup {"202"}
  /\ run' = [run EXCEPT !.pc = "idle", !.reply = "none"]
  /\ UNCHANGED <<board, identity, tables, bench, config, nvs, samples, done, stray>>

PowerLoss ==
  /\ run.pc # "off"
  /\ run' = Off
  /\ \/ run.pc = "sent" /\ stray' = stray \cup {Request}
     \/ UNCHANGED stray
  /\ UNCHANGED <<board, identity, tables, bench, config, nvs, samples, done>>

\* A request may name a version that is no longer the current one.
Provisioning ==
  \/ HandoffExpires \/ \E s \in Signers : Claim(s)
  \/ \E v \in 1..MaxVersions : Revoke(v) \/ \E s \in Signers : Download(s, v)
  \/ \E s \in Signers, id \in RequestIds, v \in 1..MaxVersions : Reissue(s, id, v)
  \/ \E f \in files : Install(f)
Cloud == (\E reply \in Replies : Handle(reply)) \/ \E m \in stray : HandleStray(m)
Firmware ==
  \/ Boot \/ Send \/ GiveUp \/ Acknowledged \/ ClearFails \/ Rejected \/ Retry \/ PowerLoss
  \/ \E ts \in Stamps : Sample(ts) \/ SampleFails(ts)

Next == Provisioning \/ Cloud \/ Firmware
Spec == Init /\ [][Next]_vars

(***************************************************************************)
(* Properties.                                                             *)
(***************************************************************************)

PacketType == [seq : Nat \cup {-1}, sample : 0..MaxSamples, ts : Nat]

IdentityOK ==
  /\ version \in 0..MaxVersions /\ revoked \in BOOLEAN
  /\ handoff \in [sealed : BOOLEAN, fresh : BOOLEAN, signer : Signers \cup {None}, start : Nat]
  /\ reissued \in [id : RequestIds \cup {None}, from : Nat]
TablesOK ==
  /\ packets \subseteq PacketType /\ lastSeq \in Nat \cup {-1} /\ status \in Nat \cup {-1}
  /\ latest \in PacketType /\ usage \in Nat
BenchOK == files \subseteq [version : Nat, start : Nat, copy : Nat] /\ spent \subseteq files
DeviceOK ==
  /\ config \in [version : Nat, start : Nat]
  /\ nvs \in [saved : BOOLEAN, packet : PacketType, next : Nat]
  /\ run \in [pc : {"off", "idle", "sent", "answered", "stopped"}, next : Nat,
              packet : PacketType, reply : Replies \cup {"none"}]
  /\ samples \in 0..MaxSamples /\ done \subseteq 1..MaxSamples
StrayOK == stray \subseteq [version : Nat, packet : PacketType]

ShapesOK == IdentityOK /\ TablesOK /\ BenchOK /\ DeviceOK /\ StrayOK

\* Rows, files and firmware state have their shapes.
TypeOK == board \in Boards /\ ShapesOK

\* The device never sends a new packet under a sequence that is taken: through power
\* losses, lost replies, replaced credentials and reflashing it is never told 409, which
\* would stop its uploads ("seq is persisted across firmware reboots").
NoSequenceConflict == run.reply # "409"

\* The upload loop of hsx_sdk.c keeps that promise: next_seq stays in NVS when the
\* acknowledged packet is dropped, and a configuration is flashed once.
SensorNeverConflicts == board = "sensor" => NoSequenceConflict

\* Every packet the device dropped as acknowledged is stored.
AcknowledgedIsStored == \A n \in done : \E p \in packets : p.sample = n

\* No sample is stored or counted twice, however often its packet was sent.
StoredOnce ==
  /\ \A p, q \in packets : p.seq = q.seq \/ p.sample = q.sample => p = q
  /\ usage = Cardinality(packets)

\* latest is the newest sample by its own time, and status comes from the highest sequence.
LatestIsNewest ==
  /\ packets # {} => latest \in packets
  /\ \A p \in packets : p.ts < latest.ts \/ (p.ts = latest.ts /\ p.seq <= latest.seq)
  /\ status = lastSeq /\ \A p \in packets : p.seq <= lastSeq

\* A credential is written to at most one file, which its first download got, so a file
\* in hand is the only copy of its sequence start.
OneFilePerCredential == \A f \in files' \ files : \A g \in files : f.version # g.version

\* The tables tell the truth about the samples: what the device dropped is stored, and
\* latest, status and last_seq are those of the newest sample and the highest sequence
\* (the ingest transaction of routes.ts).
TablesTruthful == LatestIsNewest /\ AcknowledgedIsStored

\* Sequences are kept: no step makes the sensor board meet a taken one, or puts a credential
\* with its sequence start in circulation twice (hsx_run and the one download).
SequencesKept == [][SensorNeverConflicts' /\ OneFilePerCredential]_vars
==============================================================================
