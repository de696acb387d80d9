------------------------------- MODULE Camera -------------------------------
(***************************************************************************)
(* The camera board: the capture and upload tasks around the image spool   *)
(* on its SD card, the owner marker that binds a card to one device, the   *)
(* Wi-Fi watch with its setup hotspot, and power that may fail anywhere.   *)
(* The receiving service is the abstract Receiver.                         *)
(*                                                                         *)
(* Both tasks work on the card under spool_lock, so one locked section is  *)
(* one action; the request is outside the lock.  A frame number stands for *)
(* its random UUID: captures take any unused one, and ties between frames  *)
(* of one time are broken by it.  Time is counted in days; a frame's bytes *)
(* are one unit, so the byte limits are the count limits.                  *)
(***************************************************************************)
EXTENDS Integers, FiniteSets

CONSTANTS Frames,        \* observation ids (numbers)
          Foreign,       \* the ones another device left on a card
          Refused,       \* frames the service finds invalid (422)
          Cards,         \* SD cards: the one in the slot and a spare
          MaxSpool,      \* OBS_SPOOL_COUNT
          MaxQuarantine, \* records the quarantine holds
          MaxAge,        \* OBS_MAX_AGE_S, in days
          MissLimit,     \* ticks without a link before the hotspot opens
          MaxDay,        \* bound: days a behaviour spans
          MaxFaults      \* bound: power losses, card swaps, failing calls, lost replies

ASSUME CameraAssumption ==
  /\ IsFiniteSet(Frames) /\ Frames \subseteq Nat /\ Foreign \subseteq Frames /\ Refused \subseteq Frames
  /\ \E c, d \in Cards : c # d
  /\ {MaxSpool, MaxQuarantine, MissLimit} \subseteq Nat \ {0}
  /\ {MaxAge, MaxDay, MaxFaults} \subseteq Nat

NoFrame == -1

VARIABLES
  card,      \* per card: owner marker, .write-check left behind, spool and quarantine files
  slot,      \* the card in the slot
  on,        \* the board has power and has booted
  ready,     \* STORAGE_READY
  paused,    \* AUTH_PAUSED
  synced,    \* CLOCK_READY
  claimed,   \* the record the upload task holds
  up,        \* the upload task: its step, frame and the response it got
  day,       \* the clock
  taken,     \* captured_at of each frame
  wire,      \* requests the service has not handled
  link,      \* CONNECTED
  misses,    \* wifi_watch: ticks in a row without a link
  hotspot,   \* setup hotspot active
  router,    \* the Wi-Fi credentials that work
  wifi,      \* the ones in wifi_local (0: none) and the ones in the radio
  denied,   \* the service no longer accepts the token
  gallery,   \* the service's images, as in Receiver
  faults     \* faults so far

Service == INSTANCE Receiver WITH Obs <- Frames, Prints <- Frames, NoPrint <- NoFrame, closed <- FALSE

tasks == <<ready, paused, synced, claimed, up>>
radio == <<link, misses, hotspot, router, wifi>>
service == <<wire, denied, gallery>>
time == <<day, taken>>
cameraVars == <<card, slot, on, tasks, radio, service, time, faults>>

Fault == faults < MaxFaults /\ faults' = faults + 1

(***************************************************************************)
(* The spool.  A directory maps frames to "none", a .part file, a whole    *)
(* record, one whose payload no longer has its digest, or one whose header *)
(* is unreadable.                                                          *)
(***************************************************************************)
Empty == [f \in Frames |-> "none"]
Unreadable(d) == {f \in Frames : d[f] \in {"part", "garbled"}}
Records(d) == {f \in Frames : d[f] \in {"whole", "damaged"}}

\* By captured_at, then by id.
Older(f, g) == taken[f] < taken[g] \/ (taken[f] = taken[g] /\ f < g)

\* Mutant: the record being uploaded may be evicted like any other.
Disposable_All(live, keep) == live

Disposable(live, keep) == live \ {keep}

\* Mutant: no room is made for the record about to be put.
Excess_NoReserve(live, reserve, limit) == Cardinality(live) - limit

Excess(live, reserve, limit) == Cardinality(live) + reserve - limit

Evicted(free, excess) == {f \in free : Cardinality({g \in free : Older(g, f)}) < excess}

\* scan_limits: unreadable and expired files go, then the oldest unclaimed
\* records until the rest and the reserve fit.  It fails when none is left to go.
Scan(d, now, keep, reserve, limit) ==
  LET live == {f \in Records(d) : f = keep \/ taken[f] >= now - MaxAge}
      free == Disposable(live, keep)
      gone == Evicted(free, Excess(live, reserve, limit))
      left == live \ gone
  IN [ok  |-> Excess(live, reserve, limit) <= Cardinality(free),
      dir |-> [f \in Frames |-> IF f \in left THEN d[f] ELSE "none"],
      oldest |-> CHOOSE f \in (left \ {keep}) \cup {NoFrame} :
                   IF left \ {keep} = {} THEN f = NoFrame
                   ELSE f \in left \ {keep} /\ \A g \in left \ {keep} : ~Older(g, f)]

Here == card[slot]

\* Mutant: the owner found at boot is trusted from then on.
OwnerValid_AtBoot == ready

\* obs_owner_check without initialize, before every use of the card: the marker
\* is there, intact and ours.
OwnerValid == Here.marker = "ours"

OnCard(spool, quarantine) ==
  card' = [card EXCEPT ![slot].spool = spool, ![slot].quarantine = quarantine]

(***************************************************************************)
(* capture_task.                                                           *)
(***************************************************************************)
CanCapture == on /\ synced /\ ready /\ ~paused

Unused == {f \in Frames \ Foreign : taken[f] = -1}

\* A deadline passes, the frame is encoded, and under the lock the owner is checked,
\* room is made and the record put; what fails clears STORAGE_READY.
Capture(f) ==
  LET scan == Scan(Here.spool, day, claimed, 1, MaxSpool) IN
  /\ CanCapture /\ f \in Unused
  /\ IF OwnerValid /\ scan.ok
     THEN /\ OnCard([scan.dir EXCEPT ![f] = "whole"], Here.quarantine)
          /\ taken' = [taken EXCEPT ![f] = day]
          /\ UNCHANGED ready
     ELSE /\ ready' = FALSE
          /\ IF OwnerValid THEN OnCard(scan.dir, Here.quarantine) ELSE UNCHANGED card
          /\ UNCHANGED taken
  /\ UNCHANGED <<slot, on, paused, synced, claimed, up, radio, service, day, faults>>

\* The card refuses the write: the .part file is unlinked, or stays when that fails too.
PutFails(f) ==
  LET scan == Scan(Here.spool, day, claimed, 1, MaxSpool) IN
  /\ Fault /\ CanCapture /\ f \in Unused /\ OwnerValid /\ scan.ok
  /\ \E left \in {"none", "part"} : OnCard([scan.dir EXCEPT ![f] = left], Here.quarantine)
  /\ taken' = [taken EXCEPT ![f] = day]
  /\ ready' = FALSE
  /\ UNCHANGED <<slot, on, paused, synced, claimed, up, radio, service, day>>

(***************************************************************************)
(* upload_task.                                                            *)
(***************************************************************************)
Waiting == [pc |-> "idle", frame |-> NoFrame, code |-> 0]

\* Under the lock: check the owner, scan spool and quarantine, claim the oldest record
\* and read it; the request leaves after the digest was compared.
Pick ==
  LET scan == Scan(Here.spool, day, NoFrame, 0, MaxSpool)
      held == Scan(Here.quarantine, day, NoFrame, 0, MaxQuarantine)
  IN
  /\ on /\ link /\ synced /\ ready /\ ~paused /\ up = Waiting
  /\ IF ~OwnerValid
     THEN ready' = FALSE /\ UNCHANGED <<card, claimed, up, wire>>
     ELSE /\ scan.oldest # NoFrame \/ scan.dir # Here.spool \/ held.dir # Here.quarantine
          /\ OnCard(scan.dir, held.dir)
          /\ claimed' = scan.oldest
          /\ IF scan.oldest = NoFrame
             THEN UNCHANGED <<up, wire>>
             ELSE IF scan.dir[scan.oldest] = "damaged"
             THEN up' = [pc |-> "corrupt", frame |-> scan.oldest, code |-> 0] /\ UNCHANGED wire
             ELSE /\ up' = [pc |-> "sent", frame |-> scan.oldest, code |-> 0]
                  /\ wire' = wire \cup {scan.oldest}
          /\ UNCHANGED ready
  /\ UNCHANGED <<slot, on, paused, synced, radio, denied, gallery, time, faults>>

\* The claimed record cannot be read: it stays claimed.
ReadFails ==
  LET scan == Scan(Here.spool, day, NoFrame, 0, MaxSpool) IN
  /\ Fault /\ on /\ link /\ synced /\ ready /\ ~paused /\ up = Waiting
  /\ OwnerValid /\ scan.oldest # NoFrame
  /\ OnCard(scan.dir, Here.quarantine)
  /\ claimed' = scan.oldest
  /\ ready' = FALSE
  /\ UNCHANGED <<slot, on, paused, synced, up, radio, service, time>>

\* The payload does not have the digest of its header.
DropCorrupt ==
  /\ on /\ up.pc = "corrupt"
  /\ IF OwnerValid
     THEN OnCard([Here.spool EXCEPT ![up.frame] = "none"], Here.quarantine) /\ UNCHANGED ready
     ELSE ready' = FALSE /\ UNCHANGED card
  /\ claimed' = NoFrame /\ up' = Waiting
  /\ UNCHANGED <<slot, on, paused, synced, radio, service, time, faults>>

\* obs_response_action; 299 stands for a 200 without the exact acknowledgment of this
\* record, 0 for a request that failed.
Action(code) ==
  CASE code \in {200, 201} -> "ack" [] code = 410 -> "expired" [] code \in {401, 403} -> "pause"
    [] code \in {400, 409, 413, 415, 422} -> "quarantine" [] OTHER -> "retry"

\* obs_spool_quarantine: make room, then rename unless the name is taken.
Quarantine(f) ==
  LET held == Scan(Here.quarantine, day, NoFrame, 1, MaxQuarantine) IN
  IF held.ok /\ held.dir[f] = "none" /\ Here.spool[f] # "none"
  THEN /\ OnCard([Here.spool EXCEPT ![f] = "none"], [held.dir EXCEPT ![f] = Here.spool[f]])
       /\ UNCHANGED ready
  ELSE /\ IF held.ok THEN OnCard(Here.spool, held.dir) ELSE UNCHANGED card
       /\ ready' = FALSE

\* The response is applied under the lock, unless the card is no longer ours.
Settle ==
  LET f == up.frame  act == Action(up.code) IN
  /\ on /\ up.pc = "replied"
  /\ IF ~OwnerValid
     THEN ready' = FALSE /\ UNCHANGED <<card, paused>>
     ELSE /\ CASE act \in {"ack", "expired"} ->
                    OnCard([Here.spool EXCEPT ![f] = "none"], Here.quarantine) /\ UNCHANGED ready
               [] act = "quarantine" -> Quarantine(f)
               [] OTHER -> UNCHANGED <<card, ready>>
          /\ paused' = (paused \/ act = "pause")
  /\ claimed' = NoFrame /\ up' = Waiting
  /\ UNCHANGED <<slot, on, synced, radio, service, time, faults>>

\* The record cannot be unlinked or renamed.
RemoveFails ==
  /\ Fault /\ on /\ up.pc = "replied" /\ OwnerValid
  /\ Action(up.code) \in {"ack", "expired", "quarantine"}
  /\ ready' = FALSE
  /\ claimed' = NoFrame /\ up' = Waiting
  /\ UNCHANGED <<card, slot, on, paused, synced, radio, service, time>>

\* telemetry_task is refused and pauses all uploads.
TelemetryPauses ==
  /\ on /\ denied /\ synced /\ link /\ ~paused
  /\ paused' = TRUE
  /\ UNCHANGED <<card, slot, on, ready, synced, claimed, up, radio, service, time, faults>>

(***************************************************************************)
(* The service.                                                            *)
(***************************************************************************)
Replied(f, code) ==
  up' = IF up.pc = "sent" /\ up.frame = f THEN [up EXCEPT !.pc = "replied", !.code = code] ELSE up

\* The service's answer: Receiver's Take for a new image.
HandleFrame(f) ==
  LET kept == gallery[f] = Service!Kept(f) IN
  /\ f \in wire /\ wire' = wire \ {f}
  /\ IF denied THEN Replied(f, 401) /\ UNCHANGED gallery
     ELSE IF kept THEN Replied(f, 200) /\ UNCHANGED gallery
     ELSE IF gallery[f] = Service!Retired THEN Replied(f, 410) /\ UNCHANGED gallery
     ELSE IF f \in Refused \/ taken[f] < day - MaxAge THEN Replied(f, 422) /\ UNCHANGED gallery
     ELSE Replied(f, 201) /\ Service!Take(f, f)
  /\ UNCHANGED <<card, slot, on, ready, paused, synced, claimed, radio, denied, time, faults>>

\* 429, 503, or a body that is not this record's acknowledgment.
FrameFails(f) ==
  /\ Fault /\ f \in wire /\ wire' = wire \ {f}
  /\ \E code \in {299, 503} : Replied(f, code)
  /\ UNCHANGED <<card, slot, on, ready, paused, synced, claimed, radio, denied, gallery, time>>

\* The 20 s timeout: the request may still arrive, or is gone.
Timeout ==
  /\ Fault /\ on /\ up.pc = "sent"
  /\ up' = [up EXCEPT !.pc = "replied", !.code = 0]
  /\ wire' \in {wire, wire \ {up.frame}}
  /\ UNCHANGED <<card, slot, on, ready, paused, synced, claimed, radio, denied, gallery, time>>

Retention(f) ==
  /\ gallery[f].state = "kept" /\ taken[f] < day - MaxAge
  /\ Service!Retire(f)
  /\ UNCHANGED <<card, slot, on, tasks, radio, wire, denied, time, faults>>

DenyToken ==
  /\ Fault /\ ~denied /\ denied' = TRUE
  /\ UNCHANGED <<card, slot, on, tasks, radio, wire, gallery, time>>

(***************************************************************************)
(* Wi-Fi: wifi_event, wifi_watch and the setup form.                       *)
(***************************************************************************)
Connect ==
  /\ on /\ ~link /\ wifi.station = router
  /\ link' = TRUE
  /\ UNCHANGED <<card, slot, on, tasks, misses, hotspot, router, wifi, service, time, faults>>

\* After the first link: the hotspot closes, the clock is set and the tasks start.
SyncClock ==
  /\ on /\ link /\ ~synced
  /\ synced' = TRUE /\ hotspot' = FALSE
  /\ UNCHANGED <<card, slot, on, ready, paused, claimed, up, link, misses, router, wifi, service, time, faults>>

Disconnect ==
  /\ Fault /\ on /\ link
  /\ link' = FALSE
  /\ UNCHANGED <<card, slot, on, tasks, misses, hotspot, router, wifi, service, time>>

\* Mutant: the count starts over at every tick.
Missed_Reset(n) == 1

Missed(n) == IF n < MissLimit THEN n + 1 ELSE n

\* camera_setup_start after four misses, camera_setup_stop on a link; each does nothing
\* when it is already so.
Hotspot == IF link THEN FALSE ELSE hotspot \/ Missed(misses) >= MissLimit

\* wifi_watch, every 15 s.
WifiWatch ==
  /\ on
  /\ misses' = IF link THEN 0 ELSE Missed(misses)
  /\ hotspot' = Hotspot
  /\ <<misses, hotspot>>' # <<misses, hotspot>>
  /\ UNCHANGED <<card, slot, on, tasks, link, router, wifi, service, time, faults>>

\* The owner submits the setup form: wifi_local is committed in one blob, then the
\* radio is reconfigured.
SaveWifi ==
  /\ on /\ hotspot /\ wifi.station # router
  /\ wifi' = [saved |-> router, station |-> router]
  /\ link' = FALSE
  /\ UNCHANGED <<card, slot, on, tasks, misses, hotspot, router, service, time, faults>>

\* A mistyped form: saved and tried all the same, with the hotspot still open.
SaveMistyped ==
  /\ Fault /\ on /\ hotspot
  /\ wifi' = [saved |-> 3, station |-> 3]
  /\ link' = FALSE
  /\ UNCHANGED <<card, slot, on, tasks, misses, hotspot, router, service, time>>

\* The owner changes the network's password; a connected board drops.
ChangeRouter ==
  /\ Fault /\ router = 1 /\ router' = 2
  /\ link' = FALSE
  /\ UNCHANGED <<card, slot, on, tasks, misses, hotspot, wifi, service, time>>

(***************************************************************************)
(* Power, cards and time.                                                  *)
(***************************************************************************)

\* Everything in memory is gone; a put in progress leaves its .part file, a first boot
\* its incomplete marker or its .write-check.
LosePower ==
  /\ Fault /\ on
  /\ on' = FALSE
  /\ \/ UNCHANGED <<card, taken>>
     \/ \E f \in Unused :
          /\ CanCapture /\ OwnerValid
          /\ OnCard([Here.spool EXCEPT ![f] = "part"], Here.quarantine)
          /\ taken' = [taken EXCEPT ![f] = day]
  /\ ready' = FALSE /\ paused' = FALSE /\ synced' = FALSE
  /\ claimed' = NoFrame /\ up' = Waiting
  /\ link' = FALSE /\ misses' = 0 /\ hotspot' = FALSE
  /\ UNCHANGED <<slot, router, wifi, service, day>>

\* obs_owner_check with initialize: an unmarked card is claimed only when both
\* directories are empty.
Mark(c) ==
  IF c.marker = "none" /\ c.spool = Empty /\ c.quarantine = Empty /\ ~c.probe THEN "ours" ELSE c.marker

\* camera_wifi_configure: what the form saved, else what the configuration came with.
Station == IF wifi.saved # 0 THEN wifi.saved ELSE 1

\* hsx_camera_run: bind the card, probe it, scan both directories (at time 0, so nothing
\* expires), configure Wi-Fi and start the watch.
BootCamera ==
  LET c == Here
      spool == Scan(c.spool, 0, NoFrame, 0, MaxSpool)
      held == Scan(c.quarantine, 0, NoFrame, 0, MaxQuarantine)
      usable == Mark(c) = "ours" /\ ~c.probe
  IN
  /\ ~on /\ on' = TRUE
  /\ card' = [card EXCEPT ![slot] = [c EXCEPT !.marker = Mark(c),
               !.spool = IF usable THEN spool.dir ELSE c.spool,
               !.quarantine = IF usable THEN held.dir ELSE c.quarantine]]
  /\ ready' = usable
  /\ wifi' = [wifi EXCEPT !.station = Station]
  /\ UNCHANGED <<slot, paused, synced, claimed, up, link, misses, hotspot, router, service, time, faults>>

\* Power fails while the marker or the probe is written.
BootInterrupted ==
  /\ Fault /\ ~on
  /\ card' = [card EXCEPT ![slot] =
       IF @.marker = "none" /\ Mark(@) = "ours" THEN [@ EXCEPT !.marker = "torn"]
       ELSE IF @.marker = "ours" THEN [@ EXCEPT !.probe = TRUE] ELSE @]
  /\ card' # card
  /\ UNCHANGED <<slot, on, tasks, radio, service, time>>

Swap ==
  /\ Fault
  /\ slot' \in Cards \ {slot}
  /\ UNCHANGED <<card, on, tasks, radio, service, time>>

\* A file goes bad on the card: its payload, or its header too.
Rot(f) ==
  /\ Fault /\ Here.spool[f] = "whole" /\ f \notin Foreign
  /\ \E to \in {"damaged", "garbled"} : OnCard([Here.spool EXCEPT ![f] = to], Here.quarantine)
  /\ UNCHANGED <<slot, on, tasks, radio, service, time>>

NextDay ==
  /\ day < MaxDay /\ day' = day + 1
  /\ UNCHANGED <<card, slot, on, tasks, radio, service, taken, faults>>

Blank == [marker |-> "none", probe |-> FALSE, spool |-> Empty, quarantine |-> Empty]

\* A blank card in the slot; the spare is another device's, or unmarked with its files.
CameraInit ==
  /\ \E c \in Cards, m \in {"theirs", "none"} :
       /\ slot = c
       /\ card = [x \in Cards |-> IF x = c THEN Blank ELSE
            [Blank EXCEPT !.marker = m, !.spool = [f \in Frames |-> IF f \in Foreign THEN "whole" ELSE "none"]]]
  /\ on = FALSE /\ ready = FALSE /\ paused = FALSE /\ synced = FALSE
  /\ claimed = NoFrame /\ up = Waiting
  /\ day = 0 /\ taken = [f \in Frames |-> IF f \in Foreign THEN 0 ELSE -1]
  /\ wire = {} /\ denied = FALSE /\ gallery = [f \in Frames |-> Service!Absent]
  /\ link = FALSE /\ misses = 0 /\ hotspot = FALSE /\ router = 1
  /\ wifi = [saved |-> 0, station |-> 0]
  /\ faults = 0

CameraNext ==
  \/ \E f \in Frames : Capture(f) \/ PutFails(f) \/ HandleFrame(f) \/ FrameFails(f) \/ Retention(f) \/ Rot(f)
  \/ Pick \/ ReadFails \/ DropCorrupt \/ Settle \/ RemoveFails \/ Timeout \/ TelemetryPauses
  \/ Connect \/ SyncClock \/ Disconnect \/ WifiWatch \/ SaveWifi \/ SaveMistyped \/ ChangeRouter
  \/ LosePower \/ BootCamera \/ BootInterrupted \/ Swap \/ DenyToken \/ NextDay

\* Power returns, the radio associates, the owner uses an open hotspot, and the
\* tasks and the service keep running.  Captures and days need not go on.
Progress ==
  \/ BootCamera \/ Pick \/ DropCorrupt \/ Settle \/ Connect \/ SyncClock \/ WifiWatch \/ SaveWifi
  \/ \E f \in Frames : HandleFrame(f)

CameraSpec == CameraInit /\ [][CameraNext]_cameraVars

(***************************************************************************)
(* Properties.                                                             *)
(***************************************************************************)

\* The spool and the quarantine of a card that is ours never hold more records than
\* their limits, through evictions, rejected frames, crashes and swapped cards
\* (OBS_SPOOL_COUNT and the 32 records of obs_spool_quarantine).
SpoolBounded ==
  \A c \in Cards : card[c].marker = "ours" =>
    /\ Cardinality(Records(card[c].spool)) <= MaxSpool
    /\ Cardinality(Records(card[c].quarantine)) <= MaxQuarantine

\* Another device's files are neither uploaded nor removed, whatever card is put in
\* and whenever (the ownership check before every use of the card).
ForeignUntouched ==
  /\ \A f \in Foreign : f \notin wire /\ gallery[f] = Service!Absent
  /\ \E c \in Cards : \A f \in Foreign : card[c].spool[f] = "whole"

\* The card stays in order through crashes, swaps and failing calls: the spool and the
\* quarantine keep to their limits, and another device's card is left alone.
CardSound == SpoolBounded /\ ForeignUntouched

\* A whole record leaves a card only for a reason: the service has it or has retired it,
\* it is too old, it was rejected and is in quarantine, it is corrupt, or the spool is
\* full and no older record that no request holds stays behind.
LeftForAReason(c, f) ==
  \/ gallery[f] # Service!Absent
  \/ taken[f] < day - MaxAge
  \/ card'[c].quarantine[f] # "none"
  \/ card[c].spool[f] = "damaged"
  \/ card'[c].spool[f] = "garbled"
  \/ /\ Cardinality(Records(card[c].spool)) >= MaxSpool
     /\ f # claimed \/ up = Waiting
     /\ \A g \in Records(card'[c].spool) : Older(g, f) => g = claimed \/ taken[g] = -1

NoSilentLoss ==
  \A c \in Cards, f \in Frames :
    f \in Records(card[c].spool) /\ f \notin Records(card'[c].spool) => LeftForAReason(c, f)

NothingLostSilently == [][NoSilentLoss]_cameraVars

\* Captures come 15 minutes apart and uploads 10 seconds: the spool drains, again and
\* again, through outages, a changed Wi-Fi password (the setup hotspot opens), lost
\* replies and restarts, unless the card or the token is refused, which the board
\* leaves to a person.
SpoolDrains ==
  []<>(on /\ (~ready \/ paused \/ Records(Here.spool) = {}))
=============================================================================
