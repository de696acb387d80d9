----------------------------- MODULE DevicePage -----------------------------
(***************************************************************************)
(* The page of one device, open in several tabs: the name editor with its  *)
(* optimistic version (DeviceNameEditor.tsx, telemetry-metadata.ts).       *)
(* Meanwhile the session moves to another workspace or ends, or the        *)
(* membership ends.                                                        *)
(*                                                                         *)
(* A name is the number of the edit that gave it.  A render reads the      *)
(* device when the gateway answers and reaches the tab later.              *)
(***************************************************************************)
EXTENDS Naturals

CONSTANTS Viewers,    \* tabs that have the page open
          MaxEdits    \* bound: edits

ASSUME DevicePageAssumption == MaxEdits \in Nat

VARIABLES
  access,   \* what the viewer's session may see: the device, another workspace, or nothing
  device,   \* telemetry.devices: name and metadata_version
  editor,   \* the mounted name editor of each tab
  saving,   \* its request
  abandoned, \* requests whose editor has given them up or was unmounted
  visit,    \* the page refresh under way
  edits, blind  \* edits made, and those that replaced a name nobody had shown their author

deviceVars == <<access, device, editor, saving, abandoned, visit, edits, blind>>

NoSave == [pc |-> "none", name |-> 0, version |-> 0, base |-> 0]
NoVisit == [pc |-> "none", name |-> 0, version |-> 0]
Mounted(name, version) == [key |-> version, seen |-> name, version |-> version, stale |-> FALSE]

DeviceInit ==
  /\ access = "device" /\ device = [name |-> 0, version |-> 0]
  /\ editor = [x \in Viewers |-> Mounted(0, 0)]
  /\ saving = [x \in Viewers |-> NoSave] /\ visit = [x \in Viewers |-> NoVisit]
  /\ abandoned = {} /\ edits = 0 /\ blind = {}

naming == <<device, editor, saving, abandoned, visit, edits, blind>>

(***************************************************************************)
(* The session and the membership change.                                  *)
(***************************************************************************)

\* The session moves to another workspace and back, or ends, or the membership does.
AccessChanges ==
  /\ \E a \in {"device", "elsewhere", "none"} : access # "none" /\ a # access /\ access' = a
  /\ UNCHANGED naming

(***************************************************************************)
(* The name.                                                               *)
(***************************************************************************)

\* Save name, with the version the editor holds.
Save(x) ==
  /\ saving[x] = NoSave /\ ~editor[x].stale /\ edits < MaxEdits
  /\ edits' = edits + 1
  /\ saving' = [saving EXCEPT ![x] =
       [pc |-> "sent", name |-> edits + 1, version |-> editor[x].version, base |-> editor[x].seen]]
  /\ UNCHANGED <<device, editor, abandoned, visit, blind, access>>

\* updateDeviceMetadata: a version mismatch never overwrites a concurrent edit.
Matches(call) == call.version = device.version

\* What the gateway does with a request, in a transaction that holds the session.
Accepted(call) == access = "device" /\ Matches(call)
Stored(call) ==
  /\ device' = [name |-> call.name, version |-> device.version + 1]
  /\ blind' = IF call.base = device.name THEN blind ELSE blind \cup {device.name}

SaveHandled(x) ==
  /\ saving[x].pc = "sent"
  /\ IF Accepted(saving[x])
     THEN Stored(saving[x]) /\ saving' = [saving EXCEPT ![x].pc = "saved", ![x].version = device.version + 1]
     ELSE saving' = [saving EXCEPT ![x].pc = "refused"] /\ UNCHANGED <<device, blind>>
  /\ UNCHANGED <<editor, abandoned, visit, edits, access>>

\* A request nobody waits for any more reaches the gateway, or never does.
LateSaveHandled(call) ==
  /\ call \in abandoned /\ abandoned' = abandoned \ {call}
  /\ IF Accepted(call) THEN Stored(call) \/ UNCHANGED <<device, blind>> ELSE UNCHANGED <<device, blind>>
  /\ UNCHANGED <<editor, saving, visit, edits, access>>

GivenUp(call) == IF call.pc = "sent" THEN {call} ELSE {}

\* The answer: the editor takes the name and its version and refreshes the page, or asks for
\* a refresh.  An answer that is lost leaves the save unconfirmed, and it may still be made.
SaveAnswered(x) ==
  /\ saving[x] # NoSave /\ saving' = [saving EXCEPT ![x] = NoSave]
  /\ \/ /\ saving[x].pc = "saved"
        /\ editor' = [editor EXCEPT ![x].seen = saving[x].name, ![x].version = saving[x].version]
        /\ visit' = [visit EXCEPT ![x] = [NoVisit EXCEPT !.pc = "asked"]]
        /\ UNCHANGED abandoned
     \/ /\ editor' = [editor EXCEPT ![x].stale = TRUE] /\ abandoned' = abandoned \cup GivenUp(saving[x])
        /\ UNCHANGED visit
  /\ UNCHANGED <<device, edits, blind, access>>

\* Refresh device, or a refresh of the page for another reason.
Refresh(x) ==
  /\ visit[x] = NoVisit
  /\ visit' = [visit EXCEPT ![x] = [NoVisit EXCEPT !.pc = "asked"]]
  /\ UNCHANGED <<device, editor, saving, abandoned, edits, blind, access>>

\* requireSession and the reads of the page.
RenderReads(x) ==
  /\ visit[x].pc = "asked"
  /\ visit' = [visit EXCEPT ![x] =
       IF access = "device" THEN [pc |-> "read", name |-> device.name, version |-> device.version]
       ELSE [NoVisit EXCEPT !.pc = "gone"]]
  /\ UNCHANGED <<device, editor, saving, abandoned, edits, blind, access>>

\* Mutant: the editor stays mounted and takes the version it is given.
Remounted_InPlace(e, r) == [e EXCEPT !.version = r.version, !.stale = FALSE]

\* The editor is keyed by device and metadata_version: a new version mounts a new editor,
\* with the name of that version; otherwise it keeps what it has.
Remounted(e, r) == IF r.version = e.key THEN [e EXCEPT !.stale = FALSE] ELSE Mounted(r.name, r.version)

\* An answer to an editor that was unmounted changes nothing any more.
RenderArrives(x) ==
  /\ visit[x].pc \in {"read", "gone"}
  /\ visit' = [visit EXCEPT ![x] = NoVisit]
  /\ editor' = [editor EXCEPT ![x] = IF visit[x].pc = "read" THEN Remounted(@, visit[x]) ELSE @]
  /\ IF editor'[x].key = editor[x].key THEN UNCHANGED <<saving, abandoned>>
     ELSE saving' = [saving EXCEPT ![x] = NoSave] /\ abandoned' = abandoned \cup GivenUp(saving[x])
  /\ UNCHANGED <<device, edits, blind, access>>

DeviceNext ==
  \/ AccessChanges
  \/ \E x \in Viewers :
       \/ Save(x) \/ SaveHandled(x) \/ SaveAnswered(x)
       \/ Refresh(x) \/ RenderReads(x) \/ RenderArrives(x)
  \/ \E call \in abandoned : LateSaveHandled(call)

\* No edit replaces a name its author had not been shown, whatever refreshes, lost answers and
\* other tabs' edits came between (DeviceNameEditor.tsx, gateway telemetry-metadata.ts).
NoNameLost == blind = {}
=============================================================================
