-------------------------- MODULE ObservationReads --------------------------
(***************************************************************************)
(* A picture of the device's gallery is asked for while uploads, the sweep *)
(* and the bucket go on: the content route of observation-read.ts.  The    *)
(* gateway authorizes the viewer and finds the row in one snapshot, reads  *)
(* the object outside any transaction, authorizes and compares again in a  *)
(* second snapshot, and only then sends the bytes.                         *)
(*                                                                         *)
(* Requests share nothing but what they read, so one is followed at a      *)
(* time.  A viewer who leaves, or a gateway that stops, gets no answer:    *)
(* the request takes no further step.                                      *)
(***************************************************************************)
EXTENDS Observations

VARIABLES
  access,    \* the viewer's session and membership: "here", "elsewhere" or "ended"
  read,      \* the request: the row it was authorized for, the bytes it got, its answer
  withheld,  \* history: at some moment since it began, the viewer could not see the picture
  entitled   \* history: at some moment since its bytes were read, the viewer could

readVars == <<vars, access, read, withheld, entitled>>

NoRead == [pc |-> "idle", obs |-> NoOne, gen |-> 0, fp |-> NoPrint, got |-> NoPrint, answer |-> "none"]

ReadInit == Init /\ access = "here" /\ read = NoRead /\ withheld = FALSE /\ entitled = FALSE

\* withAuthorizedRead, the source and the row: the session family and the membership hold in
\* the device's workspace, and the image is stored and retained.  A revoked device's are too.
MayView(o) == access = "here" /\ device # "deleted" /\ receipt[o].state = "stored" /\ Retained(o)

Answered(answer) == [read EXCEPT !.pc = "done", !.answer = answer]

(***************************************************************************)
(* The request.                                                            *)
(***************************************************************************)

\* The first snapshot: a 401, 403 or 404, or the row with its generation and digest.
Ask(o) ==
  /\ read.pc \in {"idle", "done"}
  /\ read' = IF MayView(o)
             THEN [NoRead EXCEPT !.pc = "found", !.obs = o, !.gen = image[o].gen, !.fp = receipt[o].fp]
             ELSE [NoRead EXCEPT !.pc = "done", !.obs = o, !.answer = "denied"]
  /\ withheld' = ~MayView(o) /\ entitled' = FALSE
  /\ UNCHANGED <<vars, access>>

\* store.read by key and generation: the bytes, or a 404.
Fetch ==
  LET x == object[read.obs] IN
  /\ read.pc = "found"
  /\ read' = IF x.gen = read.gen THEN [read EXCEPT !.pc = "got", !.got = x.fp] ELSE Answered("denied")
  /\ entitled' = MayView(read.obs)
  /\ UNCHANGED <<vars, access, withheld>>

\* The storage call fails or times out: a 503.
FetchFails ==
  /\ read.pc = "found" /\ read' = Answered("unavailable")
  /\ UNCHANGED <<vars, access, withheld, entitled>>

\* Mutant: the first authorization is thought to be enough.
StillMayView_Before == TRUE

StillMayView == MayView(read.obs)

\* The row names the generation and digest of the first snapshot, and the bytes have it.
Same == image[read.obs].gen = read.gen /\ receipt[read.obs].fp = read.fp /\ read.got = read.fp

\* The second snapshot.
Recheck ==
  /\ read.pc = "got"
  /\ read' = IF ~StillMayView THEN Answered("denied")
             ELSE IF Same THEN [read EXCEPT !.pc = "cleared"] ELSE Answered("mismatched")
  /\ UNCHANGED <<vars, access, withheld, entitled>>

Send ==
  /\ read.pc = "cleared" /\ read' = Answered("sent")
  /\ UNCHANGED <<vars, access, withheld, entitled>>

(***************************************************************************)
(* Everything else goes on meanwhile.                                      *)
(***************************************************************************)

\* What the histories of a request under way remember of a step.
Noted ==
  IF read.pc \in {"idle", "done"} THEN UNCHANGED <<withheld, entitled>>
  ELSE /\ withheld' = (withheld \/ ~MayView(read.obs)')
       /\ entitled' = (entitled \/ (read.pc # "found" /\ MayView(read.obs)'))

\* The session moves to another workspace and back, or ends, or the membership does.
AccessChanges ==
  /\ access # "ended" /\ access' \in {"here", "elsewhere", "ended"} \ {access}
  /\ UNCHANGED <<vars, read>> /\ Noted

PipelineStep == Next /\ UNCHANGED <<access, read>> /\ Noted

ReadNext ==
  \/ PipelineStep
  \/ AccessChanges
  \/ \E o \in Obs : Ask(o)
  \/ Fetch \/ FetchFails \/ Recheck \/ Send

ReadSpec == ReadInit /\ [][ReadNext]_readVars

(***************************************************************************)
(* Properties.                                                             *)
(***************************************************************************)

ReadType ==
  [pc : {"idle", "found", "got", "cleared", "done"}, obs : Obs \cup {NoOne}, gen : Nat,
   fp : Prints \cup {NoPrint}, got : Prints \cup {NoPrint},
   answer : {"none", "sent", "denied", "unavailable", "mismatched"}]

ReadTypeOK ==
  /\ access \in {"here", "elsewhere", "ended"} /\ read \in ReadType
  /\ withheld \in BOOLEAN /\ entitled \in BOOLEAN

\* The bytes are those every acknowledged upload of the observation sent.
Promised(o, bytes) == \A u \in Uploads : up[u].resp = "acked" /\ up[u].obs = o => up[u].fp = bytes

\* Bytes are sent only to a viewer who was entitled to them after they were read, and are
\* what the camera was told is stored (observation-read.ts 93-96).
SentRightly == read.answer = "sent" => entitled /\ Promised(read.obs, read.got)

\* A picture its viewer may see throughout is never reported missing, whatever the sweep,
\* late deletes and orphan scans do (observation-read.ts 33, 91 and PrivateObservationImage.tsx).
DeniedRightly == read.answer = "denied" => withheld

\* The comparison after the second snapshot never fails: a row that is still stored is the
\* row it was, and its object has its content (observation-read.ts 95, maintain.ts, observations.ts).
NeverMismatched == read.answer # "mismatched"

\* What the gallery tells a viewer is true of the pipeline behind it, although the row, the
\* object and the authorization are read at three different moments.
ReadsHonest == SentRightly /\ DeniedRightly /\ NeverMismatched
=============================================================================
