--------------------------- MODULE MCObservations ---------------------------
(***************************************************************************)
(* Small instances of the observation pipeline.  A behaviour plays one     *)
(* scene, chosen at the start; a scene bounds what may happen in it.       *)
(*   race   two uploads of one observation, equal or different, and one    *)
(*          lifecycle event, fault or midnight                             *)
(*   quota  two uploads, perhaps of two observations, and one midnight,    *)
(*          inside the capture window                                      *)
(*   live   one upload, two lifecycle events and a fault, to the end       *)
(*   view   two different uploads of one observation, requests for its     *)
(*          picture, and a device deletion, a fault or a viewer away       *)
(***************************************************************************)
EXTENDS ObservationReads

CONSTANTS o1, o2, u1, u2, f1, f2

VARIABLE scene

Scenes == {"race", "quota", "live", "view"}

\* u2 arrives after u1: uploads are interchangeable.
InOrder == up'[u2].pc # "new" => up'[u1].pc # "new"

\* Both uploads are of o1, and u1 sends f1: contents are interchangeable too.
OneObservation ==
  /\ InOrder /\ \A u \in Uploads : up'[u].obs \in {o1, NoOne}
  /\ age'[o2] = "fresh" /\ up'[u1].fp \in {f1, NoPrint}

Within ==
  CASE scene = "race" -> OneObservation /\ events' + faults' + day' <= 2
    [] scene = "quota" ->
         /\ InOrder /\ \A u \in Uploads : up'[u].fp \in {f1, NoPrint}
         /\ up'[u1].obs \in {o1, NoOne}                 \* and so are observations
         /\ events' = 0 /\ faults' = 0 /\ age' = age
    [] scene = "live" ->
         /\ up'[u2].pc = "new" /\ up'[u1].obs \in {o1, NoOne} /\ up'[u1].fp \in {f1, NoPrint}
         /\ age'[o2] = "fresh" /\ day' = 1
    [] scene = "view" ->
         /\ OneObservation /\ up'[u2].fp \in {f2, NoPrint} /\ day' = 1
         /\ device' # "revoked" /\ UNCHANGED <<token, enabled>>
         /\ events' + faults' + (IF access' = "here" THEN 0 ELSE 1) <= 1

\* Only the view scene has a viewer, who asks for o1 while it can be seen.  Asking again
\* starts from nothing, so what happens after an answer happens to a viewer yet to ask.
Viewing ==
  IF scene # "view" THEN UNCHANGED <<access, read>>
  ELSE /\ read' # read => read'.obs = o1 /\ (read'.pc = "done" => read.pc # "idle")
       /\ read.pc = "done" => UNCHANGED vars /\ UNCHANGED access

MCInit == ReadInit /\ scene \in Scenes
MCNext == ReadNext /\ Within /\ Viewing /\ UNCHANGED scene

\* The fairness of Observations, of the steps the live scene leaves possible.
Live(A) == scene = "live" /\ A /\ Within
MCSpec ==
  /\ MCInit /\ [][MCNext]_<<readVars, scene>>
  /\ WF_vars(Live(Request(u1))) /\ WF_vars(Live(Bucket)) /\ WF_vars(Live(SweepStep))
  /\ WF_vars(Live(Grow(o1))) /\ WF_vars(Live(Lapse(o1)))
  /\ WF_vars(Live(IntentDue(o1))) /\ WF_vars(Live(ObjectAged(o1)))

\* An upload that died, a sweep that died, a deleted device: in the end every reservation
\* is settled and no media without an image row is left in the bucket (maintain.ts).
NothingLeftBehind == scene = "live" => []<>Clean
=============================================================================
