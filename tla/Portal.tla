------------------------------- MODULE Portal -------------------------------
(***************************************************************************)
(* The web portal.  Its parts share nothing but the browser they run in:   *)
(* the tabs and their workspace (Workspace), the page of a device          *)
(* (DevicePage), the rules card (RuleCard) and the live views (LiveView).  *)
(* A behaviour of the portal is one of them at work while the others rest, *)
(* so that their states add up instead of multiplying.                     *)
(***************************************************************************)
EXTENDS Workspace, DevicePage, RuleCard, LiveView

VARIABLE open  \* the part at work

portalVars == <<workspaceVars, deviceVars, cardVars, liveVars, open>>

\* A part at rest needs only one of its initial states.
RestsInOneState ==
  /\ open # "rules" => versioned /\ \A r \in Rules : Exists(rules[r])
  /\ open # "workspace" => sessions[1].tenant = CHOOSE t \in MemberOf[FirstUser] : TRUE

PortalInit ==
  /\ open \in {"workspace", "device", "rules", "live"}
  /\ WorkspaceInit /\ DeviceInit /\ CardInit /\ LiveInit /\ RestsInOneState

PortalNext ==
  \/ open = "workspace" /\ WorkspaceNext /\ UNCHANGED <<deviceVars, cardVars, liveVars, open>>
  \/ open = "device" /\ DeviceNext /\ UNCHANGED <<workspaceVars, cardVars, liveVars, open>>
  \/ open = "rules" /\ CardNext /\ UNCHANGED <<workspaceVars, deviceVars, liveVars, open>>
  \/ open = "live" /\ LiveNext /\ UNCHANGED <<workspaceVars, deviceVars, cardVars, open>>

Spec == PortalInit /\ [][PortalNext]_portalVars

\* What the portal shows agrees with what it was told: a rules card shows the newest
\* version it knows, and the views of one device show the same readings
\* (the merges of RuleCard and LiveView).
ShownIsCurrent == NewestShown /\ ViewsAgree
=============================================================================
