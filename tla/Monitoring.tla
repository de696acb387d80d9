----------------------------- MODULE Monitoring -----------------------------
(***************************************************************************)
(* What is kept of the telemetry of a workspace (History), what is told    *)
(* about its devices (Fleet), the connections the services read and write  *)
(* it through (Connections) and the role they log in with (AppRole).  The  *)
(* parts share no state: a behaviour is one of them at work while the      *)
(* others rest.                                                            *)
(***************************************************************************)
EXTENDS History, Fleet, Connections, AppRole

VARIABLE open  \* the part at work

monitoringVars == <<vars, fleetVars, connVars, roleVars, open>>

\* A part at rest needs only one of its initial states.
MonitoringInit ==
  /\ open \in {"history", "fleet", "connections", "role"}
  /\ Init /\ FleetInit /\ ConnInit /\ RoleInit
  /\ open # "role" => role = Absent

MonitoringNext ==
  \/ open = "history" /\ Next /\ UNCHANGED <<fleetVars, connVars, roleVars, open>>
  \/ open = "fleet" /\ FleetNext /\ UNCHANGED <<vars, connVars, roleVars, open>>
  \/ open = "connections" /\ ConnNext /\ UNCHANGED <<vars, fleetVars, roleVars, open>>
  \/ open = "role" /\ RoleNext /\ UNCHANGED <<vars, fleetVars, connVars, open>>

\* The jobs run again and again, locks are granted in the order they were asked for, and
\* transactions end.
MonitoringSpec ==
  /\ MonitoringInit /\ [][MonitoringNext]_monitoringVars
  /\ WF_vars(open = "history" /\ IngestCommit)
  /\ SF_vars(open = "history" /\ ((\E h \in dirty : Claim(h)) \/ Aggregate \/ RollupCommit))
  /\ SF_vars(open = "history" /\ MaintainLock) /\ WF_vars(open = "history" /\ MaintainCommit)
  /\ WF_vars(open = "history" /\ ((\E res \in Resolutions, d \in 0 .. today : Snapshot(res, DayStart(d)))
                                  \/ ReadRows \/ ReadEnds))

\* The database gives every user a clean connection, and the services a role without DDL.
DatabaseSafe == ConnectionsClean /\ RoleFenced
=============================================================================
