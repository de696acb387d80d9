--------------------------- MODULE MCIntakeTurns ---------------------------
(***************************************************************************)
(* Small instances of IntakeTurns for TLC.  A behaviour plays one scene,   *)
(* chosen at the start; a scene bounds what may happen in it.              *)
(*   race      two gateways, two calls of intake and one fault             *)
(*   handover  the same without faults, with a database clock that steps   *)
(*   recovery  one gateway, a fault, a provider that is slow or fails for  *)
(*             a while, and an owner who keeps refetching                  *)
(***************************************************************************)
EXTENDS IntakeTurns
CONSTANTS m1, m2, g1, g2, k1, k2

VARIABLE scene

Asking == [caps |-> FALSE, question |-> TRUE]
AnyAnswer == [caps : BOOLEAN, question : BOOLEAN]

\* Ids, gateways and calls are interchangeable: the first one is used first.
InOrder ==
  /\ posted'[m2].at # 0 => posted'[m1].at # 0
  /\ sched'[g2] # Idle => posted'[m1].at # 0
  /\ call'[k1] = Free /\ call[k1] = Free => call'[k2] = Free \/ call[k2] # Free

\* The clock is right, the provider neither slow nor failing, and every answer asks.
Early == \A c \in Ids : posted'[c].at \in {0, 1, 3}
Smooth ==
  \A k \in Calls : LET r == call'[k] IN
    /\ r.budget = "reserve" => call[k].budget = "reserve" \/ faults' # faults
    /\ r.next \notin {None, Said} =>
         r.next.new /\ r.next.spec = Decided(Base(r.base), r.rounds, Asking)

Within ==
  CASE scene = "race" -> InOrder /\ Early /\ Smooth /\ recovery'[g2] = "none"
    [] scene = "handover" -> InOrder /\ faults' = 0 /\ Smooth /\ recovery' = recovery
    [] scene = "recovery" -> InOrder /\ sched'[g2] = Idle /\ recovery'[g2] = "none" /\ Early

MCInit == Init /\ scene \in {"race", "handover", "recovery"}
MCNext == Next /\ Within /\ UNCHANGED scene

\* The fairness of IntakeTurns, of the steps the scene leaves possible; only in recovery
\* does the owner refetch.
Fair(A) == scene # "race" /\ A /\ Within
Refetched(A) == scene = "recovery" /\ A /\ Within
MCSpec ==
  /\ MCInit /\ [][MCNext]_<<vars, scene>>
  /\ \A g \in Gateways : WF_vars(Fair(Send(g))) /\ WF_vars(Fair(Receive(g)))
  /\ \A k \in Calls : WF_vars(Fair(Turn(k)))
  /\ WF_vars(Refetched(Recover(g1)))
  /\ \A c \in Ids : WF_vars(Refetched(Age(c)))

\* EveryQuestionAnswered where the scene is fair: without a fault nobody has to refetch,
\* after one the owner's refetch brings the turn back (handler.ts, build-routes.ts).
NoQuestionLeft == scene # "race" => EveryQuestionAnswered
============================================================================
