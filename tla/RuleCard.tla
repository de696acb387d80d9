------------------------------ MODULE RuleCard ------------------------------
(***************************************************************************)
(* The rules card of a device (ClosedLoopActions.tsx, closed-loop-flow.ts  *)
(* and the Server Functions of device-actions.ts).  The snapshot the page  *)
(* was rendered with is the truth; over it the card keeps, for each rule,  *)
(* the last response the server accepted and the write under way.  Other   *)
(* operators change the same rules, responses get lost, a write nobody     *)
(* waits for any more is made late, and a refresh of the page lands        *)
(* between any two of these.                                               *)
(*                                                                         *)
(* The service that stores the rules is not in the repository: it is       *)
(* modelled from its client, as rules with a version each write raises.    *)
(* A rule is its version and its switch; version 0 is no rule.             *)
(***************************************************************************)
EXTENDS Naturals

CONSTANTS Rules,
          NewRule,       \* the rule the composer may create
          MaxVersion,    \* bound: writes to one rule
          MaxSnapshots   \* bound: refreshes of the page

ASSUME RuleCardAssumption == NewRule \in Rules /\ MaxVersion \in Nat /\ MaxSnapshots \in Nat

VARIABLES
  rules,      \* the rules as the service has them
  operator,   \* the person may change them
  versioned,  \* the service sends versions
  snapshot,   \* the rules of the newest render, and permissions.edit_actions
  local,      \* LocalRules
  writes,     \* the write under way for each rule
  adrift,     \* writes whose caller has given up
  refresh,    \* the refresh of the page under way, and whether another was asked for
  composer,
  told        \* the newest version of each rule a write, a snapshot or its creation told

cardVars == <<rules, operator, versioned, snapshot, local, writes, adrift, refresh, composer, told>>

NoRule == [version |-> 0, enabled |-> FALSE]
Exists(a) == a.version # 0
NoConfirmed == [action |-> NoRule, generation |-> 0]
NoAttempt == [action |-> NoRule, state |-> "none"]
NO_LOCAL_RULES ==
  [confirmed |-> [r \in Rules |-> NoConfirmed], attempt |-> [r \in Rules |-> NoAttempt],
   added |-> [r \in Rules |-> NoRule], generation |-> 0]
NoWrite == [pc |-> "none", enabled |-> FALSE, generation |-> 0, answer |-> NoRule]
NoRefresh == [pc |-> "none", rules |-> [r \in Rules |-> NoRule], may |-> TRUE, again |-> FALSE]
Closed == [open |-> FALSE, proposal |-> "none", pending |-> "none", answer |-> NoRule]

CardInit ==
  /\ rules \in [Rules -> {NoRule, [version |-> 1, enabled |-> TRUE]}]
  /\ \A r \in Rules \ {NewRule} : Exists(rules[r])
  /\ operator = TRUE /\ versioned \in BOOLEAN
  /\ snapshot = [rules |-> rules, may |-> TRUE] /\ local = NO_LOCAL_RULES
  /\ writes = [r \in Rules |-> NoWrite] /\ adrift = {} /\ refresh = NoRefresh /\ composer = Closed
  /\ told = [r \in Rules |-> rules[r].version]
Newest(a, b) == IF a > b THEN a ELSE b

(***************************************************************************)
(* closed-loop-flow.ts.                                                    *)
(***************************************************************************)

\* Whether the snapshot's copy is at least as new as a response: by version if there is one,
\* otherwise by the generation of the snapshot.
Supersedes(server, confirmed, generation) ==
  /\ Exists(server)
  /\ IF versioned THEN server.version >= confirmed.action.version ELSE generation > confirmed.generation

\* What is shown of a rule without the attempt under way.
Base(server, l, r) ==
  IF Exists(l.confirmed[r].action) /\ ~Supersedes(server, l.confirmed[r], l.generation)
  THEN l.confirmed[r].action
  ELSE IF Exists(server) THEN server ELSE l.added[r]

\* mergeRules and resolve: the action a row shows and its status.
Row(r) ==
  CASE local.attempt[r].state = "writing" -> local.attempt[r]
    [] OTHER -> [action |-> Base(snapshot.rules[r], local, r), state |-> local.attempt[r].state]

\* A snapshot drops the responses it supersedes, the attempts whose outcome is unknown and
\* the additions it carries; a write under way keeps its optimistic state.
Reconcile(server, l) ==
  LET generation == l.generation + 1
  IN  [confirmed |-> [r \in Rules |->
         IF Supersedes(server[r], l.confirmed[r], generation) THEN NoConfirmed ELSE l.confirmed[r]],
       attempt |-> [r \in Rules |-> IF l.attempt[r].state = "writing" THEN l.attempt[r] ELSE NoAttempt],
       added |-> [r \in Rules |-> IF Exists(server[r]) THEN NoRule ELSE l.added[r]],
       generation |-> generation]

StartWrite(l, r, action) == [l EXCEPT !.attempt[r] = [action |-> action, state |-> "writing"]]

\* An accepted response becomes the baseline, unless a snapshot that arrived since the write
\* began supersedes it; then an earlier response stays if the snapshot does not supersede it.
FinishWrite(l, r, data, current, generationAtStart) ==
  LET settled == [action |-> data, generation |-> generationAtStart]
      stale == l.generation # generationAtStart /\ Supersedes(current, settled, l.generation)
  IN  [l EXCEPT !.attempt[r] = NoAttempt, !.confirmed[r] =
         IF ~stale THEN [action |-> data, generation |-> l.generation]
         ELSE IF Supersedes(current, @, l.generation) THEN NoConfirmed ELSE @]

\* Mutant: a refused second click erases what the first one was told.
RefuseWrite_All(l, r) == [l EXCEPT !.attempt[r] = NoAttempt, !.confirmed[r] = NoConfirmed]

\* A refusal removes the attempt and nothing else.
RefuseWrite(l, r) == [l EXCEPT !.attempt[r] = NoAttempt]

LoseWrite(l, r, action) == [l EXCEPT !.attempt[r] = [action |-> action, state |-> "unknown"]]
WithAdded(l, r, action) == [l EXCEPT !.added[r] = action]

(***************************************************************************)
(* The service.                                                            *)
(***************************************************************************)

Written(r, enabled) == [version |-> rules[r].version + 1, enabled |-> enabled]
MayWrite(r) == Exists(rules[r]) /\ rules[r].version < MaxVersion

\* Another operator writes, or the person loses the role.
ElsewhereWritten(r) ==
  /\ MayWrite(r) /\ rules' = [rules EXCEPT ![r] = Written(r, ~rules[r].enabled)]
  /\ UNCHANGED <<operator, versioned, snapshot, local, writes, adrift, refresh, composer, told>>

RoleLost ==
  /\ operator /\ operator' = FALSE
  /\ UNCHANGED <<rules, versioned, snapshot, local, writes, adrift, refresh, composer, told>>

\* A write whose caller has given up is made after all, or never.
LateWrite(w) ==
  /\ w \in adrift /\ adrift' = adrift \ {w}
  /\ \/ operator /\ MayWrite(w[1]) /\ rules' = [rules EXCEPT ![w[1]] = Written(w[1], w[2])]
     \/ UNCHANGED rules
  /\ UNCHANGED <<operator, versioned, snapshot, local, writes, refresh, composer, told>>

(***************************************************************************)
(* The switch of a rule.                                                   *)
(***************************************************************************)

Toggle(r) ==
  /\ snapshot.may /\ Exists(Row(r).action) /\ Row(r).state = "none" /\ writes[r] = NoWrite
  /\ local.generation < MaxSnapshots
  /\ LET next == [Row(r).action EXCEPT !.enabled = ~@]
     IN  /\ local' = StartWrite(local, r, next)
         /\ writes' = [writes EXCEPT ![r] = [NoWrite EXCEPT !.pc = "sent", !.enabled = next.enabled,
                                                            !.generation = local.generation]]
  /\ UNCHANGED <<rules, operator, versioned, snapshot, adrift, refresh, composer, told>>

\* setActionEnabled at the service: accepted, or refused (403, 409, not implemented).
ToggleHandled(r) ==
  /\ writes[r].pc = "sent"
  /\ \/ /\ operator /\ MayWrite(r)
        /\ rules' = [rules EXCEPT ![r] = Written(r, writes[r].enabled)]
        /\ writes' = [writes EXCEPT ![r].pc = "accepted", ![r].answer = rules'[r]]
     \/ writes' = [writes EXCEPT ![r].pc = "refused"] /\ UNCHANGED rules
  /\ UNCHANGED <<operator, versioned, snapshot, local, adrift, refresh, composer, told>>

Asked == IF refresh.pc = "none" THEN [refresh EXCEPT !.pc = "asked"] ELSE [refresh EXCEPT !.again = TRUE]

ToggleSettled(r) ==
  /\ writes[r].pc # "none" /\ writes' = [writes EXCEPT ![r] = NoWrite]
  /\ \/ /\ writes[r].pc = "accepted"
        /\ local' = FinishWrite(local, r, writes[r].answer, snapshot.rules[r], writes[r].generation)
        /\ told' = [told EXCEPT ![r] = Newest(@, writes[r].answer.version)]
        /\ UNCHANGED <<adrift, refresh>>
     \/ writes[r].pc = "refused" /\ local' = RefuseWrite(local, r) /\ UNCHANGED <<told, adrift, refresh>>
     \/ /\ local' = LoseWrite(local, r, local.attempt[r].action) /\ refresh' = Asked
        /\ adrift' = IF writes[r].pc = "sent" THEN adrift \cup {<<r, writes[r].enabled>>} ELSE adrift
        /\ UNCHANGED told
  /\ UNCHANGED <<rules, operator, versioned, snapshot, composer>>

(***************************************************************************)
(* The refresh of the page: one at a time, read by the server and shown    *)
(* by the tab later.                                                       *)
(***************************************************************************)

RefreshAsked ==
  /\ refresh.pc = "none" /\ local.generation < MaxSnapshots /\ refresh' = Asked
  /\ UNCHANGED <<rules, operator, versioned, snapshot, local, writes, adrift, composer, told>>

RefreshRead ==
  /\ refresh.pc = "asked" /\ refresh' = [refresh EXCEPT !.pc = "read", !.rules = rules, !.may = operator]
  /\ UNCHANGED <<rules, operator, versioned, snapshot, local, writes, adrift, composer, told>>

RefreshShown ==
  /\ refresh.pc = "read" /\ snapshot' = [rules |-> refresh.rules, may |-> refresh.may]
  /\ local' = Reconcile(refresh.rules, local)
  /\ told' = [r \in Rules |-> Newest(told[r], refresh.rules[r].version)]
  /\ refresh' = [NoRefresh EXCEPT !.pc = IF refresh.again /\ local.generation + 1 < MaxSnapshots THEN "asked" ELSE "none"]
  /\ composer' = IF refresh.may THEN composer ELSE Closed
  /\ UNCHANGED <<rules, operator, versioned, writes, adrift>>

(***************************************************************************)
(* The composer: words, a proposal, and its confirmation.                  *)
(***************************************************************************)

ComposerOpens ==
  /\ snapshot.may /\ ~composer.open /\ composer' = [composer EXCEPT !.open = TRUE]
  /\ UNCHANGED <<rules, operator, versioned, snapshot, local, writes, adrift, refresh, told>>

\* The service reads the words, and may find issues with them; or the call fails.
Propose ==
  /\ composer.open /\ composer.pending = "none" /\ ~Exists(rules[NewRule])
  /\ \E p \in {"ready", "blocked", "none"} : composer' = [composer EXCEPT !.proposal = p]
  /\ UNCHANGED <<rules, operator, versioned, snapshot, local, writes, adrift, refresh, told>>

Confirm ==
  /\ composer.open /\ composer.proposal = "ready" /\ composer.pending = "none"
  /\ composer' = [composer EXCEPT !.pending = "confirm"]
  /\ UNCHANGED <<rules, operator, versioned, snapshot, local, writes, adrift, refresh, told>>

\* confirmAction at the service: idempotent on the proposal; or refused (expired, issues, role).
ConfirmHandled ==
  /\ composer.pending = "confirm"
  /\ \/ /\ operator
        /\ rules' = IF Exists(rules[NewRule]) THEN rules
                    ELSE [rules EXCEPT ![NewRule] = [version |-> 1, enabled |-> TRUE]]
        /\ composer' = [composer EXCEPT !.pending = "accepted", !.answer = rules'[NewRule]]
     \/ composer' = [composer EXCEPT !.pending = "refused"] /\ UNCHANGED rules
  /\ UNCHANGED <<operator, versioned, snapshot, local, writes, adrift, refresh, told>>

\* A refusal drops the proposal; an unknown outcome keeps it for a retry.
ConfirmSettled ==
  /\ composer.pending \in {"accepted", "refused"}
  /\ \/ /\ composer.pending = "accepted" /\ composer' = Closed
        /\ local' = WithAdded(local, NewRule, composer.answer)
        /\ told' = [told EXCEPT ![NewRule] = Newest(@, 1)]
     \/ /\ composer.pending = "refused"
        /\ composer' = [composer EXCEPT !.pending = "none", !.proposal = "none"]
        /\ UNCHANGED <<local, told>>
     \/ composer' = [composer EXCEPT !.pending = "none", !.answer = NoRule] /\ UNCHANGED <<local, told>>
  /\ UNCHANGED <<rules, operator, versioned, snapshot, writes, adrift, refresh>>

\* Other words, or Cancel.  A confirmation under way is still answered.
WordsChanged ==
  /\ composer.open /\ composer.pending \notin {"accepted", "refused"}
  /\ \/ composer' = [composer EXCEPT !.proposal = "none"]
     \/ composer.pending = "none" /\ composer' = Closed
  /\ UNCHANGED <<rules, operator, versioned, snapshot, local, writes, adrift, refresh, told>>

CardNext ==
  \/ \E r \in Rules : ElsewhereWritten(r) \/ Toggle(r) \/ ToggleHandled(r) \/ ToggleSettled(r)
  \/ RoleLost \/ (\E w \in adrift : LateWrite(w))
  \/ RefreshAsked \/ RefreshRead \/ RefreshShown
  \/ ComposerOpens \/ Propose \/ Confirm \/ ConfirmHandled \/ ConfirmSettled \/ WordsChanged

\* With versioned rules the card never goes back: a row without a write under way shows the
\* newest version a response to a switch or a snapshot has told it of, and a rule whose
\* creation was confirmed stays on the card, whatever the order of writes, refusals, lost responses and
\* refreshes (ClosedLoopActions.tsx 28-31, closed-loop-flow.ts).
NewestShown ==
  versioned => \A r \in Rules :
    Row(r).state # "writing" /\ told[r] > 0 => Row(r).action.version >= told[r]
=============================================================================
