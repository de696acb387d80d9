------------------------------ MODULE AppRole -------------------------------
(***************************************************************************)
(* The migration job (migrate.ts): the advisory lock that queues           *)
(* concurrent runs, the migrations, and the role the services log in with, *)
(* which must not be able to change the schema.                            *)
(*                                                                         *)
(* A run provisions the role in one transaction and, when the role turns   *)
(* out to be unsafe, takes its login away after that transaction has been  *)
(* rolled back.  Others may grant the role something at any time; their    *)
(* grants are visible to the statements that come after them.              *)
(***************************************************************************)
EXTENDS Naturals

CONSTANTS Runs,      \* executions of the job, some of them at once
          Members,   \* memberships the role may hold, each with its grantor
          Own,       \* attributes and privileges of its own that allow DDL
          ToAll,     \* the same, held through PUBLIC
          Revocable, \* the memberships whose grantor the migrator can speak for
          NoRun,
          MaxGrants  \* bound

ASSUME AppRoleAssumption == NoRun \notin Runs

VARIABLES
  role,     \* the role as committed
  applied,  \* the migrations have been committed
  lock,     \* the run that holds the advisory lock
  step,     \* per run: the step before it
  taken,    \* rights the open transaction has taken away
  grants,   \* grants made by others
  late,     \* rights granted since the check of the last run that finished, and
  since,    \* since the check of the run under way
  verdict   \* of the last run that came to one

roleVars == <<role, applied, lock, step, taken, grants, late, since, verdict>>

Rights == Members \cup Own \cup ToAll
Absent == [exists |-> FALSE, login |-> FALSE, rights |-> ToAll]

RoleInit ==
  /\ role \in {Absent} \cup [exists : {TRUE}, login : {TRUE}, rights : SUBSET Rights]
  /\ applied = FALSE /\ lock = NoRun /\ taken = {} /\ grants = 0
  /\ late = {} /\ since = {} /\ verdict = "none"
  /\ step = [r \in Runs |-> "start"]

\* pg_advisory_lock waits for the run that has it.
Lock(r) ==
  /\ step[r] = "start" /\ lock = NoRun
  /\ lock' = r /\ step' = [step EXCEPT ![r] = "migrate"]
  /\ UNCHANGED <<role, applied, taken, grants, late, since, verdict>>

\* client.end, or a crash: the session is over, its transaction rolled back, the lock free.
End(r) == lock' = NoRun /\ taken' = {} /\ step' = [step EXCEPT ![r] = "end"]

\* The pending migrations, all or nothing; then the role, if the job was given one.
Migrate(r) ==
  /\ step[r] = "migrate"
  /\ \/ applied' = TRUE /\ step' = [step EXCEPT ![r] = "alter"] /\ UNCHANGED <<lock, taken>>
     \/ applied' \in {applied, TRUE} /\ End(r)
  /\ UNCHANGED <<role, grants, late, since, verdict>>

\* BEGIN, CREATE or ALTER ROLE, and REVOKE of each membership by its grantor; one that fails
\* is rolled back to its savepoint.
RevokeMemberships(r) ==
  /\ step[r] = "alter"
  /\ taken' = role.rights \cap Revocable
  /\ step' = [step EXCEPT ![r] = "recheck"]
  /\ UNCHANGED <<role, applied, lock, grants, late, since, verdict>>

\* The memberships are listed again; whatever is left is not the migrator's to revoke.
Recheck(r) ==
  /\ step[r] = "recheck"
  /\ since' = {}
  /\ step' = [step EXCEPT ![r] = IF (role.rights \cap Members) \ taken # {} THEN "unsafe" ELSE "grant"]
  /\ UNCHANGED <<role, applied, lock, taken, grants, late, verdict>>

\* CREATE is revoked from PUBLIC, the schemas are granted for DML, and assertNoDdl looks for
\* any right of its own that is left.
AssertNoDdl(r) ==
  /\ step[r] = "grant"
  /\ taken' = taken \cup (role.rights \cap ToAll)
  /\ since' = since \cap Members
  /\ step' = [step EXCEPT ![r] = IF role.rights \cap Own # {} THEN "unsafe" ELSE "commit"]
  /\ UNCHANGED <<role, applied, lock, grants, late, verdict>>

CommitRole(r) ==
  /\ step[r] = "commit"
  /\ role' = [exists |-> TRUE, login |-> TRUE, rights |-> role.rights \ taken]
  /\ late' = since /\ verdict' = "clean" /\ End(r)
  /\ UNCHANGED <<applied, grants, since>>

\* Any other failure, a crash, or a NOLOGIN that fails.
Abort(r) ==
  /\ step[r] \in {"alter", "recheck", "grant", "commit", "unsafe"} /\ End(r)
  /\ UNCHANGED <<role, applied, grants, late, since, verdict>>

\* ROLLBACK, then NOLOGIN in a statement of its own, when there is such a role.
DisableLogin(r) ==
  /\ step[r] = "unsafe"
  /\ role' = [role EXCEPT !.login = FALSE]
  /\ verdict' = "unsafe" /\ End(r)
  /\ UNCHANGED <<applied, grants, late, since>>

\* Somebody grants a right; the grant of one that is being taken away waits.
GrantRight(right) ==
  /\ grants < MaxGrants /\ grants' = grants + 1
  /\ role.exists /\ right \notin role.rights \cup taken
  /\ role' = [role EXCEPT !.rights = @ \cup {right}]
  /\ late' = late \cup {right} /\ since' = since \cup {right}
  /\ UNCHANGED <<applied, lock, step, taken, verdict>>

RoleNext ==
  \/ \E r \in Runs : \/ Lock(r) \/ Migrate(r) \/ RevokeMemberships(r) \/ Recheck(r) \/ AssertNoDdl(r)
                     \/ CommitRole(r) \/ Abort(r) \/ DisableLogin(r)
  \/ \E right \in Rights : GrantRight(right)

\* Once a run has come to a verdict, clean or unsafe, a role that can log in has no right that
\* allows it to change the schema, but for those granted after the last check; later runs that
\* fail or crash half way do not change that.
RoleFenced == verdict # "none" /\ role.login => role.rights \subseteq late
=============================================================================
