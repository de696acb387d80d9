------------------------- MODULE Monitoring_proofs --------------------------
(***************************************************************************)
(* Proofs about Monitoring: a connection goes back to the pool clean, the  *)
(* role of the services cannot change the schema, no accepted reading is   *)
(* lost on its way into the rollups and out of retention, and what the     *)
(* portal tells about the devices is complete and consistent.              *)
(***************************************************************************)
EXTENDS Monitoring, FiniteSetTheorems, SequenceTheorems, TLAPS

(***************************************************************************)
(* The migration job.                                                      *)
(***************************************************************************)

Working == {"migrate", "alter", "recheck", "grant", "commit", "unsafe"}

\* The runs queue at the lock, and what a run knows of the role's rights outlives the grants
\* others make meanwhile.
RoleInv ==
  /\ step \in [Runs -> Working \cup {"start", "end"}]
  /\ role \in [exists : BOOLEAN, login : BOOLEAN, rights : SUBSET Rights]
  /\ \A r \in Runs : step[r] \in Working => lock = r
  /\ \A r \in Runs : step[r] = "grant" => (role.rights \cap Members) \ taken \subseteq since
  /\ \A r \in Runs : step[r] = "commit" => role.rights \ taken \subseteq since
  /\ RoleFenced

LEMMA RoleInitially ==
  ASSUME RoleInit
  PROVE  RoleInv
  <1>1. role \in [exists : BOOLEAN, login : BOOLEAN, rights : SUBSET Rights]
    <2>1. CASE role = Absent
      BY <2>1 DEF Absent, Rights
    <2>2. CASE role \in [exists : {TRUE}, login : {TRUE}, rights : SUBSET Rights]
      BY <2>2
    <2> QED
      BY <2>1, <2>2 DEF RoleInit
  <1> QED
    BY <1>1 DEF RoleInit, RoleInv, RoleFenced, Working

LEMMA RoleStep ==
  ASSUME RoleInv, RoleNext
  PROVE  RoleInv'
  <1> USE DEF RoleInv, RoleFenced
  <1>1. ASSUME NEW r \in Runs, Lock(r) PROVE RoleInv'
    <2>1. \A q \in Runs : step[q] \notin Working
      BY <1>1, AppRoleAssumption DEF Lock
    <2> QED
      BY <1>1, <2>1 DEF Lock, Working
  <1>2. ASSUME NEW r \in Runs, step[r] \in Working, NEW s \in Working \cup {"end"}, step' = [step EXCEPT ![r] = s],
               lock' = lock \/ s = "end",
               role' \in [exists : BOOLEAN, login : BOOLEAN, rights : SUBSET Rights],
               s = "grant" => (role'.rights \cap Members) \ taken' \subseteq since',
               s = "commit" => role'.rights \ taken' \subseteq since',
               RoleFenced'
        PROVE  RoleInv'
    <2>1. \A q \in Runs \ {r} : step[q] \notin Working /\ step'[q] = step[q]
      BY <1>2
    <2>2. step'[r] = s
      BY <1>2
    <2> QED
      BY <1>2, <2>1, <2>2 DEF Working
  <1>3. ASSUME NEW r \in Runs, Migrate(r) PROVE RoleInv'
    BY <1>2, <1>3 DEF Migrate, End, Working
  <1>4. ASSUME NEW r \in Runs, RevokeMemberships(r) PROVE RoleInv'
    BY <1>2, <1>4 DEF RevokeMemberships, Working
  <1>5. ASSUME NEW r \in Runs, Recheck(r) PROVE RoleInv'
    BY <1>2, <1>5 DEF Recheck, Working
  <1>6. ASSUME NEW r \in Runs, AssertNoDdl(r) PROVE RoleInv'
    <2>1. role.rights \cap Own = {} => role.rights \ taken' \subseteq since'
      BY <1>6 DEF AssertNoDdl, Rights
    <2> QED
      BY <1>2, <1>6, <2>1 DEF AssertNoDdl, Working
  <1>7. ASSUME NEW r \in Runs, CommitRole(r) PROVE RoleInv'
    BY <1>2, <1>7 DEF CommitRole, End, Working
  <1>8. ASSUME NEW r \in Runs, Abort(r) PROVE RoleInv'
    BY <1>2, <1>8 DEF Abort, End, Working
  <1>9. ASSUME NEW r \in Runs, DisableLogin(r) PROVE RoleInv'
    BY <1>2, <1>9 DEF DisableLogin, End, Working
  <1>10. ASSUME NEW right \in Rights, GrantRight(right) PROVE RoleInv'
    <2>1. role'.rights = role.rights \cup {right} /\ role'.login = role.login
      BY <1>10 DEF GrantRight
    <2> QED
      BY <1>10, <2>1 DEF GrantRight
  <1> QED
    BY <1>1, <1>3, <1>4, <1>5, <1>6, <1>7, <1>8, <1>9, <1>10 DEF RoleNext

(***************************************************************************)
(* Connections.                                                            *)
(***************************************************************************)

Waiting == {"begin", "work", "commit"}
Using == Waiting \cup {"body", "failed", "drain", "rollback", "release"}
Statement == [by : Leases, statement : Waiting \cup {"rollback"}]
LeaseRow == [pc : Using \cup {"rest"}, kind : Kinds, conn : Conns \cup {NoConn},
             closed : BOOLEAN, loose : BOOLEAN, discard : BOOLEAN]
ConnRow == [by : Leases \cup {"pool"}, tx : {"none", "open", "aborted"}, wire : Seq(Statement)]

\* What a user u with lease l and the connection k it has have in common.  A user that has to
\* give back its connection undestroyed sends nothing before it has its answer, and a turn
\* whose work goes on is closed before it does.
Has(u, l, k) ==
  /\ k.by = u /\ \A i \in DOMAIN k.wire : k.wire[i].by = u
  /\ l.pc \in Waiting => k.wire = <<[by |-> u, statement |-> l.pc]>> /\ ~l.loose
  /\ l.pc = "body" => k.wire = <<>> /\ ~l.loose
  /\ l.pc = "failed" /\ l.kind = "session" /\ ~l.discard => k.wire = <<>>
  /\ l.pc = "drain" => l.closed
  /\ l.pc = "rollback" /\ ~l.discard => k.wire = <<[by |-> u, statement |-> "rollback"]>>
  /\ l.kind # "turn" => ~l.loose
  /\ l.pc \in {"drain", "rollback", "release"} /\ l.loose => l.closed
  /\ l.pc = "release" /\ ~l.discard => k.wire = <<>> /\ k.tx = "none"

ConnInv ==
  /\ lease \in [Leases -> LeaseRow] /\ conn \in [Conns -> ConnRow]
  /\ \A u \in Leases : lease[u].pc # "rest" => lease[u].conn \in Conns /\ Has(u, lease[u], conn[lease[u].conn])
  /\ \A u \in Leases : lease[u].pc = "rest" /\ lease[u].loose => lease[u].closed
  /\ \A c \in Conns : conn[c].by = "pool" => conn[c].tx = "none" /\ conn[c].wire = <<>>
  /\ \A c \in Conns : conn[c].by # "pool" => lease[conn[c].by].pc # "rest" /\ lease[conn[c].by].conn = c

LEMMA ConnInitially ==
  ASSUME ConnInit
  PROVE  ConnInv
  <1>1. Unused \in LeaseRow /\ Unused.pc = "rest" /\ ~Unused.loose
    BY DEF Unused, LeaseRow, Kinds
  <1>2. Fresh \in ConnRow /\ Fresh.by = "pool" /\ Fresh.tx = "none" /\ Fresh.wire = <<>>
    BY DEF Fresh, ConnRow
  <1> QED
    BY <1>1, <1>2 DEF ConnInit, ConnInv

LEMMA ConnClean ==
  ASSUME ConnInv
  PROVE  ConnectionsClean
  <1>1. ASSUME NEW c \in Conns, NEW i \in DOMAIN conn[c].wire PROVE conn[c].wire[i].by = conn[c].by
    <2>1. CASE conn[c].by = "pool"
      BY <1>1, <2>1 DEF ConnInv
    <2>2. CASE conn[c].by # "pool"
      <3>1. conn[c].by \in Leases
        BY <2>2 DEF ConnInv, ConnRow
      <3>2. Has(conn[c].by, lease[conn[c].by], conn[c])
        BY <2>2, <3>1 DEF ConnInv
      <3> QED
        BY <1>1, <3>2 DEF Has
    <2> QED
      BY <2>1, <2>2
  <1>2. PooledClean
    BY DEF ConnInv, PooledClean
  <1> QED
    BY <1>1, <1>2 DEF ConnectionsClean, OwnStatements

\* A user goes on with its connection.
LEMMA GoesOn ==
  ASSUME ConnInv, NEW u \in Leases, lease[u].pc # "rest", NEW l \in LeaseRow, NEW k \in ConnRow,
         l.pc # "rest", l.conn = lease[u].conn, Has(u, l, k),
         lease' = [lease EXCEPT ![u] = l], conn' = [conn EXCEPT ![lease[u].conn] = k]
  PROVE  ConnInv'
  <1> DEFINE c == lease[u].conn
  <1>1. /\ c \in Conns /\ conn[c].by = u /\ k.by = u /\ u # "pool"
        /\ lease \in [Leases -> LeaseRow] /\ conn \in [Conns -> ConnRow]
    BY ConnectionsAssumption DEF ConnInv, Has
  <1>2. /\ lease'[u] = l /\ \A v \in Leases \ {u} : lease'[v] = lease[v]
        /\ conn'[c] = k /\ \A d \in Conns \ {c} : conn'[d] = conn[d]
        /\ lease' \in [Leases -> LeaseRow] /\ conn' \in [Conns -> ConnRow]
    BY <1>1
  <1>3. ASSUME NEW v \in Leases \ {u}, lease[v].pc # "rest" PROVE lease[v].conn \in Conns \ {c}
    <2>1. lease[v].conn \in Conns /\ conn[lease[v].conn].by = v
      BY <1>3 DEF ConnInv, Has
    <2> QED
      BY <1>1, <2>1
  <1>4. ASSUME NEW d \in Conns \ {c}, conn[d].by = u PROVE FALSE
    <2>1. lease[conn[d].by].conn = d
      BY <1>1, <1>4 DEF ConnInv
    <2> QED
      BY <1>4, <2>1
  <1> HIDE DEF c
  <1>5. \A v \in Leases : lease'[v].pc # "rest" => lease'[v].conn \in Conns /\ Has(v, lease'[v], conn'[lease'[v].conn])
    <2>1. ASSUME NEW v \in Leases, lease'[v].pc # "rest", v # u
          PROVE  lease'[v].conn \in Conns /\ Has(v, lease'[v], conn'[lease'[v].conn])
      BY <1>2, <1>3, <2>1 DEF ConnInv
    <2>2. lease'[u].conn \in Conns /\ Has(u, lease'[u], conn'[lease'[u].conn])
      BY <1>1, <1>2 DEF c
    <2> QED
      BY <2>1, <2>2
  <1>6. \A v \in Leases : lease'[v].pc = "rest" /\ lease'[v].loose => lease'[v].closed
    BY <1>2 DEF ConnInv
  <1>7. \A d \in Conns : conn'[d].by = "pool" => conn'[d].tx = "none" /\ conn'[d].wire = <<>>
    BY <1>1, <1>2 DEF ConnInv
  <1>8. \A d \in Conns : conn'[d].by # "pool" => lease'[conn'[d].by].pc # "rest" /\ lease'[conn'[d].by].conn = d
    <2>1. ASSUME NEW d \in Conns \ {c}, conn[d].by # "pool"
          PROVE  lease'[conn[d].by].pc # "rest" /\ lease'[conn[d].by].conn = d
      <3>1. conn[d].by \in Leases \ {u}
        BY <1>1, <1>4, <2>1 DEF ConnRow
      <3> QED
        BY <1>2, <2>1, <3>1 DEF ConnInv
    <2>2. lease'[conn'[c].by].pc # "rest" /\ lease'[conn'[c].by].conn = c
      BY <1>1, <1>2 DEF c
    <2> QED
      BY <1>2, <2>1, <2>2
  <1> QED
    BY <1>2, <1>5, <1>6, <1>7, <1>8 DEF ConnInv

\* A user gives back its connection.
LEMMA GivesBack ==
  ASSUME ConnInv, NEW u \in Leases, lease[u].pc # "rest", NEW l \in LeaseRow, NEW k \in ConnRow,
         l.pc = "rest", l.loose => l.closed, k.by = "pool", k.tx = "none", k.wire = <<>>,
         lease' = [lease EXCEPT ![u] = l], conn' = [conn EXCEPT ![lease[u].conn] = k]
  PROVE  ConnInv'
  <1> DEFINE c == lease[u].conn
  <1>1. /\ c \in Conns /\ conn[c].by = u /\ u # "pool"
        /\ lease \in [Leases -> LeaseRow] /\ conn \in [Conns -> ConnRow]
    BY ConnectionsAssumption DEF ConnInv, Has
  <1>2. /\ lease'[u] = l /\ \A v \in Leases \ {u} : lease'[v] = lease[v]
        /\ conn'[c] = k /\ \A d \in Conns \ {c} : conn'[d] = conn[d]
        /\ lease' \in [Leases -> LeaseRow] /\ conn' \in [Conns -> ConnRow]
    BY <1>1
  <1>3. ASSUME NEW v \in Leases \ {u}, lease[v].pc # "rest" PROVE lease[v].conn \in Conns \ {c}
    <2>1. lease[v].conn \in Conns /\ conn[lease[v].conn].by = v
      BY <1>3 DEF ConnInv, Has
    <2> QED
      BY <1>1, <2>1
  <1>4. ASSUME NEW d \in Conns \ {c}, conn[d].by = u PROVE FALSE
    <2>1. lease[conn[d].by].conn = d
      BY <1>1, <1>4 DEF ConnInv
    <2> QED
      BY <1>4, <2>1
  <1> HIDE DEF c
  <1>5. \A v \in Leases : lease'[v].pc # "rest" => lease'[v].conn \in Conns /\ Has(v, lease'[v], conn'[lease'[v].conn])
    BY <1>2, <1>3 DEF ConnInv
  <1>6. \A v \in Leases : lease'[v].pc = "rest" /\ lease'[v].loose => lease'[v].closed
    BY <1>2 DEF ConnInv
  <1>7. \A d \in Conns : conn'[d].by = "pool" => conn'[d].tx = "none" /\ conn'[d].wire = <<>>
    BY <1>1, <1>2 DEF ConnInv
  <1>8. \A d \in Conns : conn'[d].by # "pool" => lease'[conn'[d].by].pc # "rest" /\ lease'[conn'[d].by].conn = d
    <2>1. ASSUME NEW d \in Conns \ {c}, conn[d].by # "pool"
          PROVE  lease'[conn[d].by].pc # "rest" /\ lease'[conn[d].by].conn = d
      <3>1. conn[d].by \in Leases \ {u}
        BY <1>1, <1>4, <2>1 DEF ConnRow
      <3> QED
        BY <1>2, <2>1, <3>1 DEF ConnInv
    <2> QED
      BY <1>2, <2>1
  <1> QED
    BY <1>2, <1>5, <1>6, <1>7, <1>8 DEF ConnInv

\* A user at rest changes nothing but what it keeps of its old handle.
LEMMA StaysAtRest ==
  ASSUME ConnInv, NEW u \in Leases, lease[u].pc = "rest", NEW l \in LeaseRow,
         l.pc = "rest", l.loose => l.closed, lease' = [lease EXCEPT ![u] = l], conn' = conn
  PROVE  ConnInv'
  <1>1. lease \in [Leases -> LeaseRow] /\ conn \in [Conns -> ConnRow]
    BY DEF ConnInv
  <1>2. /\ lease'[u] = l /\ \A v \in Leases \ {u} : lease'[v] = lease[v]
        /\ lease' \in [Leases -> LeaseRow]
    BY <1>1
  <1>3. ASSUME NEW d \in Conns, conn[d].by # "pool" PROVE conn[d].by \in Leases \ {u}
    <2>1. conn[d].by \in Leases /\ lease[conn[d].by].pc # "rest"
      BY <1>1, <1>3 DEF ConnInv, ConnRow
    <2> QED
      BY <2>1
  <1>4. \A d \in Conns : conn[d].by # "pool" => lease'[conn[d].by].pc # "rest" /\ lease'[conn[d].by].conn = d
    BY <1>2, <1>3 DEF ConnInv
  <1> QED
    BY <1>1, <1>2, <1>4 DEF ConnInv

\* A user takes a connection from the pool.
LEMMA Takes ==
  ASSUME ConnInv, NEW u \in Leases, lease[u].pc = "rest", NEW c \in Conns, conn[c].by = "pool",
         NEW l \in LeaseRow, NEW k \in ConnRow, l.pc # "rest", l.conn = c, Has(u, l, k),
         lease' = [lease EXCEPT ![u] = l], conn' = [conn EXCEPT ![c] = k]
  PROVE  ConnInv'
  <1>1. lease \in [Leases -> LeaseRow] /\ conn \in [Conns -> ConnRow] /\ k.by = u /\ u # "pool"
    BY ConnectionsAssumption DEF ConnInv, Has
  <1>2. /\ lease'[u] = l /\ \A v \in Leases \ {u} : lease'[v] = lease[v]
        /\ conn'[c] = k /\ \A d \in Conns \ {c} : conn'[d] = conn[d]
        /\ lease' \in [Leases -> LeaseRow] /\ conn' \in [Conns -> ConnRow]
    BY <1>1
  <1>3. ASSUME NEW v \in Leases \ {u}, lease[v].pc # "rest" PROVE lease[v].conn \in Conns \ {c}
    <2>1. lease[v].conn \in Conns /\ conn[lease[v].conn].by = v
      BY <1>3 DEF ConnInv, Has
    <2> QED
      BY <2>1, ConnectionsAssumption
  <1>4. ASSUME NEW d \in Conns, conn[d].by # "pool" PROVE conn[d].by \in Leases \ {u}
    <2>1. conn[d].by \in Leases /\ lease[conn[d].by].pc # "rest"
      BY <1>1, <1>4 DEF ConnInv, ConnRow
    <2> QED
      BY <2>1
  <1>5. \A v \in Leases : lease'[v].pc # "rest" => lease'[v].conn \in Conns /\ Has(v, lease'[v], conn'[lease'[v].conn])
    <2>1. ASSUME NEW v \in Leases, lease'[v].pc # "rest", v # u
          PROVE  lease'[v].conn \in Conns /\ Has(v, lease'[v], conn'[lease'[v].conn])
      BY <1>2, <1>3, <2>1 DEF ConnInv
    <2> QED
      BY <1>2, <2>1
  <1>6. \A v \in Leases : lease'[v].pc = "rest" /\ lease'[v].loose => lease'[v].closed
    BY <1>2 DEF ConnInv
  <1>7. \A d \in Conns : conn'[d].by = "pool" => conn'[d].tx = "none" /\ conn'[d].wire = <<>>
    BY <1>1, <1>2 DEF ConnInv
  <1>8. \A d \in Conns : conn'[d].by # "pool" => lease'[conn'[d].by].pc # "rest" /\ lease'[conn'[d].by].conn = d
    <2>1. ASSUME NEW d \in Conns \ {c}, conn[d].by # "pool"
          PROVE  lease'[conn[d].by].pc # "rest" /\ lease'[conn[d].by].conn = d
      BY <1>2, <1>4, <2>1 DEF ConnInv
    <2> QED
      BY <1>1, <1>2, <2>1
  <1> QED
    BY <1>2, <1>5, <1>6, <1>7, <1>8 DEF ConnInv

LEMMA HasFacts ==
  ASSUME ConnInv, NEW u \in Leases, lease[u].pc # "rest"
  PROVE  /\ lease[u] \in LeaseRow /\ lease[u].conn \in Conns /\ conn[lease[u].conn] \in ConnRow
         /\ Has(u, lease[u], conn[lease[u].conn])
  BY DEF ConnInv

\* A statement is sent.
SentRow(k, u, statement) == [k EXCEPT !.wire = Append(k.wire, [by |-> u, statement |-> statement])]

LEMMA SentFacts ==
  ASSUME NEW k \in ConnRow, NEW u \in Leases, NEW statement \in Waiting \cup {"rollback"}
  PROVE  /\ SentRow(k, u, statement) \in ConnRow
         /\ SentRow(k, u, statement).by = k.by /\ SentRow(k, u, statement).tx = k.tx
         /\ k.wire = <<>> => SentRow(k, u, statement).wire = <<[by |-> u, statement |-> statement]>>
         /\ (\A i \in DOMAIN k.wire : k.wire[i].by = u) =>
              \A i \in DOMAIN SentRow(k, u, statement).wire : SentRow(k, u, statement).wire[i].by = u
  <1> DEFINE e == [by |-> u, statement |-> statement]
             w == Append(k.wire, e)
  <1>1. e \in Statement /\ e.by = u /\ k.wire \in Seq(Statement)
    BY DEF Statement, ConnRow
  <1>2. w \in Seq(Statement)
    BY <1>1, AppendProperties
  <1>3. /\ SentRow(k, u, statement) \in ConnRow /\ SentRow(k, u, statement).wire = w
        /\ SentRow(k, u, statement).by = k.by /\ SentRow(k, u, statement).tx = k.tx
    BY <1>2 DEF SentRow, ConnRow
  <1>4. k.wire = <<>> => w = <<e>>
    BY <1>1
  <1>5. ASSUME \A i \in DOMAIN k.wire : k.wire[i].by = u
        PROVE  \A i \in DOMAIN w : w[i].by = u
    <2>1. /\ DOMAIN k.wire = 1 .. Len(k.wire) /\ DOMAIN w = 1 .. Len(k.wire) + 1 /\ Len(k.wire) \in Nat
          /\ \A i \in 1 .. Len(k.wire) : w[i] = k.wire[i]
          /\ w[Len(k.wire) + 1] = e
      BY <1>1, AppendProperties, LenProperties
    <2> HIDE DEF w, e
    <2>2. \A i \in 1 .. Len(k.wire) + 1 : i \in 1 .. Len(k.wire) \/ i = Len(k.wire) + 1
      BY <2>1
    <2> QED
      BY <1>1, <1>5, <2>1, <2>2
  <1> HIDE DEF w, e
  <1> QED
    BY <1>3, <1>4, <1>5 DEF e

\* A user whose connection is idle sends a statement and waits for it.
LEMMA Sends ==
  ASSUME ConnInv, NEW u \in Leases, lease[u].pc # "rest", NEW l \in LeaseRow, NEW statement \in Waiting \cup {"rollback"},
         l.pc = statement, l.conn = lease[u].conn, l.kind = lease[u].kind,
         l.closed = lease[u].closed, l.loose = lease[u].loose, l.discard = lease[u].discard,
         ~l.loose \/ (l.closed /\ statement = "rollback"),
         statement \in Waiting \/ ~l.discard => conn[lease[u].conn].wire = <<>>,
         conn' = Sent(lease[u].conn, u, statement), lease' = [lease EXCEPT ![u] = l]
  PROVE  ConnInv'
  <1> DEFINE c == lease[u].conn
             k == SentRow(conn[c], u, statement)
  <1>1. /\ lease[u] \in LeaseRow /\ c \in Conns /\ conn[c] \in ConnRow /\ Has(u, lease[u], conn[c])
    BY HasFacts
  <1>2. /\ k \in ConnRow /\ k.by = conn[c].by
        /\ conn[c].wire = <<>> => k.wire = <<[by |-> u, statement |-> statement]>>
        /\ (\A i \in DOMAIN conn[c].wire : conn[c].wire[i].by = u) => \A i \in DOMAIN k.wire : k.wire[i].by = u
    BY <1>1, SentFacts
  <1>3. conn' = [conn EXCEPT ![lease[u].conn] = k]
    BY DEF Sent, SentRow
  <1> HIDE DEF k
  <1>4. Has(u, l, k)
    BY <1>1, <1>2 DEF Has, Waiting
  <1>5. l.pc # "rest"
    BY DEF Waiting
  <1> QED
    BY <1>3, <1>2, <1>4, <1>5, GoesOn

\* A user goes on, its connection as it was.
LEMMA Continues ==
  ASSUME ConnInv, NEW u \in Leases, lease[u].pc # "rest", NEW l \in LeaseRow,
         l.pc # "rest", l.conn = lease[u].conn, Has(u, l, conn[lease[u].conn]),
         lease' = [lease EXCEPT ![u] = l], conn' = conn
  PROVE  ConnInv'
  <1>1. conn[lease[u].conn] \in ConnRow /\ conn' = [conn EXCEPT ![lease[u].conn] = conn[lease[u].conn]]
    BY HasFacts DEF ConnInv
  <1> QED
    BY <1>1, GoesOn

LEMMA ShutDown ==
  ASSUME ConnInv, NEW u \in Leases, lease[u].pc # "rest", Destroyed(u)
  PROVE  ConnInv'
  <1>1. Unused \in LeaseRow /\ Unused.pc = "rest" /\ ~Unused.loose
    BY DEF Unused, LeaseRow, Kinds
  <1>2. Fresh \in ConnRow /\ Fresh.by = "pool" /\ Fresh.tx = "none" /\ Fresh.wire = <<>>
    BY DEF Fresh, ConnRow
  <1> QED
    BY <1>1, <1>2, GivesBack DEF Destroyed

LEMMA CheckoutStep ==
  ASSUME ConnInv, NEW u \in Leases, NEW c \in Conns, NEW kind \in Kinds, Checkout(u, c, kind)
  PROVE  ConnInv'
  <1> DEFINE e == [by |-> u, statement |-> "begin"]
             k == [by |-> u, tx |-> "none", wire |-> <<e>>]
             l == [Unused EXCEPT !.pc = "begin", !.kind = kind, !.conn = c]
  <1>1. /\ lease[u].pc = "rest" /\ conn[c].by = "pool" /\ lease' = [lease EXCEPT ![u] = l]
        /\ conn' = [Sent(c, u, "begin") EXCEPT ![c].by = u]
    BY DEF Checkout
  <1>2. conn \in [Conns -> ConnRow] /\ conn[c].tx = "none" /\ conn[c].wire = <<>> /\ conn[c] \in ConnRow
    BY <1>1 DEF ConnInv
  <1>3. conn' = [conn EXCEPT ![c] = k]
    <2>1. conn' = [conn EXCEPT ![c] = [SentRow(conn[c], u, "begin") EXCEPT !.by = u]]
      BY <1>1, <1>2 DEF Sent, SentRow
    <2>2. [SentRow(conn[c], u, "begin") EXCEPT !.by = u] = k
      <3>1. SentRow(conn[c], u, "begin") \in ConnRow /\ SentRow(conn[c], u, "begin").tx = "none"
            /\ SentRow(conn[c], u, "begin").wire = <<e>>
        <4>1. "begin" \in Waiting \cup {"rollback"}
          BY DEF Waiting
        <4> QED
          BY <1>2, <4>1, SentFacts
      <3> HIDE DEF e
      <3> QED
        BY <3>1 DEF ConnRow
    <2> QED
      BY <2>1, <2>2
  <1>4. l \in LeaseRow /\ l.pc = "begin" /\ l.conn = c
    BY DEF Unused, LeaseRow, Using, Waiting
  <1>5. ~l.loose
    BY DEF Unused
  <1>6. e \in Statement /\ <<e>> \in Seq(Statement) /\ e.by = u
    BY DEF Statement, Waiting
  <1>7. k \in ConnRow
    BY <1>6 DEF ConnRow
  <1>8. Has(u, l, k)
    <2>1. k.by = u /\ k.wire = <<e>> /\ DOMAIN k.wire = {1} /\ k.wire[1] = e
      OBVIOUS
    <2> HIDE DEF k, l
    <2> QED
      BY <1>4, <1>5, <1>6, <2>1 DEF Has, Waiting
  <1> HIDE DEF k, l
  <1> QED
    BY <1>1, <1>3, <1>4, <1>7, <1>8, Takes

LEMMA QueryStep ==
  ASSUME ConnInv, NEW u \in Leases, NEW statement \in {"work", "commit"}, lease[u].pc = "body",
         conn' = Sent(lease[u].conn, u, statement), lease' = [lease EXCEPT ![u].pc = statement]
  PROVE  ConnInv'
  <1> DEFINE l == [lease[u] EXCEPT !.pc = statement]
  <1>1. lease[u] \in LeaseRow /\ Has(u, lease[u], conn[lease[u].conn])
    BY HasFacts
  <1>2. /\ l \in LeaseRow /\ l.pc = statement /\ l.conn = lease[u].conn /\ l.kind = lease[u].kind
    BY <1>1 DEF LeaseRow, Using, Waiting
  <1>3. l.closed = lease[u].closed /\ l.loose = lease[u].loose /\ l.discard = lease[u].discard
    BY <1>1 DEF LeaseRow
  <1>4. lease' = [lease EXCEPT ![u] = l]
    BY DEF ConnInv
  <1>5. conn[lease[u].conn].wire = <<>> /\ ~lease[u].loose
    BY <1>1 DEF Has
  <1> HIDE DEF l
  <1>6. lease[u].pc # "rest" /\ statement \in Waiting \cup {"rollback"} /\ ~l.loose
    BY <1>3, <1>5 DEF Waiting
  <1> QED
    BY <1>2, <1>3, <1>4, <1>5, <1>6, Sends

\* A user has given up or was refused.
LEMMA FailedStep ==
  ASSUME ConnInv, NEW u \in Leases, lease[u].pc # "rest", NEW pc \in {"failed", "release"},
         NEW loose \in BOOLEAN, NEW discard \in BOOLEAN,
         lease' = [lease EXCEPT ![u] = [lease[u] EXCEPT !.pc = pc, !.loose = loose, !.discard = discard]],
         conn' = conn,
         loose => lease[u].kind = "turn" /\ pc = "failed",
         pc = "release" => discard,
         lease[u].kind = "session" /\ ~discard => conn[lease[u].conn].wire = <<>>
  PROVE  ConnInv'
  <1> DEFINE l == [lease[u] EXCEPT !.pc = pc, !.loose = loose, !.discard = discard]
  <1>1. lease[u] \in LeaseRow /\ Has(u, lease[u], conn[lease[u].conn])
    BY HasFacts
  <1>2. /\ l \in LeaseRow /\ l.pc = pc /\ l.conn = lease[u].conn /\ l.kind = lease[u].kind
    BY <1>1 DEF LeaseRow, Using, Waiting
  <1>3. l.closed = lease[u].closed /\ l.loose = loose /\ l.discard = discard
    BY <1>1 DEF LeaseRow
  <1>4. lease' = [lease EXCEPT ![u] = l]
    OBVIOUS
  <1> HIDE DEF l
  <1>5. Has(u, l, conn[lease[u].conn])
    BY <1>1, <1>2, <1>3 DEF Has, Waiting
  <1> QED
    BY <1>2, <1>4, <1>5, Continues

LEMMA BodyRefusesStep ==
  ASSUME ConnInv, NEW u \in Leases, BodyRefuses(u)
  PROVE  ConnInv'
  <1>1. lease[u].pc = "body" /\ conn' = conn
    BY DEF BodyRefuses
  <1>2. lease[u] \in LeaseRow /\ Has(u, lease[u], conn[lease[u].conn])
    BY <1>1, HasFacts
  <1>3. PICK loose \in BOOLEAN : loose = FALSE
    OBVIOUS
  <1>4. PICK discard \in BOOLEAN : discard = (lease[u].discard \/ lease[u].kind = "managed")
    OBVIOUS
  <1>5. lease' = [lease EXCEPT ![u] = [lease[u] EXCEPT !.pc = "failed", !.loose = loose, !.discard = discard]]
    <2>1. lease[u].loose = FALSE
      BY <1>1, <1>2 DEF Has, LeaseRow
    <2>2. [lease[u] EXCEPT !.pc = "failed", !.loose = loose, !.discard = discard]
            = [lease[u] EXCEPT !.pc = "failed", !.discard = lease[u].discard \/ lease[u].kind = "managed"]
      BY <1>2, <1>3, <1>4, <2>1 DEF LeaseRow
    <2>3. lease' = [lease EXCEPT ![u] = [lease[u] EXCEPT !.pc = "failed", !.discard = lease[u].discard \/ lease[u].kind = "managed"]]
      BY DEF BodyRefuses, ConnInv
    <2> QED
      BY <2>2, <2>3
  <1>6. conn[lease[u].conn].wire = <<>> /\ lease[u].pc # "rest"
    BY <1>1, <1>2 DEF Has
  <1> QED
    BY <1>1, <1>3, <1>5, <1>6, FailedStep

LEMMA GiveUpStep ==
  ASSUME ConnInv, NEW u \in Leases, GiveUp(u)
  PROVE  ConnInv'
  <1>1. lease[u].pc \in {"begin", "work", "commit", "rollback"} /\ conn' = conn /\ lease[u].pc # "rest"
    BY DEF GiveUp
  <1>2. lease[u] \in LeaseRow /\ Has(u, lease[u], conn[lease[u].conn])
    BY <1>1, HasFacts
  <1>3. PICK loose \in BOOLEAN : loose = (lease[u].kind = "turn" /\ lease[u].pc # "rollback")
    OBVIOUS
  <1>4. PICK discard \in BOOLEAN : discard = (lease[u].kind # "turn" \/ lease[u].pc = "rollback")
    OBVIOUS
  <1>5. PICK pc \in {"failed", "release"} : pc = IF lease[u].pc = "rollback" THEN "release" ELSE "failed"
    OBVIOUS
  <1>6. lease' = [lease EXCEPT ![u] = [lease[u] EXCEPT !.pc = pc, !.loose = loose, !.discard = discard]]
    <2>1. lease' = [lease EXCEPT ![u] = [lease[u] EXCEPT !.pc = IF lease[u].pc = "rollback" THEN "release" ELSE "failed",
                      !.loose = lease[u].kind = "turn" /\ lease[u].pc # "rollback",
                      !.discard = lease[u].kind # "turn" \/ lease[u].pc = "rollback"]]
      BY DEF GiveUp, ConnInv
    <2> QED
      BY <1>3, <1>4, <1>5, <2>1
  <1> QED
    BY <1>1, <1>3, <1>4, <1>5, <1>6, FailedStep

LEMMA FailStep ==
  ASSUME ConnInv, NEW u \in Leases, Fail(u)
  PROVE  ConnInv'
  <1>1. lease[u].pc = "failed" /\ lease[u].pc # "rest" /\ lease \in [Leases -> LeaseRow]
    BY DEF Fail, ConnInv
  <1>2. lease[u] \in LeaseRow /\ Has(u, lease[u], conn[lease[u].conn])
    BY <1>1, HasFacts
  <1>3. CASE Destroyed(u)
    BY <1>1, <1>3, ShutDown
  <1>4. CASE /\ lease[u].kind = "session"
             /\ conn' = Sent(lease[u].conn, u, "rollback") /\ lease' = [lease EXCEPT ![u].pc = "rollback"]
    <2> DEFINE l == [lease[u] EXCEPT !.pc = "rollback"]
    <2>1. /\ l \in LeaseRow /\ l.pc = "rollback" /\ l.conn = lease[u].conn /\ l.kind = lease[u].kind
      BY <1>2 DEF LeaseRow, Using, Waiting
    <2>2. l.closed = lease[u].closed /\ l.loose = lease[u].loose /\ l.discard = lease[u].discard
      BY <1>2 DEF LeaseRow
    <2>3. lease' = [lease EXCEPT ![u] = l]
      BY <1>1, <1>4
    <2>4. ~lease[u].loose /\ (~lease[u].discard => conn[lease[u].conn].wire = <<>>)
      BY <1>1, <1>2, <1>4 DEF Has
    <2> HIDE DEF l
    <2>5. "rollback" \in Waiting \cup {"rollback"} /\ "rollback" \notin Waiting
      BY DEF Waiting
    <2> QED
      BY <1>1, <1>4, <2>1, <2>2, <2>3, <2>4, <2>5, Sends
  <1>5. CASE lease' = [lease EXCEPT ![u].pc = "drain", ![u].closed = TRUE] /\ lease[u].kind = "turn" /\ conn' = conn
    <2> DEFINE l == [lease[u] EXCEPT !.pc = "drain", !.closed = TRUE]
    <2>1. /\ l \in LeaseRow /\ l.pc = "drain" /\ l.conn = lease[u].conn /\ l.kind = lease[u].kind
      BY <1>2 DEF LeaseRow, Using, Waiting
    <2>2. l.closed
      BY <1>2 DEF LeaseRow
    <2>3. lease' = [lease EXCEPT ![u] = l]
      BY <1>1, <1>5
    <2> HIDE DEF l
    <2>4. Has(u, l, conn[lease[u].conn])
      BY <1>2, <1>5, <2>1, <2>2 DEF Has, Waiting
    <2> QED
      BY <1>1, <1>5, <2>1, <2>3, <2>4, Continues
  <1> QED
    BY <1>3, <1>4, <1>5 DEF Fail

LEMMA DrainStep ==
  ASSUME ConnInv, NEW u \in Leases, Drain(u)
  PROVE  ConnInv'
  <1> DEFINE l == [lease[u] EXCEPT !.pc = "rollback"]
  <1>1. /\ lease[u].pc = "drain" /\ lease[u].pc # "rest" /\ lease \in [Leases -> LeaseRow]
        /\ conn' = Sent(lease[u].conn, u, "rollback") /\ lease' = [lease EXCEPT ![u].pc = "rollback"]
        /\ \A i \in DOMAIN conn[lease[u].conn].wire : conn[lease[u].conn].wire[i].by # u
    BY DEF Drain, Drained, ConnInv
  <1>2. lease[u] \in LeaseRow /\ Has(u, lease[u], conn[lease[u].conn]) /\ conn[lease[u].conn] \in ConnRow
    BY <1>1, HasFacts
  <1>3. conn[lease[u].conn].wire = <<>>
    <2>1. conn[lease[u].conn].wire \in Seq(Statement) /\ DOMAIN conn[lease[u].conn].wire = {}
      BY <1>1, <1>2 DEF ConnRow, Has
    <2>2. Len(conn[lease[u].conn].wire) \in Nat /\ 1 .. Len(conn[lease[u].conn].wire) = {}
      BY <2>1, LenProperties
    <2>3. Len(conn[lease[u].conn].wire) = 0
      <3>1. 1 \notin 1 .. Len(conn[lease[u].conn].wire)
        BY <2>2
      <3> QED
        BY <2>2, <3>1
    <2> QED
      BY <2>1, <2>3, EmptySeq
  <1>4. /\ l \in LeaseRow /\ l.pc = "rollback" /\ l.conn = lease[u].conn /\ l.kind = lease[u].kind
    BY <1>2 DEF LeaseRow, Using, Waiting
  <1>5. l.closed = lease[u].closed /\ l.loose = lease[u].loose /\ l.discard = lease[u].discard
    BY <1>2 DEF LeaseRow
  <1>6. lease' = [lease EXCEPT ![u] = l]
    BY <1>1
  <1>7. lease[u].closed
    BY <1>1, <1>2 DEF Has
  <1> HIDE DEF l
  <1>8. "rollback" \in Waiting \cup {"rollback"} /\ "rollback" \notin Waiting
    BY DEF Waiting
  <1> QED
    BY <1>1, <1>3, <1>4, <1>5, <1>6, <1>7, <1>8, Sends

LEMMA ReleaseStep ==
  ASSUME ConnInv, NEW u \in Leases, Release(u)
  PROVE  ConnInv'
  <1>1. lease[u].pc = "release" /\ lease[u].pc # "rest" /\ lease \in [Leases -> LeaseRow]
    BY DEF Release, ConnInv
  <1>2. lease[u] \in LeaseRow /\ Has(u, lease[u], conn[lease[u].conn]) /\ conn[lease[u].conn] \in ConnRow
    BY <1>1, HasFacts
  <1>3. CASE Destroyed(u)
    BY <1>1, <1>3, ShutDown
  <1>4. CASE /\ ~lease[u].discard
             /\ conn' = [conn EXCEPT ![lease[u].conn].by = "pool"] /\ lease' = [lease EXCEPT ![u] = Released(u)]
    <2> DEFINE k == [conn[lease[u].conn] EXCEPT !.by = "pool"]
               l == Released(u)
    <2>1. k \in ConnRow /\ k.by = "pool" /\ k.tx = conn[lease[u].conn].tx /\ k.wire = conn[lease[u].conn].wire
      BY <1>2 DEF ConnRow
    <2>2. conn' = [conn EXCEPT ![lease[u].conn] = k]
      BY <1>4, HasFacts, <1>1 DEF ConnInv
    <2>3. l \in LeaseRow /\ l.pc = "rest"
      BY <1>2 DEF Released, Unused, LeaseRow, Kinds
    <2>4. l.loose = lease[u].loose /\ l.closed = lease[u].closed
      BY <1>2 DEF Released, Unused, LeaseRow
    <2> HIDE DEF k, l
    <2>5. k.tx = "none" /\ k.wire = <<>> /\ (l.loose => l.closed)
      BY <1>1, <1>2, <1>4, <2>1, <2>4 DEF Has
    <2>6. lease' = [lease EXCEPT ![u] = l]
      BY <1>4 DEF l
    <2> QED
      BY <1>1, <2>1, <2>2, <2>3, <2>5, <2>6, GivesBack
  <1> QED
    BY <1>3, <1>4 DEF Release

LEMMA AfterFacts ==
  ASSUME NEW tx \in {"none", "open", "aborted"}, NEW statement \in Waiting \cup {"rollback"}, NEW ok \in BOOLEAN
  PROVE  /\ AfterStatement(tx, statement, ok) \in {"none", "open", "aborted"}
         /\ statement \in {"commit", "rollback"} /\ ok => AfterStatement(tx, statement, ok) = "none"
  <1>1. CASE statement = "begin"
    BY <1>1 DEF AfterStatement
  <1>2. CASE statement = "work"
    BY <1>2 DEF AfterStatement
  <1>3. CASE statement \in {"commit", "rollback"}
    BY <1>3 DEF AfterStatement
  <1> QED
    BY <1>1, <1>2, <1>3 DEF Waiting

\* What the answer to the statement a user waited for makes of it.
LEMMA ContinuedFacts ==
  ASSUME NEW l \in LeaseRow, NEW statement \in Waiting \cup {"rollback"}, l.pc = statement, NEW ok \in BOOLEAN
  PROVE  /\ Continued(l, statement, ok) \in LeaseRow
         /\ Continued(l, statement, ok).conn = l.conn /\ Continued(l, statement, ok).kind = l.kind
         /\ Continued(l, statement, ok).loose = l.loose
         /\ l.closed => Continued(l, statement, ok).closed
         /\ \/ /\ statement = "rollback" /\ Continued(l, statement, ok).pc = "release"
               /\ ~Continued(l, statement, ok).discard => ok /\ ~l.discard
            \/ statement = "commit" /\ ok /\ Continued(l, statement, ok).pc = "release"
            \/ Continued(l, statement, ok).pc = "drain" /\ Continued(l, statement, ok).closed
            \/ Continued(l, statement, ok).pc = "body" /\ statement # "rollback"
            \/ /\ Continued(l, statement, ok).pc = "failed" /\ statement # "rollback"
               /\ l.kind = "session" => Continued(l, statement, ok).discard
  <1> DEFINE y == Continued(l, statement, ok)
  <1>1. CASE statement = "rollback"
    <2>1. PICK discard \in BOOLEAN : discard = (l.discard \/ ~ok)
      OBVIOUS
    <2>2. y = [l EXCEPT !.pc = "release", !.discard = discard]
      BY <1>1, <2>1 DEF Continued
    <2> HIDE DEF y
    <2>3. y \in LeaseRow /\ y.pc = "release" /\ y.conn = l.conn /\ y.kind = l.kind
      BY <2>2 DEF LeaseRow, Using
    <2>4. y.loose = l.loose /\ y.closed = l.closed /\ y.discard = discard
      BY <2>2 DEF LeaseRow
    <2>5. ~y.discard => ok /\ ~l.discard
      BY <2>1, <2>4
    <2> QED
      BY <1>1, <2>3, <2>4, <2>5 DEF y
  <1>2. CASE ok /\ statement = "commit" /\ l.kind = "session"
    <2>1. y = [l EXCEPT !.pc = "release"]
      BY <1>2 DEF Continued
    <2> HIDE DEF y
    <2>2. y \in LeaseRow /\ y.pc = "release" /\ y.conn = l.conn /\ y.kind = l.kind
      BY <2>1 DEF LeaseRow, Using
    <2>3. y.loose = l.loose /\ y.closed = l.closed
      BY <2>1 DEF LeaseRow
    <2> QED
      BY <1>2, <2>2, <2>3 DEF y
  <1>3. CASE ok /\ statement = "commit" /\ l.kind # "session"
    <2>1. y = [l EXCEPT !.pc = "drain", !.closed = TRUE]
      BY <1>3 DEF Continued
    <2> HIDE DEF y
    <2>2. y \in LeaseRow /\ y.pc = "drain" /\ y.conn = l.conn /\ y.kind = l.kind
      BY <2>1 DEF LeaseRow, Using
    <2>3. y.loose = l.loose /\ y.closed
      BY <2>1 DEF LeaseRow
    <2> QED
      BY <1>3, <2>2, <2>3 DEF y
  <1>4. CASE ok /\ statement \in {"begin", "work"}
    <2>1. y = [l EXCEPT !.pc = "body"]
      BY <1>4 DEF Continued
    <2> HIDE DEF y
    <2>2. y \in LeaseRow /\ y.pc = "body" /\ y.conn = l.conn /\ y.kind = l.kind
      BY <2>1 DEF LeaseRow, Using
    <2>3. y.loose = l.loose /\ y.closed = l.closed
      BY <2>1 DEF LeaseRow
    <2> QED
      BY <1>4, <2>2, <2>3 DEF y
  <1>5. CASE ~ok /\ statement # "rollback"
    <2>1. PICK discard \in BOOLEAN : discard = (l.kind # "turn")
      OBVIOUS
    <2>2. y = [l EXCEPT !.pc = "failed", !.discard = discard]
      BY <1>5, <2>1 DEF Continued
    <2> HIDE DEF y
    <2>3. y \in LeaseRow /\ y.pc = "failed" /\ y.conn = l.conn /\ y.kind = l.kind
      BY <2>2 DEF LeaseRow, Using
    <2>4. y.loose = l.loose /\ y.closed = l.closed /\ y.discard = discard
      BY <2>2 DEF LeaseRow
    <2>5. l.kind = "session" => y.discard
      BY <2>1, <2>4
    <2> QED
      BY <1>5, <2>3, <2>4, <2>5 DEF y
  <1> QED
    BY <1>1, <1>2, <1>3, <1>4, <1>5 DEF Waiting

LEMMA ServeStep ==
  ASSUME ConnInv, NEW c \in Conns, NEW ok \in BOOLEAN, Serve(c, ok)
  PROVE  ConnInv'
  <1> DEFINE u == conn[c].by
             w == conn[c].wire
             statement == w[1].statement
             k == [conn[c] EXCEPT !.wire = Tail(w), !.tx = AfterStatement(conn[c].tx, statement, ok)]
             l == Continued(lease[u], statement, ok)
  <1>1. /\ conn[c] \in ConnRow /\ w \in Seq(Statement) /\ w # <<>> /\ conn[c].tx \in {"none", "open", "aborted"}
        /\ conn \in [Conns -> ConnRow] /\ lease \in [Leases -> LeaseRow]
    BY DEF ConnInv, ConnRow, Serve
  <1>2. u \in Leases /\ lease[u].pc # "rest" /\ lease[u].conn = c /\ Has(u, lease[u], conn[c])
    <2>1. conn[c].by \in Leases /\ conn[c].by # "pool"
      BY <1>1, ConnectionsAssumption DEF ConnInv, ConnRow
    <2>2. lease[conn[c].by].pc # "rest" /\ lease[conn[c].by].conn = c
      BY <2>1 DEF ConnInv
    <2> QED
      BY <2>1, <2>2 DEF ConnInv
  <1>3. /\ 1 \in DOMAIN w /\ w[1] \in Statement /\ w[1].by = u /\ statement \in Waiting \cup {"rollback"}
    <2>1. Len(w) \in Nat /\ DOMAIN w = 1 .. Len(w) /\ Len(w) # 0
      BY <1>1, LenProperties, EmptySeq
    <2>2. 1 \in DOMAIN w
      BY <2>1
    <2>3. w[1] \in Statement
      BY <1>1, <2>2, ElementOfSeq, <2>1
    <2> QED
      BY <1>2, <2>2, <2>3 DEF Has, Statement
  <1>4. /\ Tail(w) \in Seq(Statement)
        /\ \A i \in DOMAIN Tail(w) : Tail(w)[i].by = u
        /\ \A e : w = <<e>> => Tail(w) = <<>> /\ w[1] = e
    <2>1. /\ Tail(w) \in Seq(Statement) /\ Len(Tail(w)) = Len(w) - 1 /\ Len(w) \in Nat
          /\ \A i \in 1 .. Len(Tail(w)) : Tail(w)[i] = w[i + 1]
      BY <1>1, HeadTailProperties, LenProperties
    <2>2. DOMAIN Tail(w) = 1 .. Len(Tail(w)) /\ DOMAIN w = 1 .. Len(w) /\ Len(Tail(w)) \in Nat
      BY <1>1, <2>1, LenProperties
    <2>3. \A i \in 1 .. Len(Tail(w)) : i + 1 \in 1 .. Len(w)
      BY <2>1, <2>2
    <2>4. \A i \in DOMAIN w : w[i].by = u
      BY <1>2 DEF Has
    <2>5. ASSUME NEW e, w = <<e>> PROVE Tail(w) = <<>> /\ w[1] = e
      BY <2>5
    <2> HIDE DEF w, u
    <2> QED
      BY <2>1, <2>2, <2>3, <2>4, <2>5
  <1>5. /\ conn' = [conn EXCEPT ![c] = k] /\ lease' = [lease EXCEPT ![u] = l]
    BY <1>1, <1>3 DEF Serve
  <1>6. /\ k \in ConnRow /\ k.by = u /\ k.wire = Tail(w)
        /\ statement \in {"commit", "rollback"} /\ ok => k.tx = "none"
    <2>1. PICK tx \in {"none", "open", "aborted"} : tx = AfterStatement(conn[c].tx, statement, ok)
      BY <1>1, <1>3, AfterFacts
    <2>2. statement \in {"commit", "rollback"} /\ ok => tx = "none"
      BY <1>1, <1>3, <2>1, AfterFacts
    <2>3. k = [conn[c] EXCEPT !.wire = Tail(w), !.tx = tx]
      BY <2>1
    <2> HIDE DEF k, w, statement
    <2> QED
      BY <1>1, <1>4, <2>2, <2>3 DEF ConnRow
  <1>7. lease[u] \in LeaseRow
    BY <1>1, <1>2
  <1> HIDE DEF k, w, statement, u, l
  <1>8. CASE lease[u].pc = statement
    <2>1. /\ l \in LeaseRow /\ l.conn = c /\ l.kind = lease[u].kind /\ l.loose = lease[u].loose
          /\ lease[u].closed => l.closed
          /\ \/ statement = "rollback" /\ l.pc = "release" /\ (~l.discard => ok /\ ~lease[u].discard)
             \/ statement = "commit" /\ ok /\ l.pc = "release"
             \/ l.pc = "drain" /\ l.closed
             \/ l.pc = "body" /\ statement # "rollback"
             \/ l.pc = "failed" /\ statement # "rollback" /\ (l.kind = "session" => l.discard)
      BY <1>2, <1>3, <1>7, <1>8, ContinuedFacts DEF l
    <2>2. statement \in Waiting => ~lease[u].loose /\ Tail(w) = <<>>
      BY <1>2, <1>4, <1>8 DEF Has, w
    <2>3. statement = "rollback" => (lease[u].loose => lease[u].closed) /\ (~lease[u].discard => Tail(w) = <<>>)
      BY <1>2, <1>4, <1>8 DEF Has, w
    <2>4. lease[u].kind # "turn" => ~lease[u].loose
      BY <1>2 DEF Has
    <2>5. statement \in Waiting \/ statement = "rollback"
      BY <1>3
    <2>6. k.by = u /\ \A i \in DOMAIN k.wire : k.wire[i].by = u
      BY <1>4, <1>6
    <2>7. Has(u, l, k)
      <3>1. CASE statement = "rollback"
        BY <2>1, <2>3, <2>4, <2>6, <1>6, <3>1 DEF Has, Waiting
      <3>2. CASE statement \in Waiting
        BY <2>1, <2>2, <2>4, <2>6, <1>6, <3>2 DEF Has, Waiting
      <3> QED
        BY <2>5, <3>1, <3>2
    <2>8. l.pc # "rest" /\ conn' = [conn EXCEPT ![lease[u].conn] = k]
      BY <1>2, <1>5, <2>1
    <2> QED
      BY <1>2, <1>5, <1>6, <2>1, <2>7, <2>8, GoesOn
  <1>9. CASE lease[u].pc # statement
    <2>1. l = lease[u]
      BY <1>9 DEF l, Continued
    <2>2. lease[u].pc \notin Waiting
      <3>1. lease[u].pc \in Waiting => statement = lease[u].pc
        BY <1>2, <1>4 DEF Has, w, statement
      <3> QED
        BY <1>9, <3>1
    <2>3. lease[u].pc # "body" /\ ~(lease[u].pc = "failed" /\ lease[u].kind = "session" /\ ~lease[u].discard)
          /\ ~(lease[u].pc = "release" /\ ~lease[u].discard)
      BY <1>1, <1>2 DEF Has, w
    <2>4. ~(lease[u].pc = "rollback" /\ ~lease[u].discard)
      <3>1. lease[u].pc = "rollback" /\ ~lease[u].discard => statement = "rollback"
        BY <1>2, <1>4 DEF Has, w, statement
      <3> QED
        BY <1>9, <3>1
    <2>5. k.by = u /\ \A i \in DOMAIN k.wire : k.wire[i].by = u
      BY <1>4, <1>6
    <2>6. Has(u, l, k)
      BY <1>2, <2>1, <2>2, <2>3, <2>4, <2>5 DEF Has
    <2>7. l \in LeaseRow /\ l.pc # "rest" /\ conn' = [conn EXCEPT ![lease[u].conn] = k] /\ l.conn = lease[u].conn
      BY <1>2, <1>5, <1>7, <2>1
    <2> QED
      BY <1>2, <1>5, <1>6, <2>6, <2>7, GoesOn
  <1> QED
    BY <1>8, <1>9

LEMMA StrayStep ==
  ASSUME ConnInv, NEW u \in Leases, Stray(u)
  PROVE  ConnInv'
  <1>1. /\ lease[u].loose /\ lease' = lease /\ lease \in [Leases -> LeaseRow]
        /\ conn' = IF lease[u].closed THEN conn ELSE Sent(lease[u].conn, u, "work")
    BY DEF Stray, Fenced, ConnInv
  <1>2. CASE lease[u].closed
    BY <1>1, <1>2 DEF ConnInv
  <1>3. CASE ~lease[u].closed
    <2>1. lease[u].pc # "rest"
      BY <1>1, <1>3 DEF ConnInv
    <2>2. /\ lease[u] \in LeaseRow /\ lease[u].conn \in Conns /\ conn[lease[u].conn] \in ConnRow
          /\ Has(u, lease[u], conn[lease[u].conn])
      BY <2>1, HasFacts
    <2>3. lease[u].pc = "failed" /\ lease[u].kind = "turn"
      BY <1>1, <1>3, <2>1, <2>2 DEF Has, LeaseRow, Using
    <2> DEFINE k == SentRow(conn[lease[u].conn], u, "work")
    <2>4. "work" \in Waiting \cup {"rollback"}
      BY DEF Waiting
    <2>5. /\ k \in ConnRow /\ k.by = conn[lease[u].conn].by
          /\ (\A i \in DOMAIN conn[lease[u].conn].wire : conn[lease[u].conn].wire[i].by = u)
               => \A i \in DOMAIN k.wire : k.wire[i].by = u
      BY <2>2, <2>4, SentFacts
    <2>6. conn' = [conn EXCEPT ![lease[u].conn] = k] /\ lease' = [lease EXCEPT ![u] = lease[u]]
      BY <1>1, <1>3 DEF Sent, SentRow
    <2> HIDE DEF k
    <2>7. Has(u, lease[u], k)
      BY <2>2, <2>3, <2>5 DEF Has, Waiting
    <2> QED
      BY <2>1, <2>2, <2>5, <2>6, <2>7, GoesOn
  <1> QED
    BY <1>2, <1>3

LEMMA LooseEndsStep ==
  ASSUME ConnInv, NEW u \in Leases, LooseEnds(u)
  PROVE  ConnInv'
  <1>1. conn' = conn /\ lease \in [Leases -> LeaseRow]
    BY DEF LooseEnds, ConnInv
  <1>2. CASE lease[u].pc = "rest"
    <2>1. lease' = [lease EXCEPT ![u] = Unused]
      BY <1>1, <1>2 DEF LooseEnds
    <2>2. Unused \in LeaseRow /\ Unused.pc = "rest" /\ ~Unused.loose
      BY DEF Unused, LeaseRow, Kinds
    <2> QED
      BY <1>1, <1>2, <2>1, <2>2, StaysAtRest
  <1>3. CASE lease[u].pc # "rest"
    <2> DEFINE l == [lease[u] EXCEPT !.loose = FALSE]
    <2>1. lease' = [lease EXCEPT ![u] = l]
      BY <1>1, <1>3 DEF LooseEnds
    <2>2. lease[u] \in LeaseRow /\ Has(u, lease[u], conn[lease[u].conn])
      BY <1>3, HasFacts
    <2>3. l \in LeaseRow /\ l.pc = lease[u].pc /\ l.conn = lease[u].conn /\ l.kind = lease[u].kind
      BY <2>2 DEF LeaseRow
    <2>4. ~l.loose /\ l.closed = lease[u].closed /\ l.discard = lease[u].discard
      BY <2>2 DEF LeaseRow
    <2> HIDE DEF l
    <2>5. Has(u, l, conn[lease[u].conn])
      BY <2>2, <2>3, <2>4 DEF Has
    <2> QED
      BY <1>1, <1>3, <2>1, <2>3, <2>5, Continues
  <1> QED
    BY <1>2, <1>3

LEMMA RowWith ==
  ASSUME NEW k \in ConnRow, NEW w \in Seq(Statement), NEW tx \in {"none", "open", "aborted"}
  PROVE  LET r == [k EXCEPT !.wire = w, !.tx = tx]
         IN  r \in ConnRow /\ r.by = k.by /\ r.wire = w
  BY DEF ConnRow

LEMMA BreakStep ==
  ASSUME ConnInv, NEW c \in Conns, Break(c)
  PROVE  ConnInv'
  <1>1. conn \in [Conns -> ConnRow] /\ lease \in [Leases -> LeaseRow] /\ conn[c] \in ConnRow
    BY DEF ConnInv
  <1>2. CASE conn[c].by = "pool"
    <2>1. conn' = [conn EXCEPT ![c] = Fresh] /\ lease' = lease
      BY <1>2 DEF Break
    <2>2. Fresh \in ConnRow /\ Fresh.by = "pool" /\ Fresh.tx = "none" /\ Fresh.wire = <<>>
      BY DEF Fresh, ConnRow
    <2>3. conn' \in [Conns -> ConnRow] /\ conn'[c] = Fresh /\ \A d \in Conns \ {c} : conn'[d] = conn[d]
      BY <1>1, <2>1, <2>2
    <2>4. ASSUME NEW v \in Leases, lease[v].pc # "rest" PROVE lease[v].conn \in Conns \ {c}
      <3>1. lease[v].conn \in Conns /\ conn[lease[v].conn].by = v
        BY <2>4 DEF ConnInv, Has
      <3> QED
        BY <1>2, <3>1, ConnectionsAssumption
    <2>5. \A v \in Leases : lease[v].pc # "rest" => lease[v].conn \in Conns /\ Has(v, lease[v], conn'[lease[v].conn])
      BY <2>3, <2>4 DEF ConnInv
    <2> QED
      BY <2>1, <2>2, <2>3, <2>5 DEF ConnInv
  <1>3. CASE conn[c].by # "pool"
    <2> DEFINE u == conn[c].by
               k == [conn[c] EXCEPT !.wire = <<>>, !.tx = "none"]
               l == [lease[u] EXCEPT !.pc = "release", !.discard = TRUE, !.closed = TRUE]
    <2>1. u \in Leases /\ lease[u].pc # "rest" /\ lease[u].conn = c /\ Has(u, lease[u], conn[c]) /\ lease[u] \in LeaseRow
      <3>1. conn[c].by \in Leases
        BY <1>1, <1>3 DEF ConnRow
      <3>2. lease[conn[c].by].pc # "rest" /\ lease[conn[c].by].conn = c
        BY <1>3 DEF ConnInv
      <3> QED
        BY <1>1, <3>1, <3>2 DEF ConnInv
    <2>2. conn' = [conn EXCEPT ![c] = k] /\ lease' = [lease EXCEPT ![u] = l]
      BY <1>1, <1>3, <2>1 DEF Break
    <2>3. k \in ConnRow /\ k.by = u /\ k.wire = <<>>
      <3>1. <<>> \in Seq(Statement) /\ conn[c] \in ConnRow
        BY <1>1, EmptySeq
      <3> QED
        BY <3>1, RowWith
    <2>4. l \in LeaseRow /\ l.pc = "release" /\ l.conn = c /\ l.kind = lease[u].kind
      BY <2>1 DEF LeaseRow, Using
    <2>5. l.loose = lease[u].loose /\ l.discard /\ l.closed
      BY <2>1 DEF LeaseRow
    <2> HIDE DEF u, k, l
    <2>6. Has(u, l, k)
      BY <2>1, <2>3, <2>4, <2>5 DEF Has, Waiting
    <2> QED
      BY <2>1, <2>2, <2>3, <2>4, <2>6, GoesOn
  <1> QED
    BY <1>2, <1>3

LEMMA ConnStep ==
  ASSUME ConnInv, ConnNext
  PROVE  ConnInv'
  <1>1. ASSUME NEW u \in Leases, NEW c \in Conns, NEW kind \in Kinds, Checkout(u, c, kind) PROVE ConnInv'
    BY <1>1, CheckoutStep
  <1>2. ASSUME NEW u \in Leases, Query(u) \/ SendCommit(u) PROVE ConnInv'
    BY <1>2, QueryStep DEF Query, SendCommit
  <1>3. ASSUME NEW u \in Leases,
               \/ BodyRefuses(u) \/ GiveUp(u) \/ Fail(u) \/ Drain(u) \/ Release(u) \/ Stray(u) \/ LooseEnds(u)
        PROVE  ConnInv'
    BY <1>3, BodyRefusesStep, GiveUpStep, FailStep, DrainStep, ReleaseStep, StrayStep, LooseEndsStep
  <1>4. ASSUME NEW u \in Leases, DrainExpires(u) PROVE ConnInv'
    <2>1. lease[u].pc # "rest" /\ Destroyed(u)
      BY <1>4 DEF DrainExpires
    <2> QED
      BY <2>1, ShutDown
  <1>5. ASSUME NEW c \in Conns, Break(c) PROVE ConnInv'
    BY <1>5, BreakStep
  <1>6. ASSUME NEW c \in Conns, NEW ok \in BOOLEAN, Serve(c, ok) PROVE ConnInv'
    BY <1>6, ServeStep
  <1> QED
    BY <1>1, <1>2, <1>3, <1>4, <1>5, <1>6 DEF ConnNext

(***************************************************************************)
(* What the cloud keeps of a channel.                                      *)
(***************************************************************************)

\* Arithmetic of minutes, hours and days: a bucket's number and where it begins.
LEMMA Buckets ==
  ASSUME NEW t \in Int, NEW n \in Nat \ {0}
  PROVE  /\ t \div n \in Int
         /\ (t \div n) * n <= t /\ t < (t \div n + 1) * n
  OBVIOUS

LEMMA BucketFrom ==
  ASSUME NEW t \in Int, NEW n \in Nat \ {0}, NEW k \in Int
  PROVE  k * n <= t <=> k <= t \div n
  <1> DEFINE q == t \div n
  <1>1. q \in Int /\ q * n <= t /\ t < (q + 1) * n
    BY Buckets
  <1> HIDE DEF q
  <1>2. CASE k <= q
    <2>1. k * n <= q * n
      BY <1>1, <1>2
    <2> QED
      BY <1>1, <1>2, <2>1
  <1>3. CASE q < k
    <2>1. (q + 1) * n <= k * n
      BY <1>1, <1>3
    <2> QED
      BY <1>1, <1>3, <2>1
  <1> QED
    BY <1>1, <1>2, <1>3 DEF q

\* DayOfHour of a time's hour is its day.
LEMMA HourInDay ==
  ASSUME NEW t \in Int
  PROVE  /\ Hour(t) \in Int /\ Day(t) \in Int /\ DayOfHour(Hour(t)) = Day(t)
         /\ MinutesPerDay \in Nat \ {0}
  <1>1. MinutesPerHour \in Nat \ {0} /\ HoursPerDay \in Nat \ {0}
    BY HistoryAssumption
  <1>2. MinutesPerDay \in Nat \ {0}
    BY <1>1 DEF MinutesPerDay
  <1> DEFINE h == Hour(t)
             d == Day(t)
             e == DayOfHour(h)
  <1>3. h \in Int /\ d \in Int /\ e \in Int
    BY <1>1, <1>2, Buckets DEF Hour, Day, DayOfHour
  <1>4. ASSUME NEW k \in Int PROVE k <= e <=> k <= d
    <2>1. k <= e <=> k * HoursPerDay <= h
      BY <1>1, <1>3, BucketFrom DEF DayOfHour
    <2>2. k * HoursPerDay <= h <=> (k * HoursPerDay) * MinutesPerHour <= t
      BY <1>1, BucketFrom DEF Hour
    <2>3. (k * HoursPerDay) * MinutesPerHour = k * MinutesPerDay
      BY <1>1 DEF MinutesPerDay
    <2>4. k * MinutesPerDay <= t <=> k <= d
      BY <1>2, BucketFrom DEF Day
    <2> QED
      BY <2>1, <2>2, <2>3, <2>4
  <1>5. e = d
    BY <1>3, <1>4
  <1> QED
    BY <1>2, <1>3, <1>5

LEMMA DayStarts ==
  ASSUME NEW d \in Int, NEW e \in Int
  PROVE  /\ DayStart(d) \in Int /\ (d <= e => DayStart(d) <= DayStart(e))
         /\ DayStart(d) > 0 => d > 0
  <1>1. MinutesPerDay \in Nat \ {0}
    BY HourInDay
  <1> QED
    BY <1>1 DEF DayStart

LEMMA HourSpan ==
  ASSUME NEW t \in Int
  PROVE  LET b == Hour(t) * MinutesPerHour
             e == (Hour(t) + 1) * MinutesPerHour
         IN  b \in Int /\ e \in Int /\ b <= t /\ t < e
  <1>1. MinutesPerHour \in Nat \ {0} /\ Hour(t) \in Int
    BY HourInDay, HistoryAssumption
  <1>2. Hour(t) * MinutesPerHour <= t /\ t < (Hour(t) + 1) * MinutesPerHour
    BY <1>1, Buckets DEF Hour
  <1> QED
    BY <1>1, <1>2

\* A boundary between days is one between hours.
LEMMA SameHourSameSide ==
  ASSUME NEW s \in Int, NEW t \in Int, NEW d \in Int, Hour(s) = Hour(t), DayStart(d) <= s
  PROVE  DayStart(d) <= t
  <1>1. MinutesPerDay \in Nat \ {0} /\ Day(s) = Day(t) /\ Day(s) \in Int
    BY HourInDay
  <1> QED
    BY <1>1, BucketFrom DEF DayStart, Day

\* The stored rows.  Raw readings stay from the retained boundary on, which lies between days;
\* the rollups only hold what was accepted for them, and a minute's is missing only when the
\* minute has expired or its hour is still dirty.
StoreTypes ==
  /\ today \in Nat /\ (\E d \in Int : rawBefore = DayStart(d))
  /\ stamp \in [Accepted -> Stamps] /\ Accepted \subseteq Readings /\ raw \subseteq Accepted /\ dirty \subseteq Int
RawKept == \A r \in Accepted : stamp[r] >= rawBefore => r \in raw
HoursKept == \A h \in DOMAIN hours : h \in Int /\ hours[h] \subseteq OfHour(Accepted, h)
MinutesKept ==
  /\ \A b \in DOMAIN minutes : b \in Int /\ minutes[b] \subseteq {r \in Accepted : stamp[r] = b}
  /\ \A r \in Accepted : Hour(stamp[r]) \notin dirty /\ stamp[r] >= DayStart(today - MinuteDays) =>
       stamp[r] \in DOMAIN minutes /\ r \in minutes[stamp[r]]
StoreInv == StoreTypes /\ NothingDroppedUnrolled /\ RawKept /\ HoursKept /\ RollupExact /\ MinutesKept

\* The open transactions.  The locks keep them apart: an upload from the worker on its hour, the
\* maintenance from everyone who uses the table of raw readings.
IngestInv ==
  \/ ingest = NoIngest
  \/ /\ \E r \in Readings \ Accepted, t \in Stamps :
          ingest = [st |-> "open", id |-> r, ts |-> t] /\ t >= rawBefore /\ MarkerFree(Hour(t))
     /\ maintain = NoMaintenance
WorkerInv ==
  /\ worker \in [st : {"idle", "claimed", "aggregated"}, hour : Int, day : Int, rows : SUBSET Readings]
  /\ worker.st # "idle" => worker.hour \in dirty /\ worker.day <= today
  /\ worker.st = "aggregated" => worker.rows = OfHour(raw, worker.hour) /\ maintain = NoMaintenance
MaintainInv == maintain \in Int /\ maintain <= today /\ (maintain # NoMaintenance => reader.st = "idle")
ReaderInv ==
  /\ reader \in [st : {"idle", "locked", "snapshot", "answered"}, res : Resolutions, from : Int,
                 pending : BOOLEAN, rows : SUBSET Readings, want : SUBSET Readings]
  /\ reader.st \in {"snapshot", "answered"} /\ ~reader.pending =>
       /\ reader.rows \subseteq reader.want
       /\ \/ reader.res = "series"
          \/ reader.res = "window" /\ reader.from < rawBefore
          \/ reader.rows = reader.want
  /\ reader.st \in {"snapshot", "answered"} /\ reader.res \in {"raw", "window"} => reader.rows \subseteq raw

HistoryInv == StoreInv /\ IngestInv /\ WorkerInv /\ MaintainInv /\ ReaderInv

LEMMA HistoryInitially ==
  ASSUME Init
  PROVE  HistoryInv
  <1>1. DOMAIN stamp = {} /\ DOMAIN hours = {} /\ DOMAIN minutes = {}
    BY DEF Init
  <1>2. stamp \in [Accepted -> Stamps]
    BY <1>1 DEF Init, Accepted
  <1>3. 0 = DayStart(0)
    BY HourInDay DEF DayStart
  <1>4. StoreInv
    BY <1>1, <1>2, <1>3 DEF Init, StoreInv, StoreTypes, NothingDroppedUnrolled, RawKept, HoursKept, RollupExact, MinutesKept, Accepted
  <1>5. IngestInv /\ WorkerInv /\ MaintainInv
    BY DEF Init, IngestInv, WorkerInv, MaintainInv, NoIngest, NoWork, NoMaintenance, NoReader
  <1>6. ReaderInv
    BY DEF Init, ReaderInv, NoReader, Resolutions
  <1> QED
    BY <1>4, <1>5, <1>6 DEF HistoryInv

\* Most steps leave the rows alone.
LEMMA StoreRests ==
  ASSUME StoreInv, UNCHANGED store, today' \in Nat, today <= today'
  PROVE  StoreInv'
  <1>1. StoreTypes' /\ NothingDroppedUnrolled' /\ RawKept' /\ HoursKept' /\ RollupExact'
    BY DEF store, StoreInv, StoreTypes, NothingDroppedUnrolled, RawKept, HoursKept, RollupExact, Accepted, OfHour
  <1>2. \A r \in Accepted : stamp[r] \in Int
    <2>1. Stamps \subseteq Int
      BY HistoryAssumption
    <2> QED
      BY <2>1 DEF StoreInv, StoreTypes
  <1>3. DayStart(today - MinuteDays) <= DayStart(today' - MinuteDays)
    BY HistoryAssumption, DayStarts DEF StoreInv, StoreTypes
  <1>4. DayStart(today - MinuteDays) \in Int /\ DayStart(today' - MinuteDays) \in Int
    BY HistoryAssumption, DayStarts DEF StoreInv, StoreTypes
  <1>5. MinutesKept'
    BY <1>2, <1>3, <1>4 DEF store, StoreInv, MinutesKept, Accepted
  <1> QED
    BY <1>1, <1>5 DEF StoreInv

\* An upload commits: its hour is dirty, and whatever else the hour has is still there.
LEMMA IngestCommitStep ==
  ASSUME HistoryInv, IngestCommit
  PROVE  HistoryInv'
  <1> DEFINE r == ingest.id
             t == ingest.ts
  <1>1. /\ r \in Readings \ Accepted /\ t \in Stamps /\ t >= rawBefore /\ maintain = NoMaintenance
        /\ MarkerFree(Hour(t))
    BY DEF HistoryInv, IngestInv, IngestCommit, NoIngest
  <1>2. /\ Stamps \subseteq Int /\ t \in Int /\ Hour(t) \in Int /\ \A q \in Accepted : stamp[q] \in Int
        /\ rawBefore \in Int
    <2>1. Stamps \subseteq Int
      BY HistoryAssumption
    <2> QED
      BY <1>1, <2>1, HourInDay, DayStarts DEF HistoryInv, StoreInv, StoreTypes
  <1>3. /\ Accepted' = Accepted \cup {r} /\ stamp' \in [Accepted' -> Stamps] /\ stamp'[r] = t
        /\ \A q \in Accepted : stamp'[q] = stamp[q]
        /\ raw' = raw \cup {r} /\ dirty' = dirty \cup {Hour(t)} /\ ingest' = NoIngest
        /\ UNCHANGED <<today, rawBefore, minutes, hours, worker, maintain, reader>>
    BY <1>1 DEF IngestCommit, Accepted, HistoryInv, StoreInv, StoreTypes
  <1> HIDE DEF r, t
  <1>4. StoreTypes'
    BY <1>1, <1>2, <1>3 DEF HistoryInv, StoreInv, StoreTypes, DayStart
  <1>5. RawKept'
    BY <1>1, <1>3 DEF HistoryInv, StoreInv, RawKept
  <1>6. NothingDroppedUnrolled'
    <2> SUFFICES ASSUME NEW q \in Accepted, Hour(stamp[q]) = Hour(t), stamp[q] \in Int PROVE q \in raw
      BY <1>2, <1>3 DEF NothingDroppedUnrolled, HistoryInv, StoreInv
    <2>1. PICK d \in Int : rawBefore = DayStart(d)
      BY DEF HistoryInv, StoreInv, StoreTypes
    <2>2. rawBefore <= stamp[q]
      BY <1>1, <1>2, <2>1, SameHourSameSide
    <2> QED
      BY <2>2, <1>2 DEF HistoryInv, StoreInv, RawKept
  <1>7. \A h \in Int : h # Hour(t) => OfHour(Accepted, h)' = OfHour(Accepted, h)
    BY <1>3 DEF OfHour
  <1>8. HoursKept'
    BY <1>3 DEF HistoryInv, StoreInv, HoursKept, OfHour
  <1>9. RollupExact'
    <2> SUFFICES ASSUME NEW q \in Accepted', NEW h, h = Hour(stamp'[q]), h \notin dirty'
                 PROVE  h \in DOMAIN hours' /\ hours'[h] = OfHour(Accepted, h)'
      BY DEF RollupExact, Hour
    <2>1. q \in Accepted /\ h = Hour(stamp[q]) /\ h \in Int /\ h # Hour(t) /\ h \notin dirty
      BY <1>2, <1>3, HourInDay
    <2>2. h \in DOMAIN hours /\ hours[h] = OfHour(Accepted, h)
      BY <2>1 DEF HistoryInv, StoreInv, RollupExact
    <2> QED
      BY <1>3, <1>7, <2>1, <2>2
  <1>10. MinutesKept'
    BY <1>3 DEF HistoryInv, StoreInv, MinutesKept
  <1>11. IngestInv' /\ MaintainInv'
    BY <1>3 DEF HistoryInv, IngestInv, MaintainInv
  <1>12. WorkerInv'
    <2>1. worker.st = "aggregated" => OfHour(raw, worker.hour)' = OfHour(raw, worker.hour)
      BY <1>1, <1>3 DEF OfHour, MarkerFree, HistoryInv, StoreInv, StoreTypes
    <2> QED
      BY <1>1, <1>3, <2>1 DEF HistoryInv, WorkerInv
  <1>13. ReaderInv'
    BY <1>3 DEF HistoryInv, ReaderInv
  <1> QED
    BY <1>4, <1>5, <1>6, <1>8, <1>9, <1>10, <1>11, <1>12, <1>13 DEF HistoryInv, StoreInv

\* What a rollup leaves in each bucket.
LEMMA Grouped ==
  ASSUME NEW rows, NEW old, NEW replaced, NEW bucket, NEW kept, NEW b,
         \A r \in rows : bucket[stamp[r]] \in replaced
  PROVE  LET g == Group(rows, old, replaced, bucket, kept) IN
         /\ b \notin replaced => (b \in DOMAIN g <=> b \in DOMAIN old) /\ (b \in DOMAIN g => g[b] = old[b])
         /\ b \in replaced =>
              /\ b \in DOMAIN g <=> b \in kept /\ \E r \in rows : bucket[stamp[r]] = b
              /\ b \in DOMAIN g => g[b] = {r \in rows : bucket[stamp[r]] = b}
  BY DEF Group

\* The rollups of an hour are replaced by those of all its readings.
LEMMA RollupStep ==
  ASSUME HistoryInv, RollupCommit
  PROVE  HistoryInv'
  <1> DEFINE h == worker.hour
             rows == worker.rows
             mine == {b \in Stamps : Hour(b) = h}
             recent == {b \in Stamps : b >= DayStart(worker.day - MinuteDays)}
             at == [t \in Stamps |-> t]
             hourAt == [t \in Stamps |-> Hour(t)]
  <1>1. /\ h \in Int /\ h \in dirty /\ worker.day <= today /\ worker.day \in Int /\ maintain = NoMaintenance
        /\ rows = OfHour(raw, h)
    BY DEF HistoryInv, WorkerInv, RollupCommit
  <1>2. Stamps \subseteq Int /\ \A r \in Accepted : stamp[r] \in Stamps /\ stamp[r] \in Int /\ Hour(stamp[r]) \in Int
    <2>1. Stamps \subseteq Int
      BY HistoryAssumption
    <2> QED
      BY <2>1, HourInDay DEF HistoryInv, StoreInv, StoreTypes
  <1>3. rows = OfHour(Accepted, h) /\ \A r \in rows : r \in Accepted /\ Hour(stamp[r]) = h
    BY <1>1, <1>2 DEF OfHour, HistoryInv, StoreInv, StoreTypes, NothingDroppedUnrolled
  <1>4. /\ minutes' = Group(rows, minutes, mine, at, recent)
        /\ hours' = Group(rows, hours, {h}, hourAt, {h})
        /\ dirty' = dirty \ {h} /\ worker' = NoWork
        /\ UNCHANGED <<today, rawBefore, stamp, raw, ingest, maintain, reader>>
    BY DEF RollupCommit
  <1>5. \A r \in rows : at[stamp[r]] = stamp[r] /\ stamp[r] \in mine /\ hourAt[stamp[r]] = h
    BY <1>2, <1>3
  <1> HIDE DEF h, rows, mine, recent, at, hourAt
  <1>6. ASSUME NEW k
        PROVE  /\ k # h => (k \in DOMAIN hours' <=> k \in DOMAIN hours) /\ (k \in DOMAIN hours' => hours'[k] = hours[k])
               /\ k = h => /\ k \in DOMAIN hours' <=> rows # {}
                           /\ k \in DOMAIN hours' => hours'[k] = rows
    <2> DEFINE g == Group(rows, hours, {h}, hourAt, {h})
    <2>1. \A r \in rows : hourAt[stamp[r]] \in {h}
      BY <1>5
    <2>2. /\ k \notin {h} => (k \in DOMAIN g <=> k \in DOMAIN hours) /\ (k \in DOMAIN g => g[k] = hours[k])
          /\ k \in {h} =>
               /\ k \in DOMAIN g <=> k \in {h} /\ \E r \in rows : hourAt[stamp[r]] = k
               /\ k \in DOMAIN g => g[k] = {r \in rows : hourAt[stamp[r]] = k}
      BY <2>1, Grouped
    <2>3. hours' = g
      BY <1>4
    <2> HIDE DEF g
    <2>4. {r \in rows : hourAt[stamp[r]] = h} = rows
      BY <1>5
    <2> QED
      BY <1>5, <2>2, <2>3, <2>4
  <1>7. ASSUME NEW b
        PROVE  /\ b \notin mine => (b \in DOMAIN minutes' <=> b \in DOMAIN minutes) /\ (b \in DOMAIN minutes' => minutes'[b] = minutes[b])
               /\ b \in mine => /\ b \in DOMAIN minutes' <=> b \in recent /\ \E r \in rows : stamp[r] = b
                                /\ b \in DOMAIN minutes' => minutes'[b] = {r \in rows : stamp[r] = b}
    BY <1>4, <1>5, Grouped
  <1>8. StoreTypes' /\ RawKept' /\ NothingDroppedUnrolled'
    BY <1>4 DEF HistoryInv, StoreInv, StoreTypes, RawKept, NothingDroppedUnrolled, Accepted
  <1>9. Accepted' = Accepted /\ \A k : OfHour(Accepted, k)' = OfHour(Accepted, k)
    BY <1>4 DEF Accepted, OfHour
  <1>10. HoursKept'
    BY <1>1, <1>3, <1>6, <1>9 DEF HistoryInv, StoreInv, HoursKept
  <1>11. RollupExact'
    <2> SUFFICES ASSUME NEW r \in Accepted, Hour(stamp[r]) \notin dirty'
                 PROVE  Hour(stamp[r]) \in DOMAIN hours' /\ hours'[Hour(stamp[r])] = OfHour(Accepted, Hour(stamp[r]))
      BY <1>4, <1>9 DEF RollupExact
    <2>1. CASE Hour(stamp[r]) = h
      BY <1>3, <1>6, <2>1 DEF OfHour
    <2>2. CASE Hour(stamp[r]) # h
      BY <1>4, <1>6, <2>2 DEF HistoryInv, StoreInv, RollupExact
    <2> QED
      BY <2>1, <2>2
  <1>12. MinutesKept'
    <2>1. ASSUME NEW b \in DOMAIN minutes'
          PROVE  b \in Int /\ minutes'[b] \subseteq {r \in Accepted : stamp[r] = b}
      <3>1. mine \subseteq Int
        BY <1>2 DEF mine
      <3>2. CASE b \in mine
        <4>1. minutes'[b] = {r \in rows : stamp[r] = b}
          BY <1>7, <2>1, <3>2
        <4> QED
          BY <1>3, <3>1, <3>2, <4>1
      <3>3. CASE b \notin mine
        <4>1. b \in DOMAIN minutes /\ minutes'[b] = minutes[b]
          BY <1>7, <2>1, <3>3
        <4> QED
          BY <4>1 DEF HistoryInv, StoreInv, MinutesKept
      <3> QED
        BY <3>2, <3>3
    <2>2. ASSUME NEW r \in Accepted, Hour(stamp[r]) \notin dirty', stamp[r] >= DayStart(today - MinuteDays)
          PROVE  stamp[r] \in DOMAIN minutes' /\ r \in minutes'[stamp[r]]
      <3>1. CASE Hour(stamp[r]) = h
        <4>1. DayStart(worker.day - MinuteDays) <= DayStart(today - MinuteDays)
              /\ DayStart(worker.day - MinuteDays) \in Int /\ DayStart(today - MinuteDays) \in Int
          BY <1>1, HistoryAssumption, DayStarts DEF HistoryInv, StoreInv, StoreTypes
        <4>2. stamp[r] \in recent /\ stamp[r] \in mine /\ r \in rows
          BY <1>2, <1>3, <2>2, <3>1, <4>1 DEF recent, mine, OfHour
        <4> QED
          BY <1>7, <4>2
      <3>2. CASE Hour(stamp[r]) # h
        <4>1. stamp[r] \notin mine /\ Hour(stamp[r]) \notin dirty
          BY <1>4, <2>2, <3>2 DEF mine
        <4> QED
          BY <1>7, <2>2, <4>1 DEF HistoryInv, StoreInv, MinutesKept
      <3> QED
        BY <3>1, <3>2
    <2> QED
      BY <1>4, <1>9, <2>1, <2>2 DEF MinutesKept
  <1>13. IngestInv' /\ WorkerInv' /\ MaintainInv' /\ ReaderInv'
    BY <1>4, <1>9 DEF HistoryInv, IngestInv, WorkerInv, MaintainInv, ReaderInv, NoWork, MarkerFree
  <1> QED
    BY <1>8, <1>10, <1>11, <1>12, <1>13 DEF HistoryInv, StoreInv

\* The maintenance drops only what is past the boundary and rolled up.
LEMMA MaintainStep ==
  ASSUME HistoryInv, MaintainCommit
  PROVE  HistoryInv'
  <1> DEFINE now == maintain
             boundary == Larger(rawBefore, DayStart(now - RawDays))
             days == parts \cup Made(now)
             old == {d \in days : DayStart(d + 1) <= boundary /\ ~Pending(d)}
  <1>1. /\ now \in Int /\ now <= today /\ maintain # NoMaintenance /\ reader.st = "idle" /\ ingest = NoIngest
        /\ worker.st # "aggregated"
    BY DEF HistoryInv, MaintainInv, IngestInv, WorkerInv, MaintainCommit
  <1>2. /\ maintain' = NoMaintenance /\ rawBefore' = boundary
        /\ raw' = {r \in raw : Day(stamp[r]) \notin old} \ ExpiredDefault(days, boundary)
        /\ minutes' = [b \in {x \in DOMAIN minutes : x >= DayStart(now - MinuteDays)} |-> minutes[b]]
        /\ UNCHANGED <<today, stamp, dirty, hours, ingest, worker, reader>>
    BY DEF MaintainCommit
  <1>3. /\ \A r \in Accepted : stamp[r] \in Int /\ Hour(stamp[r]) \in Int /\ Day(stamp[r]) \in Int
                               /\ DayOfHour(Hour(stamp[r])) = Day(stamp[r])
        /\ rawBefore \in Int
    <2>1. Stamps \subseteq Int
      BY HistoryAssumption
    <2> QED
      BY <2>1, HourInDay, DayStarts DEF HistoryInv, StoreInv, StoreTypes
  <1>4. /\ boundary \in Int /\ rawBefore <= boundary /\ \E d \in Int : boundary = DayStart(d)
    <2>1. DayStart(now - RawDays) \in Int /\ now - RawDays \in Int
      BY <1>1, HistoryAssumption, DayStarts
    <2> QED
      BY <1>3, <2>1 DEF Larger, HistoryInv, StoreInv, StoreTypes
  <1>5. \A r \in Accepted : stamp[r] < DayStart(Day(stamp[r]) + 1)
    BY <1>3, HourInDay, Buckets DEF DayStart, Day
  <1> HIDE DEF now, boundary, days
  <1>6. ASSUME NEW r \in raw, stamp[r] >= boundary \/ Hour(stamp[r]) \in dirty
        PROVE  r \in raw'
    <2>1. r \in Accepted
      BY DEF HistoryInv, StoreInv, StoreTypes
    <2>2. r \notin ExpiredDefault(days, boundary)
      BY <1>3, <1>4, <1>6, <2>1 DEF ExpiredDefault
    <2>3. CASE stamp[r] >= boundary
      <3>1. DayStart(Day(stamp[r]) + 1) \in Int /\ ~(DayStart(Day(stamp[r]) + 1) <= boundary)
        BY <1>3, <1>4, <1>5, <2>1, <2>3, DayStarts
      <3> QED
        BY <1>2, <2>2, <3>1
    <2>4. CASE Hour(stamp[r]) \in dirty
      <3>1. Pending(Day(stamp[r]))
        BY <1>3, <2>1, <2>4 DEF Pending
      <3> QED
        BY <1>2, <2>2, <3>1
    <2> QED
      BY <1>6, <2>3, <2>4
  <1> HIDE DEF old
  <1>7. Accepted' = Accepted /\ \A k : OfHour(Accepted, k)' = OfHour(Accepted, k)
    BY <1>2 DEF Accepted, OfHour
  <1>8. raw' \subseteq raw
    BY <1>2
  <1>9. StoreTypes'
    BY <1>2, <1>4, <1>7, <1>8 DEF HistoryInv, StoreInv, StoreTypes, DayStart
  <1>10. RawKept'
    BY <1>2, <1>3, <1>4, <1>6, <1>7 DEF HistoryInv, StoreInv, RawKept
  <1>11. NothingDroppedUnrolled'
    BY <1>2, <1>6, <1>7 DEF HistoryInv, StoreInv, NothingDroppedUnrolled, Hour
  <1>12. HoursKept' /\ RollupExact'
    BY <1>2, <1>7 DEF HistoryInv, StoreInv, HoursKept, RollupExact, Hour
  <1>13. MinutesKept'
    <2>1. /\ DayStart(now - MinuteDays) \in Int /\ DayStart(today - MinuteDays) \in Int
          /\ DayStart(now - MinuteDays) <= DayStart(today - MinuteDays)
      BY <1>1, HistoryAssumption, DayStarts DEF HistoryInv, StoreInv, StoreTypes
    <2>2. \A b \in DOMAIN minutes' : b \in DOMAIN minutes /\ minutes'[b] = minutes[b]
      BY <1>2
    <2>3. \A b \in DOMAIN minutes : b >= DayStart(today - MinuteDays) => b \in DOMAIN minutes'
      BY <1>2, <2>1 DEF HistoryInv, StoreInv, MinutesKept
    <2> QED
      BY <1>2, <1>7, <2>2, <2>3 DEF HistoryInv, StoreInv, MinutesKept, Hour
  <1>14. IngestInv' /\ WorkerInv' /\ MaintainInv' /\ ReaderInv'
    <2>1. MaintainInv'
      BY <1>2 DEF MaintainInv, NoMaintenance, HistoryInv, StoreInv, StoreTypes
    <2>2. IngestInv' /\ WorkerInv' /\ ReaderInv'
      BY <1>1, <1>2 DEF HistoryInv, IngestInv, WorkerInv, ReaderInv
    <2> QED
      BY <2>1, <2>2
  <1> QED
    BY <1>9, <1>10, <1>11, <1>12, <1>13, <1>14 DEF HistoryInv, StoreInv

\* What a read finds of a window is all of it, unless it says otherwise.
LEMMA PointsFound ==
  ASSUME HistoryInv, NEW res \in Resolutions, NEW d \in Int, ~Expired(res, DayStart(d)),
         res \in {"1h", "series"} => DayStart(d) % MinutesPerHour = 0
  PROVE  LET from == DayStart(d) IN
         /\ Points(res, from) \subseteq Within(Accepted, from)
         /\ ~PendingRollup(res, from) =>
              \/ res = "series"
              \/ res = "window" /\ from < rawBefore
              \/ Points(res, from) = Within(Accepted, from)
         /\ res \in {"raw", "window"} => Points(res, from) \subseteq raw
  <1> DEFINE from == DayStart(d)
  <1>1. /\ from \in Int /\ rawBefore \in Int /\ raw \subseteq Accepted /\ MinutesPerHour \in Nat \ {0}
        /\ \A r \in Accepted : stamp[r] \in Int /\ Hour(stamp[r]) \in Int
    <2>1. Stamps \subseteq Int
      BY HistoryAssumption
    <2> QED
      BY <2>1, HistoryAssumption, HourInDay, DayStarts DEF HistoryInv, StoreInv, StoreTypes
  <1>2. from = (d * HoursPerDay) * MinutesPerHour /\ d * HoursPerDay \in Int
    BY HistoryAssumption DEF DayStart, MinutesPerDay
  <1> HIDE DEF from
  <1>3. CASE res \in {"raw", "window"}
    <2>1. Points(res, from) = Within(raw, from)
      BY <1>3 DEF Points, WindowRows
    <2>2. from >= rawBefore => Within(raw, from) = Within(Accepted, from)
      BY <1>1 DEF Within, HistoryInv, StoreInv, RawKept
    <2>3. Within(raw, from) \subseteq Within(Accepted, from) /\ Within(raw, from) \subseteq raw
      BY <1>1 DEF Within
    <2> QED
      BY <1>1, <1>3, <2>1, <2>2, <2>3 DEF Expired, from
  <1>4. CASE res = "1m"
    <2>1. Points(res, from) = SeriesRows(minutes, 1, from)
      BY <1>4 DEF Points
    <2>2. Points(res, from) \subseteq Within(Accepted, from)
      BY <1>1, <2>1 DEF SeriesRows, Within, HistoryInv, StoreInv, MinutesKept
    <2>3. ASSUME ~PendingRollup(res, from), NEW r \in Within(Accepted, from)
          PROVE  r \in Points(res, from)
      <3>1. r \in Accepted /\ stamp[r] >= from
        BY DEF Within
      <3>2. stamp[r] < (Hour(stamp[r]) + 1) * MinutesPerHour /\ (Hour(stamp[r]) + 1) * MinutesPerHour \in Int
        BY <1>1, <3>1, HourSpan
      <3>3. Hour(stamp[r]) \notin dirty
        BY <1>1, <1>4, <2>3, <3>1, <3>2 DEF PendingRollup
      <3>4. DayStart(today - MinuteDays) \in Int /\ stamp[r] >= DayStart(today - MinuteDays)
        BY <1>1, <1>4, <3>1, DayStarts, HistoryAssumption DEF Expired, HistoryInv, StoreInv, StoreTypes, from
      <3>5. stamp[r] \in DOMAIN minutes /\ r \in minutes[stamp[r]]
        BY <3>1, <3>3, <3>4 DEF HistoryInv, StoreInv, MinutesKept
      <3> QED
        BY <1>1, <2>1, <3>1, <3>5 DEF SeriesRows
    <2> QED
      BY <1>4, <2>2, <2>3 DEF from
  <1>5. CASE res \in {"1h", "series"}
    <2>1. Points(res, from) = SeriesRows(hours, MinutesPerHour, from)
      BY <1>5 DEF Points
    <2>2. Points(res, from) \subseteq Within(Accepted, from)
      <3> SUFFICES ASSUME NEW h \in DOMAIN hours, h * MinutesPerHour >= from, NEW r \in hours[h]
                   PROVE  r \in Within(Accepted, from)
        BY <2>1 DEF SeriesRows
      <3>1. r \in Accepted /\ Hour(stamp[r]) = h
        BY DEF HistoryInv, StoreInv, HoursKept, OfHour
      <3>2. h * MinutesPerHour <= stamp[r] /\ h * MinutesPerHour \in Int
        BY <1>1, <3>1, HourSpan
      <3> QED
        BY <1>1, <3>1, <3>2 DEF Within
    <2>3. ASSUME res = "1h", ~PendingRollup(res, from), NEW r \in Within(Accepted, from)
          PROVE  r \in Points(res, from)
      <3>1. r \in Accepted /\ stamp[r] >= from
        BY DEF Within
      <3>2. d * HoursPerDay <= Hour(stamp[r])
        BY <1>1, <1>2, <3>1, BucketFrom DEF Hour
      <3>3. Hour(stamp[r]) * MinutesPerHour >= from /\ (Hour(stamp[r]) + 1) * MinutesPerHour > from
        <4>1. (d * HoursPerDay) * MinutesPerHour <= Hour(stamp[r]) * MinutesPerHour
          BY <1>1, <1>2, <3>1, <3>2
        <4>2. Hour(stamp[r]) * MinutesPerHour < (Hour(stamp[r]) + 1) * MinutesPerHour
          BY <1>1, <3>1
        <4> QED
          BY <1>1, <1>2, <3>1, <4>1, <4>2
      <3>4. Hour(stamp[r]) \notin dirty
        BY <2>3, <3>3 DEF PendingRollup
      <3>5. Hour(stamp[r]) \in DOMAIN hours /\ r \in hours[Hour(stamp[r])]
        BY <3>1, <3>4 DEF HistoryInv, StoreInv, RollupExact, OfHour
      <3> QED
        BY <2>1, <3>3, <3>5 DEF SeriesRows
    <2> QED
      BY <1>5, <2>2, <2>3 DEF from
  <1> QED
    BY <1>3, <1>4, <1>5 DEF Resolutions

LEMMA SnapshotStep ==
  ASSUME HistoryInv, NEW res \in Resolutions, NEW d \in 0 .. today, Snapshot(res, DayStart(d))
  PROVE  HistoryInv'
  <1>1. UNCHANGED <<today, store, ingest, worker, maintain>> /\ reader.st = "locked"
    BY DEF Snapshot
  <1>2. today \in Nat /\ d \in Int
    BY DEF HistoryInv, StoreInv, StoreTypes
  <1>3. StoreInv'
    BY <1>1, <1>2, StoreRests DEF HistoryInv
  <1>4. IngestInv' /\ WorkerInv'
    BY <1>1 DEF HistoryInv, IngestInv, WorkerInv, store, Accepted, MarkerFree, OfHour
  <1>5. MaintainInv'
    BY <1>1 DEF HistoryInv, MaintainInv
  <1>6. ReaderInv'
    <2>1. CASE Expired(res, DayStart(d))
      BY <1>1, <2>1 DEF Snapshot, ReaderInv, NoReader, Resolutions
    <2>2. CASE ~Expired(res, DayStart(d))
      <3> DEFINE from == DayStart(d)
                 p == PendingRollup(res, from)
                 rows == Points(res, from)
                 want == Within(Accepted, from)
      <3>1. reader' = [st |-> "snapshot", res |-> res, from |-> from, pending |-> p, rows |-> rows, want |-> want]
        BY <2>2 DEF Snapshot
      <3>2. /\ rows \subseteq want
            /\ ~p => \/ res = "series"
                     \/ res = "window" /\ from < rawBefore
                     \/ rows = want
            /\ res \in {"raw", "window"} => rows \subseteq raw
        BY <1>2, <2>2, PointsFound DEF Snapshot
      <3>3. p \in BOOLEAN
        BY DEF PendingRollup
      <3>4. want \subseteq Readings /\ from \in Int
        BY <1>2, DayStarts DEF Within, HistoryInv, StoreInv, StoreTypes
      <3> HIDE DEF from, p, rows, want
      <3>5. raw' = raw /\ rawBefore' = rawBefore
        BY <1>1 DEF store
      <3> QED
        BY <3>1, <3>2, <3>3, <3>4, <3>5 DEF ReaderInv
    <2> QED
      BY <2>1, <2>2
  <1> QED
    BY <1>3, <1>4, <1>5, <1>6 DEF HistoryInv

LEMMA RestStep ==
  ASSUME HistoryInv,
         \/ Midnight \/ Aggregate \/ MaintainLock \/ RollBack
         \/ \E r \in Readings, t \in Stamps : Insert(r, t)
         \/ \E h \in dirty : Claim(h)
         \/ ReadLock \/ ReadAborted \/ ReadRows \/ ReadEnds
  PROVE  HistoryInv'
  <1> USE DEF NoIngest, NoWork, NoMaintenance, NoReader
  <1>1. today \in Nat /\ UNCHANGED store /\ today' \in Nat /\ today <= today'
    BY DEF HistoryInv, StoreInv, StoreTypes, Midnight, Aggregate, MaintainLock, RollBack, Insert, Claim, ReadLock,
           ReadAborted, ReadRows, ReadEnds
  <1>2. StoreInv'
    BY <1>1, StoreRests DEF HistoryInv
  <1>3. /\ UNCHANGED <<rawBefore, stamp, raw, dirty, Accepted>> /\ raw \subseteq Readings
        /\ \A h : OfHour(raw, h)' = OfHour(raw, h)
    BY <1>1 DEF store, Accepted, OfHour, HistoryInv, StoreInv, StoreTypes
  <1>4. IngestInv'
    <2>1. CASE ingest' = NoIngest
      BY <2>1 DEF IngestInv
    <2>2. CASE ingest' = ingest /\ UNCHANGED <<worker, maintain>>
      BY <1>3, <2>2 DEF HistoryInv, IngestInv, MarkerFree
    <2>3. CASE ingest' = ingest /\ worker' = NoWork /\ UNCHANGED maintain
      BY <1>3, <2>3 DEF HistoryInv, IngestInv, MarkerFree
    <2>4. CASE Aggregate
      BY <1>3, <2>4 DEF HistoryInv, IngestInv, WorkerInv, MarkerFree, Aggregate
    <2>5. ASSUME NEW h \in dirty, Claim(h) PROVE IngestInv'
      BY <1>3, <2>5 DEF HistoryInv, IngestInv, MarkerFree, Claim
    <2>6. CASE MaintainLock
      BY <2>6 DEF MaintainLock, IngestInv
    <2>7. ASSUME NEW r \in Readings, NEW t \in Stamps, Insert(r, t) PROVE IngestInv'
      BY <1>3, <2>7 DEF HistoryInv, IngestInv, MarkerFree, Insert
    <2>8. CASE RollBack
      BY <2>1, <2>2, <2>3, <2>8, <1>3 DEF RollBack, HistoryInv, IngestInv
    <2> QED
      BY <2>2, <2>4, <2>5, <2>6, <2>7, <2>8 DEF Midnight, ReadLock, ReadAborted, ReadRows, ReadEnds
  <1>5. WorkerInv'
    <2>1. CASE worker' = NoWork
      BY <2>1 DEF WorkerInv
    <2>2. CASE worker' = worker /\ UNCHANGED maintain
      BY <1>1, <1>3, <2>2 DEF HistoryInv, StoreInv, StoreTypes, WorkerInv
    <2>3. CASE Aggregate
      <3>1. OfHour(raw, worker.hour) \subseteq Readings
        BY <1>3 DEF OfHour
      <3>2. worker' = [worker EXCEPT !.st = "aggregated", !.rows = OfHour(raw, worker.hour)] /\ today' = today
            /\ maintain' = NoMaintenance /\ worker.st = "claimed"
        BY <2>3 DEF Aggregate
      <3> QED
        BY <1>3, <3>1, <3>2 DEF HistoryInv, WorkerInv
    <2>4. ASSUME NEW h \in dirty, Claim(h) PROVE WorkerInv'
      BY <1>1, <1>3, <2>4 DEF HistoryInv, StoreInv, StoreTypes, WorkerInv, Claim
    <2>5. CASE MaintainLock
      BY <1>3, <2>5 DEF MaintainLock, HistoryInv, WorkerInv
    <2>6. CASE RollBack
      <3>1. CASE worker' = worker
        <4>1. worker.st = "aggregated" => maintain' = NoMaintenance
          BY <2>6 DEF RollBack, HistoryInv, WorkerInv
        <4> QED
          BY <1>1, <1>3, <3>1, <4>1 DEF HistoryInv, StoreInv, StoreTypes, WorkerInv
      <3> QED
        BY <2>1, <2>6, <3>1 DEF RollBack
    <2>7. CASE \E r \in Readings, t \in Stamps : Insert(r, t)
      BY <2>2, <2>7 DEF Insert
    <2> QED
      BY <2>2, <2>3, <2>4, <2>5, <2>6, <2>7 DEF Midnight, ReadLock, ReadAborted, ReadRows, ReadEnds
  <1>6. MaintainInv'
    BY <1>1 DEF HistoryInv, MaintainInv, Midnight, Aggregate, MaintainLock, ReaderHolds, RollBack, Insert, Claim, ReadLock,
           ReadAborted, ReadRows, ReadEnds
  <1>7. ReaderInv'
    <2>1. CASE reader' = reader
      BY <1>3, <2>1 DEF HistoryInv, ReaderInv
    <2>2. CASE reader' = NoReader
      BY <2>2 DEF ReaderInv, Resolutions
    <2>3. CASE ReadLock
      <3>1. reader' = [st |-> "locked", res |-> "raw", from |-> 0, pending |-> FALSE, rows |-> {}, want |-> {}]
        BY <2>3 DEF ReadLock
      <3> QED
        BY <3>1 DEF ReaderInv, Resolutions
    <2>4. CASE ReadRows
      <3> DEFINE rows == IF reader.res \in {"raw", "window"} THEN reader.rows \cap raw ELSE reader.rows
      <3>1. rows = reader.rows
        BY <2>4 DEF ReadRows, HistoryInv, ReaderInv
      <3>2. CASE Cardinality(rows) > Limit
        BY <2>2, <2>4, <3>2 DEF ReadRows
      <3>3. CASE ~(Cardinality(rows) > Limit)
        <4>1. reader' = [reader EXCEPT !.st = "answered", !.rows = reader.rows]
          BY <2>4, <3>1, <3>3 DEF ReadRows
        <4>2. reader.st = "snapshot"
          BY <2>4 DEF ReadRows
        <4> QED
          BY <1>3, <4>1, <4>2 DEF HistoryInv, ReaderInv
      <3> QED
        BY <3>2, <3>3
    <2> QED
      BY <2>1, <2>2, <2>3, <2>4 DEF Midnight, Aggregate, MaintainLock, RollBack, Insert, Claim, ReadAborted, ReadEnds
  <1> QED
    BY <1>2, <1>4, <1>5, <1>6, <1>7 DEF HistoryInv

LEMMA HistoryStep ==
  ASSUME HistoryInv, Next
  PROVE  HistoryInv'
  BY IngestCommitStep, RollupStep, MaintainStep, SnapshotStep, RestStep DEF Next

LEMMA HistoryKept ==
  ASSUME HistoryInv
  PROVE  KeptSound
  BY DEF HistoryInv, StoreInv, ReaderInv, KeptSound, HistoryComplete

(***************************************************************************)
(* What the portal tells about the devices.                                *)
(***************************************************************************)

\* A finite set of numbers has a greatest one: a smallest subset without one could lose any
\* of its members and still have none.
LEMMA FiniteGreatest ==
  ASSUME NEW S \in SUBSET Int, IsFiniteSet(S), S # {}
  PROVE  \E x \in S : \A y \in S : y <= x
  <1> DEFINE Without == {T \in SUBSET S : T # {} /\ \A x \in T : \E y \in T : ~(y <= x)}
  <1>1. CASE S \notin Without
    BY <1>1
  <1>2. CASE S \in Without
    <2>1. FiniteSubsetsOf(S) = SUBSET S /\ IsWellFoundedOn(StrictSubsetOrdering(S), FiniteSubsetsOf(S))
      BY FS_FiniteSubsetsOfFinite, FS_StrictSubsetOrderingWellFounded
    <2>2. Without \subseteq FiniteSubsetsOf(S) /\ Without # {}
      BY <1>2, <2>1
    <2> HIDE DEF Without
    <2>3. PICK T \in Without : \A U \in Without : <<U, T>> \notin StrictSubsetOrdering(S)
      BY <2>1, <2>2, WFMin
    <2>4. T \in SUBSET S /\ T # {} /\ \A x \in T : \E y \in T : ~(y <= x)
      BY DEF Without
    <2>5. PICK a \in T : TRUE
      BY <2>4
    <2> DEFINE U == T \ {a}
    <2>6. U \in SUBSET S /\ U # T /\ U \subseteq T
      BY <2>4
    <2>7. <<U, T>> \in StrictSubsetOrdering(S)
      BY <2>4, <2>6 DEF StrictSubsetOrdering
    <2>8. U \notin Without
      BY <2>3, <2>7
    <2>9. PICK b \in T : ~(b <= a)
      BY <2>4
    <2>10. b \in U
      BY <2>4, <2>9
    <2>11. PICK x \in U : \A y \in U : y <= x
      BY <2>6, <2>8, <2>10 DEF Without
    <2>12. x \in T /\ \A y \in T : y <= x
      BY <2>4, <2>9, <2>10, <2>11
    <2> QED
      BY <2>4, <2>12
  <1> QED
    BY <1>1, <1>2

LEMMA MaxOf ==
  ASSUME NEW S \in SUBSET Int, IsFiniteSet(S), S # {}
  PROVE  Max(S) \in S /\ \A y \in S : y <= Max(S)
  <1>1. \E x \in S : \A y \in S : x >= y
    BY FiniteGreatest
  <1> QED
    BY <1>1 DEF Max

LEMMA FiniteLeast ==
  ASSUME NEW S \in SUBSET Int, IsFiniteSet(S), S # {}
  PROVE  \E x \in S : \A y \in S : x <= y
  <1> DEFINE f == [x \in S |-> -x]
             T == {-x : x \in S}
  <1>1. f \in Surjection(S, T)
    BY DEF Surjection
  <1>2. IsFiniteSet(T) /\ T \in SUBSET Int /\ T # {}
    <2>1. IsFiniteSet(T)
      BY <1>1, FS_Surjection
    <2>2. \A x \in S : -x \in Int
      OBVIOUS
    <2>3. T \subseteq Int
      BY <2>2
    <2>4. T # {}
      OBVIOUS
    <2> QED
      BY <2>1, <2>3, <2>4
  <1>3. PICK m \in T : \A y \in T : y <= m
    BY <1>2, FiniteGreatest
  <1>4. PICK x \in S : m = -x
    BY <1>3
  <1>5. ASSUME NEW y \in S PROVE x <= y
    <2>1. -y <= -x /\ x \in Int /\ y \in Int
      BY <1>3, <1>4
    <2> QED
      BY <2>1
  <1> QED
    BY <1>5

(***************************************************************************)
(* Pages.                                                                  *)
(***************************************************************************)
Lists == {"fleet", "pictures"}

\* The order of a list is total on numbers.
LEMMA Ordered ==
  ASSUME NEW list \in Lists, NEW x \in Int, NEW y \in Int
  PROVE  /\ ~Before(list, x, x) /\ (x # y => Before(list, x, y) \/ Before(list, y, x))
         /\ \A z \in Int : Before(list, x, y) /\ Before(list, y, z) => Before(list, x, z)
  BY DEF Before, Lists

LEMMA FirstAndLast ==
  ASSUME NEW list \in Lists, NEW S \in SUBSET Int, IsFiniteSet(S), S # {}
  PROVE  /\ \E x \in S : \A y \in S : ~Before(list, y, x)
         /\ \E x \in S : \A y \in S : ~Before(list, x, y)
  <1>1. PICK g \in S : \A y \in S : y <= g
    BY FiniteGreatest
  <1>2. PICK l \in S : \A y \in S : l <= y
    BY FiniteLeast
  <1> QED
    BY <1>1, <1>2 DEF Before, Lists

\* A page holds the first rows, its cursor parts them from the rest, and without a cursor it
\* holds every row.
LEMMA Paged ==
  ASSUME NEW list \in Lists, NEW rows \in SUBSET (Nat \ {0}), IsFiniteSet(rows)
  PROVE  LET page == PageOf(list, rows)
             next == NextCursor(list, rows)
         IN  /\ page \subseteq rows /\ next \in Nat
             /\ next = Never => page = rows
             /\ next # Never =>
                  /\ next \in page
                  /\ \A x \in page : x = next \/ Before(list, x, next)
                  /\ \A x \in rows \ page : Before(list, next, x)
  <1> DEFINE page == PageOf(list, rows)
             next == NextCursor(list, rows)
             ahead(x) == {y \in rows : Before(list, y, x)}
  <1>1. page = {x \in rows : Cardinality(ahead(x)) < PageSize} /\ page \subseteq rows
    BY DEF PageOf
  <1>2. Cardinality(rows) \in Nat /\ PageSize \in Nat \ {0} /\ rows \subseteq Int
    BY FS_CardinalityType, FleetAssumption
  <1>3. \A x \in rows : IsFiniteSet(ahead(x)) /\ Cardinality(ahead(x)) \in Nat
    BY FS_Subset, FS_CardinalityType
  <1>4. CASE ~(Cardinality(rows) > PageSize)
    <2>1. next = Never
      BY <1>4 DEF NextCursor
    <2>2. ASSUME NEW x \in rows PROVE Cardinality(ahead(x)) < PageSize
      <3>1. ahead(x) \in SUBSET (rows \ {x})
        BY <1>2, Ordered
      <3>2. IsFiniteSet(rows \ {x}) /\ Cardinality(rows \ {x}) = Cardinality(rows) - 1
        BY FS_RemoveElement
      <3>3. Cardinality(ahead(x)) <= Cardinality(rows) - 1
        BY <3>1, <3>2, FS_Subset
      <3> QED
        BY <1>2, <1>3, <1>4, <3>3
    <2>3. page = rows
      BY <1>1, <2>2
    <2> QED
      BY <2>1, <2>3 DEF Never
  <1>5. CASE Cardinality(rows) > PageSize
    <2>1. rows # {}
      BY <1>2, <1>5, FS_EmptySet
    <2>2. PICK first \in rows : \A y \in rows : ~Before(list, y, first)
      BY <1>2, <2>1, FirstAndLast
    <2>3. ahead(first) = {}
      BY <2>2
    <2>4. first \in page
      BY <1>1, <1>2, <2>3, FS_EmptySet
    <2>5. IsFiniteSet(page) /\ page \in SUBSET Int
      BY <1>1, <1>2, FS_Subset
    <2>6. \E x \in page : \A y \in page : ~Before(list, x, y)
      BY <2>4, <2>5, FirstAndLast
    <2>7. next = LastOf(list, page)
      BY <1>5 DEF NextCursor
    <2> HIDE DEF page, next
    <2>8. next \in page /\ \A y \in page : ~Before(list, next, y)
      BY <2>6, <2>7 DEF LastOf
    <2>9. ASSUME NEW x \in rows, x \notin page PROVE Before(list, next, x)
      <3>1. next \in rows /\ next \in Int /\ x \in Int /\ x # next
        BY <1>1, <1>2, <2>8, <2>9
      <3>2. CASE Before(list, x, next)
        <4>1. ahead(x) \in SUBSET ahead(next)
          BY <1>2, <3>1, <3>2, Ordered
        <4>2. Cardinality(ahead(x)) <= Cardinality(ahead(next)) /\ Cardinality(ahead(next)) < PageSize
          BY <1>1, <1>3, <2>8, <3>1, <4>1, FS_Subset
        <4>3. Cardinality(ahead(x)) < PageSize
          BY <1>2, <1>3, <3>1, <4>2
        <4> QED
          BY <1>1, <2>9, <4>3
      <3> QED
        BY <3>1, <3>2, Ordered
    <2>10. \A x \in page : x = next \/ Before(list, x, next)
      BY <1>1, <1>2, <2>8, Ordered
    <2>11. next \in Nat /\ next # Never
      BY <1>1, <2>8 DEF Never
    <2> QED
      BY <1>1, <2>8, <2>9, <2>10, <2>11 DEF page, next
  <1> QED
    BY <1>4, <1>5

(***************************************************************************)
(* Somebody follows the pages of a list.                                   *)
(***************************************************************************)
Presence == [capture : Nat, received : Nat]

FleetTypes ==
  /\ clock \in Nat \ {0} /\ registered \subseteq Devices /\ lastSeen \in [Devices -> Nat]
  /\ DOMAIN seenOf = Devices /\ \A d \in Devices : seenOf[d] \in [DOMAIN SourcesOf[d] -> Presence]
  /\ DOMAIN latestOf = Devices
  /\ IsFiniteSet(pictures) /\ \A p \in pictures : p.rank \in Nat \ {0}

\* The rows that stayed in the list are shown already or lie behind the cursor; the shown ones
\* do not.
WalkInv ==
  /\ walk \in [pc : {"none", "asking", "over"}, list : Lists,
               filter : {"all", "online", "offline", "never_seen", "revoked"}, after : Nat,
               listed : SUBSET Nat, twice : BOOLEAN, always : SUBSET Nat]
  /\ ~walk.twice
  /\ walk.pc = "asking" =>
       /\ \A x \in walk.always : InList(walk.list, walk.filter, x)
       /\ \A x \in walk.always : x \in walk.listed \/ walk.after = Never \/ Before(walk.list, walk.after, x)
       /\ walk.after = Never => walk.listed = {}
       /\ walk.after # Never => \A x \in walk.listed : x = walk.after \/ Before(walk.list, x, walk.after)
  /\ walk.pc = "over" => walk.always \subseteq walk.listed

\* What is in a list can be listed, by a number.
LEMMA Listed ==
  ASSUME FleetTypes, NEW list \in Lists
  PROVE  /\ IsFiniteSet(Listable(list)) /\ Listable(list) \subseteq Nat \ {0}
         /\ \A filter, x : InList(list, filter, x) => x \in Listable(list)
  <1>1. CASE list = "fleet"
    BY <1>1, FleetAssumption DEF FleetTypes, Listable, InList
  <1>2. CASE list = "pictures"
    <2> DEFINE f == [p \in pictures |-> p.rank]
               S == {p.rank : p \in pictures}
    <2>1. f \in Surjection(pictures, S)
      BY DEF Surjection
    <2>2. IsFiniteSet(S)
      BY <2>1, FS_Surjection DEF FleetTypes
    <2> QED
      BY <1>2, <2>2 DEF FleetTypes, Listable, InList
  <1> QED
    BY <1>1, <1>2 DEF Lists

LEMMA FollowedStep ==
  ASSUME WalkInv, Followed, Judged
  PROVE  WalkInv'
  <1>1. walk' = [walk EXCEPT !.always = {x \in walk.always : InList(walk.list, walk.filter, x)'}]
    BY DEF Followed
  <1>2. walk.pc # "over"
    BY DEF Judged
  <1>3. /\ walk'.pc = walk.pc /\ walk'.list = walk.list /\ walk'.filter = walk.filter /\ walk'.after = walk.after
        /\ walk'.listed = walk.listed /\ walk'.twice = walk.twice /\ walk'.always \subseteq walk.always
    BY <1>1 DEF WalkInv
  <1>4. \A x \in walk'.always : InList(walk.list, walk.filter, x)'
    BY <1>1 DEF WalkInv
  <1>5. walk' \in [pc : {"none", "asking", "over"}, list : Lists,
                   filter : {"all", "online", "offline", "never_seen", "revoked"}, after : Nat,
                   listed : SUBSET Nat, twice : BOOLEAN, always : SUBSET Nat]
    BY <1>1 DEF WalkInv
  <1> QED
    BY <1>2, <1>3, <1>4, <1>5 DEF WalkInv, Before

LEMMA ListRests ==
  ASSUME UNCHANGED fleetWorld, NEW list, NEW filter, NEW x, InList(list, filter, x)
  PROVE  InList(list, filter, x)'
  BY DEF fleetWorld, InList, DeviceStatus, Received, Stale, HealthySource

LEMMA WalkStartsStep ==
  ASSUME FleetTypes, NEW list \in Lists, NEW filter \in {"all", "online", "offline", "never_seen", "revoked"},
         WalkStarts(list, filter)
  PROVE  WalkInv'
  <1> DEFINE always == {x \in Listable(list) : InList(list, filter, x)}
  <1>1. walk' = [pc |-> "asking", list |-> list, filter |-> filter, after |-> Never, listed |-> {}, twice |-> FALSE,
                 always |-> always]
    BY DEF WalkStarts, NoWalk
  <1>2. always \subseteq Nat
    BY Listed
  <1>3. \A x \in always : InList(list, filter, x)'
    BY ListRests DEF WalkStarts
  <1> HIDE DEF always
  <1> QED
    BY <1>1, <1>2, <1>3 DEF WalkInv, Never

LEMMA WalkPageStep ==
  ASSUME FleetTypes, WalkInv, WalkPage
  PROVE  WalkInv'
  <1> DEFINE list == walk.list
             after == walk.after
             rows == {x \in Listable(list) : InList(list, walk.filter, x) /\ (after = Never \/ Before(list, after, x))}
             page == PageOf(list, rows)
             next == NextCursor(list, rows)
  <1>1. /\ list \in Lists /\ after \in Nat /\ walk.listed \subseteq Nat /\ walk.always \subseteq Nat /\ walk.pc = "asking"
        /\ ~walk.twice
    BY DEF WalkInv, WalkPage
  <1>2. rows \in SUBSET (Nat \ {0}) /\ IsFiniteSet(rows)
    <2>1. rows \in SUBSET Listable(list) /\ IsFiniteSet(Listable(list)) /\ Listable(list) \subseteq Nat \ {0}
      BY <1>1, Listed
    <2> QED
      BY <2>1, FS_Subset
  <1>3. /\ page \subseteq rows /\ next \in Nat
        /\ next = Never => page = rows
        /\ next # Never => /\ next \in page
                           /\ \A x \in page : x = next \/ Before(list, x, next)
                           /\ \A x \in rows \ page : Before(list, next, x)
    BY <1>1, <1>2, Paged
  <1>4. walk' = [walk EXCEPT !.pc = IF next = Never THEN "over" ELSE "asking", !.after = next,
                             !.listed = walk.listed \cup page, !.twice = walk.twice \/ page \cap walk.listed # {}]
        /\ UNCHANGED fleetWorld
    BY DEF WalkPage
  <1>5. \A x \in walk.always : x \in walk.listed \/ x \in rows
    BY <1>1, Listed DEF WalkInv
  <1>6. \A x \in rows : after = Never \/ Before(list, after, x)
    OBVIOUS
  <1> HIDE DEF list, after, rows, page, next
  <1>7. page \cap walk.listed = {}
    <2> SUFFICES ASSUME NEW x \in page, x \in walk.listed PROVE FALSE
      OBVIOUS
    <2>1. after # Never /\ (x = after \/ Before(list, x, after)) /\ Before(list, after, x)
      BY <1>1, <1>3, <1>6 DEF WalkInv, list, after
    <2> QED
      BY <1>1, <2>1, Ordered
  <1>8. /\ walk' \in [pc : {"none", "asking", "over"}, list : Lists,
                      filter : {"all", "online", "offline", "never_seen", "revoked"}, after : Nat,
                      listed : SUBSET Nat, twice : BOOLEAN, always : SUBSET Nat]
        /\ walk'.twice = FALSE
        /\ walk'.pc = (IF next = Never THEN "over" ELSE "asking") /\ walk'.after = next /\ walk'.list = list
        /\ walk'.filter = walk.filter /\ walk'.listed = walk.listed \cup page /\ walk'.always = walk.always
    <2>1. (walk.twice \/ page \cap walk.listed # {}) = FALSE
      BY <1>1, <1>7
    <2>2. walk' = [walk EXCEPT !.pc = IF next = Never THEN "over" ELSE "asking", !.after = next,
                               !.listed = walk.listed \cup page, !.twice = FALSE]
      BY <1>4, <2>1
    <2>3. page \subseteq Nat
      BY <1>2, <1>3
    <2> QED
      BY <1>3, <2>2, <2>3 DEF WalkInv, list
  <1>9. CASE next = Never
    BY <1>3, <1>5, <1>8, <1>9 DEF WalkInv
  <1>10. CASE next # Never
    <2>1. \A x \in walk.always : x \in walk'.listed \/ Before(list, next, x)
      BY <1>3, <1>5, <1>8, <1>10
    <2>2. \A x \in walk'.listed : x = next \/ Before(list, x, next)
      <3> SUFFICES ASSUME NEW x \in walk.listed PROVE Before(list, x, next)
        BY <1>3, <1>8, <1>10
      <3>1. after # Never /\ (x = after \/ Before(list, x, after))
        BY <1>1 DEF WalkInv, list, after
      <3>2. Before(list, after, next)
        BY <1>1, <1>3, <1>6, <1>10, <3>1
      <3> QED
        BY <1>1, <1>3, <3>1, <3>2, Ordered
    <2>3. \A x \in walk.always : InList(walk.list, walk.filter, x)'
      BY <1>1, <1>4, <1>8, ListRests DEF WalkInv, list
    <2> QED
      BY <1>8, <1>10, <2>1, <2>2, <2>3 DEF WalkInv, list
  <1> QED
    BY <1>9, <1>10

(***************************************************************************)
(* What the fleet, the setup and the device page say.                      *)
(***************************************************************************)

\* A source that uploaded packets has a reading.
Heard(seen, d) ==
  \A c \in DOMAIN SourcesOf[d] :
    SourcesOf[d][c].kind = "packet" /\ seen[c].received # Never => latestOf[d] \cap SourcesOf[d][c].channels # {}

\* The device page being read: its device and sources are those of one moment, and a source that
\* was not recent then will not become so while the clock goes on.
DetailInv ==
  /\ detail \in [pc : {"none", "begun", "device", "sources", "shown"}, id : Nat, tx : Nat,
                 status : {"none", "never_seen", "offline", "online"}, revoked : BOOLEAN,
                 seen : {detail.seen}, sources : {detail.sources}, latest : {detail.latest}]
  /\ detail.pc # "none" => detail.id \in registered
  /\ detail.pc = "begun" => detail.tx <= clock
  /\ detail.pc = "device" =>
       /\ detail.seen \in [DOMAIN SourcesOf[detail.id] -> Presence] /\ Heard(detail.seen, detail.id)
       /\ detail.status = "online" =>
            ~detail.revoked /\ \A c \in Required(detail.id) : c \in Enabled(detail.id) /\ detail.seen[c].received # Never
       /\ detail.status = "offline" /\ ~detail.revoked /\ Required(detail.id) # {} => Stale(detail.id, detail.seen, clock)
       /\ detail.status = "never_seen" => \A c \in DOMAIN SourcesOf[detail.id] : detail.seen[c].received = Never
  /\ detail.pc = "sources" =>
       \A c \in DOMAIN detail.sources :
         SourcesOf[detail.id][c].kind = "packet" /\ detail.sources[c] \in {"healthy", "stale"} =>
           latestOf[detail.id] \cap SourcesOf[detail.id][c].channels # {}
  /\ detail.pc \in {"sources", "shown"} =>
       LET required == {detail.sources[c] : c \in Required(detail.id)} IN
       /\ detail.status = "online" => required \subseteq {"healthy", "stale"}
       /\ detail.status = "offline" /\ ~detail.revoked /\ required # {} => required # {"healthy"}
       /\ detail.status = "never_seen" => \A c \in DOMAIN detail.sources : detail.sources[c] # "healthy"
  /\ detail.pc = "shown" =>
       \A c \in DOMAIN detail.sources :
         SourcesOf[detail.id][c].kind = "packet" /\ detail.sources[c] \in {"healthy", "stale"} =>
           detail.latest \cap SourcesOf[detail.id][c].channels # {}

FleetInv ==
  /\ FleetTypes /\ WalkInv /\ DetailInv
  /\ \A d \in Devices : Heard(seenOf[d], d)

\* Whoever never uploaded has no source that did.
LEMMA NeverSeen ==
  ASSUME FleetTypes, NEW d \in Devices, Received(d, seenOf[d]) = Never
  PROVE  \A c \in DOMAIN SourcesOf[d] : seenOf[d][c].received = Never
  <1> DEFINE seen == seenOf[d]
             f == [c \in DOMAIN seen |-> seen[c].received]
             S == {seen[c].received : c \in DOMAIN seen}
             T == {lastSeen[d]} \cup S
  <1>1. seen \in [DOMAIN SourcesOf[d] -> Presence] /\ lastSeen[d] \in Nat /\ IsFiniteSet(DOMAIN seen)
    BY FleetAssumption DEF FleetTypes
  <1>2. S \subseteq Nat
    BY <1>1 DEF Presence
  <1>3. f \in Surjection(DOMAIN seen, S)
    BY DEF Surjection
  <1>4. IsFiniteSet(S)
    BY <1>1, <1>3, FS_Surjection
  <1>5. IsFiniteSet(T) /\ T \in SUBSET Int /\ T # {}
    <2>1. IsFiniteSet(S \cup {lastSeen[d]}) /\ T = S \cup {lastSeen[d]}
      BY <1>4, FS_AddElement
    <2>2. T \subseteq Int /\ T # {}
      BY <1>1, <1>2
    <2> QED
      BY <2>1, <2>2
  <1>6. \A y \in T : y <= Max(T)
    BY <1>5, MaxOf
  <1>7. Max(T) = Never
    BY DEF Received
  <1>8. ASSUME NEW y \in S PROVE y = 0
    <2>1. y \in T /\ y \in Nat
      BY <1>2
    <2>2. y <= Max(T) /\ Max(T) = 0
      BY <1>6, <1>7, <2>1 DEF Never
    <2> HIDE DEF T
    <2> QED
      BY <2>1, <2>2
  <1> QED
    BY <1>1, <1>8 DEF Never

\* A source that is not recent stays so until it uploads.
LEMMA NotRecentAgain ==
  ASSUME NEW d \in Devices, NEW c \in DOMAIN SourcesOf[d], NEW p \in Presence, NEW at \in Int, NEW later \in Int,
         at <= later, Recent(SourcesOf[d][c], p, later)
  PROVE  Recent(SourcesOf[d][c], p, at)
  <1>1. Grace[SourcesOf[d][c].kind] \in Int
    BY FleetAssumption
  <1>2. Smaller(p.received, p.capture) \in Int
    BY DEF Smaller, Presence
  <1> QED
    BY <1>1, <1>2 DEF Recent

\* The fleet and the setup agree by the shape of what they are derived from.
LEMMA SetupAgrees ==
  ASSUME NEW d \in Devices
  PROVE  LET status == DeviceStatus(d, seenOf[d], clock)
             setup == SetupState(d, clock)
         IN  /\ setup = "waiting_for_upload" => status = "never_seen"
             /\ status = "never_seen" => setup \in {"waiting_for_upload", "credential_revoked", "degraded"}
             /\ Required(d) # {} /\ status = "online" => setup \in {"confirmed", "waiting_for_channels"}
             /\ Required(d) # {} /\ setup = "confirmed" => status = "online"
  <1> DEFINE req(status) == \E c \in Required(d) : SourceStatus(d, c, FALSE, seenOf[d][c], clock) = status
             heard == Received(d, seenOf[d]) # Never
             covered == RequiredChannels(d) \subseteq latestOf[d]
             stale == Stale(d, seenOf[d], clock)
  <1>1. SetupState(d, clock) =
          (IF d \in revoked THEN "credential_revoked"
           ELSE IF req("disabled") THEN "degraded"
           ELSE IF ~heard THEN "waiting_for_upload"
           ELSE IF ~covered THEN "waiting_for_channels"
           ELSE IF req("waiting") THEN "waiting_for_capabilities"
           ELSE IF req("stale") THEN "degraded" ELSE "confirmed")
    BY DEF SetupState
  <1>2. stale <=> req("disabled") \/ req("waiting") \/ req("stale")
    BY DEF Stale, SourceStatus, Recent
  <1>3. Required(d) # {} => DOMAIN SourcesOf[d] # {}
    BY DEF Required
  <1>4. DeviceStatus(d, seenOf[d], clock) \in {"never_seen", "offline", "online"}
        /\ (DeviceStatus(d, seenOf[d], clock) = "never_seen" <=> ~heard)
        /\ (Required(d) # {} => (DeviceStatus(d, seenOf[d], clock) = "online" <=> heard /\ d \notin revoked /\ ~stale))
    BY <1>3 DEF DeviceStatus
  <1> HIDE DEF req, heard, covered, stale
  <1> QED
    BY <1>1, <1>2, <1>4

\* A source that is not recent stays so while nobody uploads for it.
LEMMA StaysStale ==
  ASSUME NEW d \in Devices, NEW seen \in [DOMAIN SourcesOf[d] -> Presence], NEW at \in Int, NEW later \in Int,
         at <= later, Stale(d, seen, at)
  PROVE  Stale(d, seen, later)
  <1>1. PICK c \in Required(d) : c \notin Enabled(d) \/ ~Recent(SourcesOf[d][c], seen[c], at)
    BY DEF Stale
  <1>2. c \in DOMAIN SourcesOf[d] /\ seen[c] \in Presence
    BY DEF Required
  <1>3. c \notin Enabled(d) \/ ~Recent(SourcesOf[d][c], seen[c], later)
    BY <1>1, <1>2, NotRecentAgain
  <1> QED
    BY <1>3 DEF Stale

\* Steps of the world leave a page that is being read alone, and only add to what can be heard.
LEMMA DetailFollows ==
  ASSUME FleetInv, detail' = detail, registered \subseteq registered', clock <= clock', clock' \in Nat,
         \A d \in Devices : latestOf[d] \subseteq latestOf'[d]
  PROVE  DetailInv'
  <1> DEFINE d == detail.id
  <1>1. detail.pc # "none" => d \in Devices
    BY DEF FleetInv, FleetTypes, DetailInv
  <1>2. detail.pc = "device" => detail.seen \in [DOMAIN SourcesOf[d] -> Presence] /\ Heard(detail.seen, d)
    BY DEF FleetInv, DetailInv
  <1>3. detail.pc = "device" => Heard(detail.seen, d)'
    <2>1. detail.pc = "device" => latestOf[d] \subseteq latestOf'[d]
      BY <1>1
    <2> HIDE DEF d
    <2>2. Heard(detail.seen, d) /\ latestOf[d] \subseteq latestOf'[d] =>
            \A c \in DOMAIN SourcesOf[d] : SourcesOf[d][c].kind = "packet" /\ detail.seen[c].received # Never =>
                                             latestOf'[d] \cap SourcesOf[d][c].channels # {}
      BY DEF Heard
    <2> QED
      BY <1>2, <2>1, <2>2 DEF Heard, d
  <1>4. detail.pc = "device" /\ Stale(d, detail.seen, clock) => Stale(detail.id, detail.seen, clock)'
    <2>1. clock \in Int /\ clock' \in Int
      BY DEF FleetInv, FleetTypes
    <2>2. detail.pc = "device" /\ Stale(d, detail.seen, clock) => Stale(d, detail.seen, clock')
      BY <1>1, <1>2, <2>1, StaysStale
    <2> QED
      BY <2>2 DEF Stale
  <1>5. detail.pc = "sources" =>
          \A c \in DOMAIN detail.sources :
            SourcesOf[d][c].kind = "packet" /\ detail.sources[c] \in {"healthy", "stale"} =>
              latestOf'[d] \cap SourcesOf[d][c].channels # {}
    <2>1. detail.pc = "sources" => latestOf[d] \subseteq latestOf'[d]
      BY <1>1
    <2> QED
      BY <2>1 DEF FleetInv, DetailInv
  <1>6. detail.tx \in Nat /\ clock \in Nat
    BY DEF FleetInv, FleetTypes, DetailInv
  <1>7. detail.pc = "begun" => detail.tx <= clock'
    BY <1>6 DEF FleetInv, DetailInv
  <1> QED
    BY <1>2, <1>3, <1>4, <1>5, <1>7 DEF FleetInv, DetailInv

\* A page's device and sources are read.
LEMMA DetailReads ==
  ASSUME FleetInv, DetailSnapshot \/ DetailSources
  PROVE  DetailInv'
  <1> DEFINE d == detail.id
  <1>1. d \in Devices /\ clock \in Nat /\ UNCHANGED fleetWorld /\ d \in registered
    BY DEF FleetInv, FleetTypes, DetailInv, DetailSnapshot, DetailSources
  <1>2. CASE DetailSnapshot
    <2> DEFINE status == DeviceStatus(d, seenOf[d], detail.tx)
               rev == d \in revoked
    <2>1. /\ seenOf[d] \in [DOMAIN SourcesOf[d] -> Presence] /\ Heard(seenOf[d], d) /\ detail.tx \in Nat
          /\ detail.tx <= clock
      BY <1>1, <1>2 DEF FleetInv, FleetTypes, DetailInv, DetailSnapshot
    <2>2. detail' = [detail EXCEPT !.pc = "device", !.status = status, !.revoked = rev, !.seen = seenOf[d]]
      BY <1>2 DEF DetailSnapshot
    <2>3. status \in {"never_seen", "offline", "online"}
      BY DEF DeviceStatus
    <2>4. status = "online" =>
            ~rev /\ \A c \in Required(d) : c \in Enabled(d) /\ seenOf[d][c].received # Never
      BY DEF DeviceStatus, Stale, Recent
    <2>5. status = "offline" /\ ~rev /\ Required(d) # {} => Stale(d, seenOf[d], clock)
      <3>1. status = "offline" /\ ~rev /\ Required(d) # {} => Stale(d, seenOf[d], detail.tx)
        BY DEF DeviceStatus, Required
      <3> QED
        BY <1>1, <2>1, <3>1, StaysStale
    <2>6. status = "never_seen" => \A c \in DOMAIN SourcesOf[d] : seenOf[d][c].received = Never
      <3>1. status = "never_seen" => Received(d, seenOf[d]) = Never
        BY DEF DeviceStatus
      <3> QED
        BY <1>1, <3>1, NeverSeen DEF FleetInv
    <2> HIDE DEF status
    <2>7. rev \in BOOLEAN
      OBVIOUS
    <2> HIDE DEF rev, d
    <2>8. /\ detail'.pc = "device" /\ detail'.id = d /\ detail'.status = status /\ detail'.revoked = rev
          /\ detail'.seen = seenOf[d]
      BY <2>2, <2>7 DEF FleetInv, DetailInv, d
    <2>9. detail' \in [pc : {"none", "begun", "device", "sources", "shown"}, id : Nat, tx : Nat,
                       status : {"none", "never_seen", "offline", "online"}, revoked : BOOLEAN,
                       seen : {detail'.seen}, sources : {detail'.sources}, latest : {detail'.latest}]
      BY <2>2, <2>3, <2>7 DEF FleetInv, DetailInv
    <2>10. Heard(detail.seen, detail.id)'
      BY <1>1, <2>1, <2>8 DEF Heard, fleetWorld
    <2>11. detail'.status = "offline" /\ ~detail'.revoked /\ Required(d) # {} => Stale(detail.id, detail.seen, clock)'
      BY <1>1, <2>5, <2>8 DEF Stale, fleetWorld
    <2> QED
      BY <1>1, <2>1, <2>4, <2>6, <2>8, <2>9, <2>10, <2>11 DEF DetailInv, fleetWorld
  <1>3. CASE DetailSources
    <2> DEFINE src == [c \in DOMAIN SourcesOf[d] |-> SourceStatus(d, c, detail.revoked, detail.seen[c], clock)]
    <2>1. detail' = [detail EXCEPT !.pc = "sources", !.seen = <<>>, !.sources = src] /\ detail.pc = "device"
      BY <1>3 DEF DetailSources, SeenBy
    <2>2. Required(d) \subseteq DOMAIN SourcesOf[d] /\ DOMAIN src = DOMAIN SourcesOf[d]
      BY DEF Required
    <2>3. ASSUME NEW c \in DOMAIN SourcesOf[d]
          PROVE  /\ src[c] = "healthy" => ~detail.revoked /\ c \in Enabled(d) /\ Recent(SourcesOf[d][c], detail.seen[c], clock)
                 /\ src[c] \in {"healthy", "stale"} => detail.seen[c].received # Never
                 /\ ~detail.revoked /\ c \in Enabled(d) /\ detail.seen[c].received # Never => src[c] \in {"healthy", "stale"}
      BY DEF SourceStatus
    <2> HIDE DEF src
    <2>4. detail.status = "online" => \A c \in Required(d) : src[c] \in {"healthy", "stale"}
      BY <2>1, <2>2, <2>3 DEF FleetInv, DetailInv
    <2>5. detail.status = "offline" /\ ~detail.revoked /\ Required(d) # {} => \E c \in Required(d) : src[c] # "healthy"
      BY <2>1, <2>2, <2>3 DEF FleetInv, DetailInv, Stale
    <2>6. detail.status = "never_seen" => \A c \in DOMAIN src : src[c] # "healthy"
      <3>1. \A c : detail.seen[c].received = Never => ~Recent(SourcesOf[d][c], detail.seen[c], clock)
        BY DEF Recent
      <3> QED
        BY <2>1, <2>2, <2>3, <3>1 DEF FleetInv, DetailInv
    <2>7. \A c \in DOMAIN src : SourcesOf[d][c].kind = "packet" /\ src[c] \in {"healthy", "stale"} =>
            latestOf[d] \cap SourcesOf[d][c].channels # {}
      BY <2>1, <2>2, <2>3 DEF FleetInv, DetailInv, Heard
    <2> HIDE DEF d
    <2>8. /\ detail'.pc = "sources" /\ detail'.id = d /\ detail'.status = detail.status
          /\ detail'.revoked = detail.revoked /\ detail'.sources = src
      BY <2>1 DEF FleetInv, DetailInv, d
    <2>9. detail' \in [pc : {"none", "begun", "device", "sources", "shown"}, id : Nat, tx : Nat,
                       status : {"none", "never_seen", "offline", "online"}, revoked : BOOLEAN,
                       seen : {detail'.seen}, sources : {detail'.sources}, latest : {detail'.latest}]
      BY <2>1 DEF FleetInv, DetailInv
    <2>10. {src[c] : c \in Required(d)} # {} => Required(d) # {}
      OBVIOUS
    <2>11. (\E c \in Required(d) : src[c] # "healthy") => {src[c] : c \in Required(d)} # {"healthy"}
      OBVIOUS
    <2> QED
      BY <1>1, <2>4, <2>5, <2>6, <2>7, <2>8, <2>9, <2>10, <2>11 DEF DetailInv, fleetWorld
  <1> QED
    BY <1>2, <1>3

LEMMA WalkRests ==
  ASSUME WalkInv, UNCHANGED <<fleetWorld, walk>>
  PROVE  WalkInv'
  BY ListRests DEF WalkInv, Before

LEMMA HeardRests ==
  ASSUME \A d \in Devices : Heard(seenOf[d], d), UNCHANGED <<seenOf, latestOf>>
  PROVE  \A d \in Devices : Heard(seenOf[d], d)'
  BY DEF Heard

\* The steps of those who read.
LEMMA ReadStep ==
  ASSUME FleetInv, UNCHANGED fleetWorld, WalkInv' , DetailInv'
  PROVE  FleetInv'
  <1>1. FleetTypes'
    BY DEF FleetInv, FleetTypes, fleetWorld
  <1>2. \A d \in Devices : Heard(seenOf[d], d)'
    BY HeardRests DEF FleetInv, fleetWorld
  <1> QED
    BY <1>1, <1>2 DEF FleetInv

LEMMA FleetInitially ==
  ASSUME FleetInit
  PROVE  FleetInv
  <1>1. FleetTypes
    <2>1. \A p \in pictures : p.rank \in Nat \ {0}
      BY DEF FleetInit, Rank
    <2>2. IsFiniteSet(pictures)
      BY FS_Singleton DEF FleetInit
    <2>3. \A d \in Devices : seenOf[d] \in [DOMAIN SourcesOf[d] -> Presence]
      BY DEF FleetInit, Presence, NotSeen, Never
    <2> QED
      BY <2>1, <2>2, <2>3 DEF FleetInit, FleetTypes, Never
  <1>2. WalkInv
    BY DEF FleetInit, NoWalk, WalkInv, Lists, Never
  <1>3. DetailInv
    BY DEF FleetInit, NoDetail, DetailInv
  <1>4. \A d \in Devices : Heard(seenOf[d], d)
    BY DEF FleetInit, Heard, NotSeen
  <1> QED
    BY <1>1, <1>2, <1>3, <1>4 DEF FleetInv

\* The steps of the world.
LEMMA WorldStep ==
  ASSUME FleetInv, Judged, Followed, detail' = detail, FleetTypes', registered \subseteq registered', clock <= clock',
         \A d \in Devices : latestOf[d] \subseteq latestOf'[d],
         \A d \in Devices : Heard(seenOf[d], d)'
  PROVE  FleetInv'
  <1>1. clock' \in Nat
    BY DEF FleetTypes
  <1>2. WalkInv' /\ DetailInv'
    BY <1>1, FollowedStep, DetailFollows DEF FleetInv
  <1> QED
    BY <1>2 DEF FleetInv

LEMMA TouchedPresent ==
  ASSUME NEW p \in Presence, NEW t \in Nat, clock \in Nat
  PROVE  Touched(p, t) \in Presence
  BY DEF Touched, Presence, Greatest

LEMMA PacketStep ==
  ASSUME FleetInv, Judged, NEW d \in Devices, NEW t \in Nat, NEW channels \in SUBSET ChannelsOf[d], Packet(d, channels, t)
  PROVE  FleetInv'
  <1> DEFINE measures == {c \in Enabled(d) : SourcesOf[d][c].kind = "packet"}
             touched(c) == c \in measures /\ SourcesOf[d][c].channels \cap channels # {}
             seen == [c \in DOMAIN SourcesOf[d] |-> IF touched(c) THEN Touched(seenOf[d][c], t) ELSE seenOf[d][c]]
  <1>1. /\ clock \in Nat \ {0} /\ seenOf[d] \in [DOMAIN SourcesOf[d] -> Presence] /\ DOMAIN seenOf = Devices
        /\ DOMAIN latestOf = Devices
    BY DEF FleetInv, FleetTypes
  <1>2. /\ seenOf' = [seenOf EXCEPT ![d] = seen] /\ latestOf' = [latestOf EXCEPT ![d] = latestOf[d] \cup channels]
        /\ lastSeen' = [lastSeen EXCEPT ![d] = clock] /\ Followed
        /\ UNCHANGED <<clock, registered, revoked, pictures, detail>>
    BY <1>1 DEF Packet, Touched, Enabled
  <1>3. seen \in [DOMAIN SourcesOf[d] -> Presence]
    BY <1>1, TouchedPresent
  <1>4. FleetTypes'
    <2>1. \A e \in Devices : seenOf'[e] \in [DOMAIN SourcesOf[e] -> Presence]
      BY <1>1, <1>2, <1>3 DEF FleetInv, FleetTypes
    <2> QED
      BY <1>1, <1>2, <2>1 DEF FleetInv, FleetTypes
  <1>5. ASSUME NEW e \in Devices PROVE latestOf[e] \subseteq latestOf'[e]
    BY <1>1, <1>2
  <1>6. ASSUME NEW e \in Devices, NEW c \in DOMAIN SourcesOf[e], SourcesOf[e][c].kind = "packet",
               seenOf'[e][c].received # Never
        PROVE  latestOf'[e] \cap SourcesOf[e][c].channels # {}
    <2>1. CASE e = d /\ touched(c)
      <3>1. channels \subseteq latestOf'[e]
        BY <1>1, <1>2, <2>1
      <3> QED
        BY <2>1, <3>1
    <2>2. CASE ~(e = d /\ touched(c))
      <3>1. seenOf'[e][c] = seenOf[e][c]
        BY <1>1, <1>2, <2>2
      <3>2. latestOf[e] \cap SourcesOf[e][c].channels # {}
        BY <1>6, <3>1 DEF FleetInv, Heard
      <3> QED
        BY <1>5, <3>2
    <2> QED
      BY <2>1, <2>2
  <1>7. \A e \in Devices : Heard(seenOf[e], e)'
    BY <1>6 DEF Heard
  <1>8. clock <= clock'
    BY <1>1, <1>2
  <1> QED
    BY <1>2, <1>4, <1>5, <1>7, <1>8, WorldStep

LEMMA PictureStep ==
  ASSUME FleetInv, Judged, NEW d \in Devices, NEW t \in Nat \ {0}, NEW c \in DOMAIN SourcesOf[d], Picture(d, c, t)
  PROVE  FleetInv'
  <1> DEFINE seen == [seenOf[d] EXCEPT ![c] = Touched(seenOf[d][c], t)]
  <1>1. /\ clock \in Nat \ {0} /\ seenOf[d] \in [DOMAIN SourcesOf[d] -> Presence] /\ DOMAIN seenOf = Devices
        /\ SourcesOf[d][c].kind = "image"
    BY DEF FleetInv, FleetTypes, Picture
  <1>2. /\ seenOf' = [seenOf EXCEPT ![d] = seen] /\ Followed
        /\ UNCHANGED <<clock, registered, revoked, lastSeen, latestOf, detail>>
    BY <1>1 DEF Picture, Touched
  <1>3. seen \in [DOMAIN SourcesOf[d] -> Presence]
    BY <1>1, TouchedPresent
  <1>4. PICK tie \in {1, 2} : pictures' = pictures \cup {[rank |-> Rank(t, tie), capture |-> t]}
    BY DEF Picture
  <1>5. IsFiniteSet(pictures') /\ \A p \in pictures' : p.rank \in Nat \ {0}
    <2>1. IsFiniteSet(pictures')
      BY <1>4, FS_AddElement DEF FleetInv, FleetTypes
    <2>2. Rank(t, tie) \in Nat \ {0}
      BY DEF Rank
    <2> QED
      BY <1>4, <2>1, <2>2 DEF FleetInv, FleetTypes
  <1>6. FleetTypes'
    <2>1. \A e \in Devices : seenOf'[e] \in [DOMAIN SourcesOf[e] -> Presence]
      BY <1>1, <1>2, <1>3 DEF FleetInv, FleetTypes
    <2> QED
      BY <1>1, <1>2, <1>5, <2>1 DEF FleetInv, FleetTypes
  <1>7. ASSUME NEW e \in Devices, NEW k \in DOMAIN SourcesOf[e], SourcesOf[e][k].kind = "packet",
               seenOf'[e][k].received # Never
        PROVE  latestOf'[e] \cap SourcesOf[e][k].channels # {}
    <2>1. ~(e = d /\ k = c)
      BY <1>1, <1>7
    <2>2. seenOf'[e][k] = seenOf[e][k]
      BY <1>1, <1>2, <2>1
    <2> QED
      BY <1>2, <1>7, <2>2 DEF FleetInv, Heard
  <1>8. \A e \in Devices : Heard(seenOf[e], e)'
    BY <1>7 DEF Heard
  <1>9. clock <= clock' /\ \A e \in Devices : latestOf[e] \subseteq latestOf'[e]
    BY <1>1, <1>2
  <1> QED
    BY <1>2, <1>6, <1>8, <1>9, WorldStep

LEMMA FleetStep ==
  ASSUME FleetInv, FleetNext
  PROVE  FleetInv'
  <1>1. clock \in Nat \ {0} /\ clock <= clock
    BY DEF FleetInv, FleetTypes
  <1>2. ASSUME Judged, Tick PROVE FleetInv'
    <2>1. FleetTypes' /\ clock <= clock'
      BY <1>1, <1>2 DEF Tick, FleetInv, FleetTypes
    <2>2. \A d \in Devices : Heard(seenOf[d], d)'
      BY <1>2, HeardRests DEF Tick, FleetInv
    <2> QED
      BY <1>2, <2>1, <2>2, WorldStep DEF Tick
  <1>3. ASSUME Judged, NEW d \in Devices, Claimed(d) \/ Revoke(d) PROVE FleetInv'
    <2>1. FleetTypes' /\ registered \subseteq registered' /\ clock <= clock'
      BY <1>1, <1>3 DEF Claimed, Revoke, FleetInv, FleetTypes
    <2>2. \A e \in Devices : Heard(seenOf[e], e)'
      BY <1>3, HeardRests DEF Claimed, Revoke, FleetInv
    <2>3. Followed /\ UNCHANGED <<detail, latestOf>>
      BY <1>3 DEF Claimed, Revoke
    <2> QED
      BY <1>3, <2>1, <2>2, <2>3, WorldStep
  <1>4. ASSUME Judged, NEW d \in Devices, NEW t \in Greatest(1, clock - 1) .. clock + Skew,
               \/ \E channels \in SUBSET ChannelsOf[d] : Packet(d, channels, t)
               \/ \E c \in DOMAIN SourcesOf[d] : Picture(d, c, t)
        PROVE  FleetInv'
    <2>1. t \in Nat \ {0}
      BY <1>1, FleetAssumption DEF Greatest
    <2> QED
      BY <1>4, <2>1, PacketStep, PictureStep
  <1>5. CASE WalkPage
    <2>1. WalkInv' /\ UNCHANGED fleetWorld /\ detail' = detail
      BY <1>5, WalkPageStep DEF FleetInv, WalkPage
    <2>2. DetailInv'
      BY <1>1, <2>1, DetailFollows DEF fleetWorld
    <2> QED
      BY <2>1, <2>2, ReadStep
  <1>6. CASE WalkEnds
    <2>1. WalkInv'
      BY <1>6 DEF WalkEnds, NoWalk, WalkInv, Lists, Never
    <2>2. DetailInv'
      BY <1>1, <1>6, DetailFollows DEF WalkEnds, fleetWorld
    <2> QED
      BY <1>6, <2>1, <2>2, ReadStep DEF WalkEnds
  <1>7. ASSUME NEW list \in {"fleet", "pictures"},
               NEW filter \in {"all", "online", "offline", "never_seen", "revoked"}, WalkStarts(list, filter)
        PROVE  FleetInv'
    <2>1. WalkInv'
      BY <1>7, WalkStartsStep DEF FleetInv, Lists
    <2>2. DetailInv'
      BY <1>1, <1>7, DetailFollows DEF WalkStarts, fleetWorld
    <2> QED
      BY <1>7, <2>1, <2>2, ReadStep DEF WalkStarts
  <1>8. CASE DetailSnapshot \/ DetailSources
    <2>1. DetailInv'
      BY <1>8, DetailReads
    <2>2. WalkInv' /\ UNCHANGED fleetWorld
      BY <1>8, WalkRests DEF DetailSnapshot, DetailSources, FleetInv
    <2> QED
      BY <2>1, <2>2, ReadStep
  <1>9. ASSUME NEW d \in Devices, DetailBegins(d) PROVE FleetInv'
    <2>1. detail' = [pc |-> "begun", id |-> d, tx |-> clock, status |-> "none", revoked |-> FALSE,
                     seen |-> <<>>, sources |-> <<>>, latest |-> {}]
          /\ UNCHANGED fleetWorld /\ d \in registered
      BY <1>9 DEF DetailBegins, NoDetail
    <2>2. DetailInv'
      BY <1>1, <2>1, FleetAssumption DEF DetailInv, fleetWorld
    <2>3. WalkInv'
      BY <1>9, WalkRests DEF DetailBegins, FleetInv
    <2> QED
      BY <2>1, <2>2, <2>3, ReadStep
  <1>10. CASE DetailLatest
    <2>1. detail' = [detail EXCEPT !.pc = "shown", !.latest = latestOf[detail.id]] /\ detail.pc = "sources"
          /\ UNCHANGED fleetWorld
      BY <1>10 DEF DetailLatest
    <2>2. DetailInv'
      <3>1. /\ detail'.pc = "shown" /\ detail'.id = detail.id /\ detail'.status = detail.status
            /\ detail'.revoked = detail.revoked /\ detail'.sources = detail.sources
            /\ detail'.latest = latestOf[detail.id]
        BY <2>1 DEF FleetInv, DetailInv
      <3>2. detail' \in [pc : {"none", "begun", "device", "sources", "shown"}, id : Nat, tx : Nat,
                         status : {"none", "never_seen", "offline", "online"}, revoked : BOOLEAN,
                         seen : {detail'.seen}, sources : {detail'.sources}, latest : {detail'.latest}]
        BY <2>1 DEF FleetInv, DetailInv
      <3> QED
        BY <2>1, <3>1, <3>2 DEF FleetInv, DetailInv, fleetWorld
    <2>3. WalkInv'
      BY <1>10, WalkRests DEF DetailLatest, FleetInv
    <2> QED
      BY <2>1, <2>2, <2>3, ReadStep
  <1>11. CASE DetailEnds
    <2>1. DetailInv'
      BY <1>11 DEF DetailEnds, NoDetail, DetailInv
    <2>2. WalkInv'
      BY <1>11, WalkRests DEF DetailEnds, FleetInv
    <2> QED
      BY <1>11, <2>1, <2>2, ReadStep DEF DetailEnds
  <1> QED
    BY <1>2, <1>3, <1>4, <1>5, <1>6, <1>7, <1>8, <1>9, <1>10, <1>11 DEF FleetNext

LEMMA FleetTells ==
  ASSUME FleetInv
  PROVE  FleetSound
  <1>1. WalkComplete
    BY DEF FleetInv, WalkInv, WalkComplete
  <1>2. StatusesAgree
    BY SetupAgrees DEF FleetInv, FleetTypes, DetailInv, StatusesAgree
  <1> QED
    BY <1>1, <1>2 DEF FleetSound

LEMMA FleetRests ==
  ASSUME FleetInv, UNCHANGED fleetVars
  PROVE  FleetInv'
  <1>1. WalkInv'
    BY WalkRests DEF FleetInv, fleetVars
  <1>2. clock \in Nat /\ clock <= clock
    BY DEF FleetInv, FleetTypes
  <1>3. DetailInv'
    BY <1>2, DetailFollows DEF fleetVars, fleetWorld
  <1> QED
    BY <1>1, <1>3, ReadStep DEF fleetVars

(***************************************************************************)
(* Each part beside those that rest.                                       *)
(***************************************************************************)
DatabaseInv == ConnInv /\ RoleInv

LEMMA DatabaseStep ==
  ASSUME DatabaseInv, [MonitoringNext]_monitoringVars
  PROVE  DatabaseInv'
  <1>1. CASE UNCHANGED <<connVars, roleVars>>
    BY <1>1 DEF connVars, roleVars, DatabaseInv, ConnInv, RoleInv, RoleFenced
  <1>2. CASE ConnNext /\ UNCHANGED roleVars
    <2>1. ConnInv'
      BY <1>2, ConnStep DEF DatabaseInv
    <2> QED
      BY <1>2, <2>1 DEF roleVars, DatabaseInv, RoleInv, RoleFenced
  <1>3. CASE RoleNext /\ UNCHANGED connVars
    <2>1. RoleInv'
      BY <1>3, RoleStep DEF DatabaseInv
    <2> QED
      BY <1>3, <2>1 DEF connVars, DatabaseInv, ConnInv
  <1> QED
    BY <1>1, <1>2, <1>3 DEF MonitoringNext, monitoringVars

\* A connection goes back to the pool with no transaction open, nothing on its wire and nobody
\* who still sends on it, however its user ended (managedTransaction, withSession, the handle of
\* a turn); and once a migration run came to a verdict, a role that can log in has no right to
\* change the schema but those granted after the last check.
THEOREM DatabaseIsSafe == MonitoringSpec => []DatabaseSafe
  <1>1. MonitoringInit => DatabaseInv
    BY ConnInitially, RoleInitially DEF MonitoringInit, DatabaseInv
  <1>2. DatabaseInv /\ [MonitoringNext]_monitoringVars => DatabaseInv'
    BY DatabaseStep
  <1>3. DatabaseInv => DatabaseSafe
    BY ConnClean DEF DatabaseInv, DatabaseSafe, RoleInv
  <1> QED
    BY <1>1, <1>2, <1>3, PTL DEF MonitoringSpec

LEMMA HistoryRests ==
  ASSUME HistoryInv, UNCHANGED vars
  PROVE  HistoryInv'
  <1>1. UNCHANGED <<today, store>> /\ today \in Nat
    BY DEF vars, store, HistoryInv, StoreInv, StoreTypes
  <1>2. StoreInv'
    BY <1>1, StoreRests DEF HistoryInv
  <1> QED
    BY <1>2 DEF vars, HistoryInv, IngestInv, WorkerInv, MaintainInv, ReaderInv, Accepted, MarkerFree, OfHour

\* Every reading the cloud accepted is in the rollup of its hour unless that hour is marked
\* dirty, and then its raw row is still there; a history read that is neither pending nor expired
\* gave everything of its window (processTelemetryRollups, maintainTelemetryStorage and the
\* series route beside uploads).
THEOREM HistoryIsKept == MonitoringSpec => []KeptSound
  <1>1. MonitoringInit => HistoryInv
    BY HistoryInitially DEF MonitoringInit
  <1>2. HistoryInv /\ [MonitoringNext]_monitoringVars => HistoryInv'
    BY HistoryStep, HistoryRests DEF MonitoringNext, monitoringVars
  <1>3. HistoryInv => KeptSound
    BY HistoryKept
  <1> QED
    BY <1>1, <1>2, <1>3, PTL DEF MonitoringSpec

\* Whoever follows the pages of the fleet or of a camera's pictures to the end has seen
\* everything that stayed in the list and nothing twice, and the fleet, the setup and the device
\* page never contradict each other, whatever is uploaded, claimed or revoked meanwhile
\* (registerTelemetryReads, registerDeviceSetup and registerObservationReads).
THEOREM FleetIsTruthful == MonitoringSpec => []FleetSound
  <1>1. MonitoringInit => FleetInv
    BY FleetInitially DEF MonitoringInit
  <1>2. FleetInv /\ [MonitoringNext]_monitoringVars => FleetInv'
    BY FleetStep, FleetRests DEF MonitoringNext, monitoringVars
  <1>3. FleetInv => FleetSound
    BY FleetTells
  <1> QED
    BY <1>1, <1>2, <1>3, PTL DEF MonitoringSpec
=============================================================================
