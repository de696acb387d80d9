---------------------------- MODULE Connections -----------------------------
(***************************************************************************)
(* Database connections and what is left on them: the pool, the fenced     *)
(* handle of createClientDb with its close, managedTransaction, the read   *)
(* transaction of withSession, and the handle of a turn of the intake      *)
(* service, whose connection goes on to the write of the reply.            *)
(*                                                                         *)
(* Statements of a connection are answered in the order they were sent.    *)
(* An error of a statement aborts its transaction.                         *)
(***************************************************************************)
EXTENDS Naturals, Sequences, FiniteSets

CONSTANTS Conns,   \* connections of the pool
          Leases,  \* users of a connection, each with its own handle
          NoConn,
          MaxStray, MaxBreaks  \* bounds

ASSUME ConnectionsAssumption == "pool" \notin Leases

VARIABLES
  conn,    \* per connection: who has it, its transaction, and the statements on the wire
  lease,   \* per user: where it stands
  strays,  \* statements sent by work that was given up
  breaks   \* connections lost

connVars == <<conn, lease, strays, breaks>>

Fresh == [by |-> "pool", tx |-> "none", wire |-> <<>>]
Unused == [pc |-> "rest", kind |-> "managed", conn |-> NoConn, closed |-> FALSE, loose |-> FALSE,
           discard |-> FALSE]
Kinds == {"managed", "session", "turn"}

ConnInit ==
  /\ conn = [c \in Conns |-> Fresh] /\ lease = [u \in Leases |-> Unused]
  /\ strays = 0 /\ breaks = 0

Sent(c, u, statement) == [conn EXCEPT ![c].wire = Append(@, [by |-> u, statement |-> statement])]

\* The client has given back its connection, or the pool has destroyed it, which rolls back what
\* the server still holds; the pool opens another one when it needs one.  Work that was given
\* up lives on with the handle.
Released(u) == [Unused EXCEPT !.closed = lease[u].closed, !.loose = lease[u].loose, !.conn = lease[u].conn]
Destroyed(u) == conn' = [conn EXCEPT ![lease[u].conn] = Fresh] /\ lease' = [lease EXCEPT ![u] = Unused]

\* pool.connect, and BEGIN.
Checkout(u, c, kind) ==
  /\ lease[u].pc = "rest" /\ ~lease[u].loose /\ conn[c].by = "pool"
  /\ conn' = [Sent(c, u, "begin") EXCEPT ![c].by = u]
  /\ lease' = [lease EXCEPT ![u] = [Unused EXCEPT !.pc = "begin", !.kind = kind, !.conn = c]]
  /\ UNCHANGED <<strays, breaks>>

\* The body sends a statement and waits for it.
Query(u) ==
  /\ lease[u].pc = "body"
  /\ conn' = Sent(lease[u].conn, u, "work") /\ lease' = [lease EXCEPT ![u].pc = "work"]
  /\ UNCHANGED <<strays, breaks>>

SendCommit(u) ==
  /\ lease[u].pc = "body"
  /\ conn' = Sent(lease[u].conn, u, "commit") /\ lease' = [lease EXCEPT ![u].pc = "commit"]
  /\ UNCHANGED <<strays, breaks>>

\* Postgres answers the first statement on the wire.
AfterStatement(tx, statement, ok) ==
  CASE statement = "begin" -> IF ok THEN "open" ELSE tx
    [] statement = "work" -> IF ok THEN tx ELSE IF tx = "none" THEN tx ELSE "aborted"
    [] OTHER -> IF ok THEN "none" ELSE tx

\* What the user does with the answer it waited for.
Continued(l, statement, ok) ==
  IF l.pc # statement THEN l
  ELSE CASE statement = "rollback" -> [l EXCEPT !.pc = "release", !.discard = @ \/ ~ok]
         [] statement = "commit" /\ ok /\ l.kind = "session" -> [l EXCEPT !.pc = "release"]
         [] statement = "commit" /\ ok /\ l.kind # "session" -> [l EXCEPT !.pc = "drain", !.closed = TRUE]
         [] statement \in {"begin", "work"} /\ ok -> [l EXCEPT !.pc = "body"]
         [] OTHER -> [l EXCEPT !.pc = "failed", !.discard = l.kind # "turn"]

Serve(c, ok) ==
  /\ conn[c].wire # <<>>
  /\ LET head == conn[c].wire[1] IN
     /\ conn' = [conn EXCEPT ![c].wire = Tail(@), ![c].tx = AfterStatement(@, head.statement, ok)]
     /\ lease' = [lease EXCEPT ![head.by] = Continued(@, head.statement, ok)]
  /\ UNCHANGED <<strays, breaks>>

\* The body throws on its own account: a request refused with an HttpError, or a turn whose
\* model call failed.
BodyRefuses(u) ==
  /\ lease[u].pc = "body"
  /\ lease' = [lease EXCEPT ![u].pc = "failed", ![u].discard = (@ \/ lease[u].kind = "managed")]
  /\ UNCHANGED <<conn, strays, breaks>>

\* A query timeout, or the deadline of a turn: the user stops waiting; a turn's work still runs.
GiveUp(u) ==
  /\ lease[u].pc \in {"begin", "work", "commit", "rollback"}
  /\ lease' = [lease EXCEPT ![u].pc = IF @ = "rollback" THEN "release" ELSE "failed",
                            ![u].loose = lease[u].kind = "turn" /\ lease[u].pc # "rollback",
                            ![u].discard = lease[u].kind # "turn" \/ lease[u].pc = "rollback"]
  /\ UNCHANGED <<conn, strays, breaks>>

\* After a failure: managedTransaction closes without a budget and destroys the connection,
\* withSession sends ROLLBACK, a turn closes its handle within what is left of its budget.
Fail(u) ==
  /\ lease[u].pc = "failed"
  /\ \/ lease[u].kind = "managed" /\ Destroyed(u)
     \/ /\ lease[u].kind = "session"
        /\ conn' = Sent(lease[u].conn, u, "rollback") /\ lease' = [lease EXCEPT ![u].pc = "rollback"]
     \/ /\ lease[u].kind = "turn"
        /\ lease' = [lease EXCEPT ![u].pc = "drain", ![u].closed = TRUE] /\ UNCHANGED conn
  /\ UNCHANGED <<strays, breaks>>

\* close waits for every statement the handle has sent...
Drained(u) == \A i \in DOMAIN conn[lease[u].conn].wire : conn[lease[u].conn].wire[i].by # u

\* ...and rolls back.
Drain(u) ==
  /\ lease[u].pc = "drain" /\ Drained(u)
  /\ conn' = Sent(lease[u].conn, u, "rollback") /\ lease' = [lease EXCEPT ![u].pc = "rollback"]
  /\ UNCHANGED <<strays, breaks>>

\* The budget of the cleanup is spent.
DrainExpires(u) == lease[u].pc = "drain" /\ Destroyed(u) /\ UNCHANGED <<strays, breaks>>

Release(u) ==
  /\ lease[u].pc = "release"
  /\ \/ lease[u].discard /\ Destroyed(u)
     \/ /\ ~lease[u].discard
        /\ conn' = [conn EXCEPT ![lease[u].conn].by = "pool"] /\ lease' = [lease EXCEPT ![u] = Released(u)]
  /\ UNCHANGED <<strays, breaks>>

\* Mutant: a handle that was closed still sends.
Fenced_Never(u) == FALSE

\* The fence of the handle.
Fenced(u) == lease[u].closed

\* Work that was given up sends another statement, unless the fence stops it.
Stray(u) ==
  /\ lease[u].loose /\ strays < MaxStray /\ strays' = strays + 1
  /\ conn' = IF Fenced(u) THEN conn ELSE Sent(lease[u].conn, u, "work")
  /\ UNCHANGED <<lease, breaks>>

LooseEnds(u) ==
  /\ lease[u].loose
  /\ lease' = [lease EXCEPT ![u] = IF @.pc = "rest" THEN Unused ELSE [@ EXCEPT !.loose = FALSE]]
  /\ UNCHANGED <<conn, strays, breaks>>

\* The connection is lost: its statements fail, and the pool drops it when it comes back.
Break(c) ==
  /\ breaks < MaxBreaks /\ breaks' = breaks + 1
  /\ LET u == conn[c].by IN
     IF u = "pool" THEN conn' = [conn EXCEPT ![c] = Fresh] /\ UNCHANGED lease
     ELSE /\ conn' = [conn EXCEPT ![c].wire = <<>>, ![c].tx = "none"]
          /\ lease' = [lease EXCEPT ![u].pc = "release", ![u].discard = TRUE, ![u].closed = TRUE]
  /\ UNCHANGED strays

ConnNext ==
  \/ \E u \in Leases : \/ \E c \in Conns, kind \in Kinds : Checkout(u, c, kind)
                       \/ Query(u) \/ SendCommit(u) \/ BodyRefuses(u) \/ GiveUp(u) \/ Fail(u)
                       \/ Drain(u) \/ DrainExpires(u) \/ Release(u) \/ Stray(u) \/ LooseEnds(u)
  \/ \E c \in Conns : Break(c) \/ \E ok \in BOOLEAN : Serve(c, ok)

(***************************************************************************)
(* Properties.                                                             *)
(***************************************************************************)

\* A connection in the pool is clean: no transaction is open on it and nothing is on its wire.
PooledClean == \A c \in Conns : conn[c].by = "pool" => conn[c].tx = "none" /\ conn[c].wire = <<>>

\* Work that a user gave up never reaches the connection of the next one.
OwnStatements ==
  \A c \in Conns : \A i \in DOMAIN conn[c].wire : conn[c].wire[i].by = conn[c].by

\* A connection changes hands only clean, however its last user ended.
ConnectionsClean == PooledClean /\ OwnStatements
=============================================================================
