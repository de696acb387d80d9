------------------------- MODULE ModelCalls_proofs -------------------------
(***************************************************************************)
(* Proofs about ModelCalls: nobody gets more than a day's allowance, and   *)
(* what is recorded as spent is what was spent.  The invariant says, for   *)
(* every step a call can be at, what its usage and its row in the ledger   *)
(* have in common, and that of the deliveries of one request at most one   *)
(* has come past its reservation.                                          *)
(***************************************************************************)
EXTENDS ModelCalls, FiniteSetTheorems, TLAPS

Serving == {"context", "start", "model", "tools", "finish"}
Steps == Serving \cup {"new", "sent", "reserve", "ceiling", "done"}

CallRow ==
  [kind : Kinds \cup {"intake"}, req : Calls \cup {0}, actor : Actors \cup {0}, pc : Steps,
   calls : Nat, tries : Nat, metered : Nat, known : BOOLEAN, tools : BOOLEAN, ok : BOOLEAN,
   truncated : BOOLEAN, repaired : BOOLEAN, owner : Owners, resp : Nat]

LedgerRow ==
  [kind : Kinds \cup {"none"}, actor : Actors \cup {0},
   outcome : {"none", "reserved", "model", "evidence_only", "unavailable", "no_tool"},
   attempted : BOOLEAN, known : BOOLEAN, cost : Int, recent : BOOLEAN]

Shape ==
  /\ call \in [Calls -> CallRow] /\ row \in [Calls -> LedgerRow]
  /\ owner \in Owners /\ ledger \in [Owners -> Nat] /\ paid \in [Calls -> Nat] /\ member \subseteq Actors

\* A call x that may have been charged for: its request was reserved by it.
Beyond(x, p) == x.kind \in Kinds /\ (x.pc \in Serving \/ p > 0)

\* What a call x, charged p, and the row r of its request have in common.
Sound(x, r, p) ==
  /\ x.pc = "new" => x = New /\ p = 0
  /\ x.pc \in {"sent", "reserve", "context", "start"} => x.kind \in Kinds /\ p = 0 /\ x.metered = 0 /\ x.known
  /\ x.pc = "tools" => x.kind = "chat"
  /\ x.pc = "finish" => x.kind \in Kinds
  /\ x.pc = "ceiling" => x.kind = "intake"
  /\ x.pc # "done" => x.resp = 0
  /\ x.resp \in {404, 429} => p = 0
  /\ Beyond(x, p) => r.kind # "none"
  /\ x.kind \in Kinds /\ x.pc \in Serving => ~r.known
  /\ x.kind \in Kinds /\ (p > 0 \/ x.pc \in {"model", "tools"}) => r.attempted
  /\ x.kind = "chat" /\ x.pc \in {"model", "tools", "finish"} /\ x.known => x.metered = p
  /\ x.kind = "ask" /\ x.pc = "model" => x.metered = 0 /\ p = 0
  /\ x.kind = "ask" /\ x.pc = "finish" /\ x.metered > 0 => x.metered = p
  /\ x.kind \in Kinds /\ x.pc = "done" /\ p > 0 /\ r.known => r.cost = p

\* A delivery has the kind of the request it repeats.
Linked(c) ==
  call[c].pc # "new" =>
    /\ call[c].req \in Calls
    /\ call[c].kind = "intake" => call[c].req = c
    /\ call[c].kind \in Kinds =>
         /\ call[c].actor \in Actors
         /\ call[call[c].req].pc # "new" /\ call[call[c].req].kind = call[c].kind
         /\ call[call[c].req].req = call[c].req

CallsSound == \A c \in Calls : Sound(call[c], row[call[c].req], paid[c]) /\ Linked(c)

\* Of the deliveries of one request at most one is charged for.
OneCharged ==
  \A c, d \in Calls :
    Beyond(call[c], paid[c]) /\ Beyond(call[d], paid[d]) /\ call[c].req = call[d].req => c = d

\* The turns of intake come one after another, and a call under way found tokens left.
TurnsInv ==
  /\ \A c, d \in Calls : call[c].kind = "intake" /\ call[d].kind = "intake" => c = d \/ At(c, "done") \/ At(d, "done")
  /\ \A c \in Calls : call[c].kind = "intake" /\ At(c, "model") => BuildTokensUsed < Ceiling
  /\ CeilingHeld
  /\ \A o \in Owners : o # owner => ledger[o] = 0

\* A counted set is finite because requests are counted one at a time.
CountsInv == (\A k \in Kinds : IsFiniteSet(Recent(k))) /\ AllowanceHeld

Inv == Shape /\ CallsSound /\ OneCharged /\ TurnsInv /\ CountsInv

(***************************************************************************)
(* Steps of a call.                                                        *)
(***************************************************************************)

\* Call c becomes y.
Becomes(c, y) == call' = [call EXCEPT ![c] = y]

\* A call goes on, and changes at most the row of its own request: it reserves it, marks it
\* attempted, or finishes it once it is beyond its reservation.
LEMMA CallStep ==
  ASSUME Shape, CallsSound, OneCharged, NEW c \in Calls, NEW y \in CallRow,
         Becomes(c, y), call[c].pc # "new", y.pc # "new",
         y.kind = call[c].kind, y.req = call[c].req, y.actor = call[c].actor,
         paid' \in [Calls -> Nat], \A d \in Calls \ {c} : paid'[d] = paid[d],
         row' \in [Calls -> LedgerRow], \A r \in Calls \ {y.req} : row'[r] = row[r],
         \/ row'[y.req] = row[y.req]
         \/ row[y.req].kind = "none"
         \/ /\ row'[y.req].kind = row[y.req].kind
            /\ Beyond(call[c], paid[c])
            /\ row[y.req].attempted => row'[y.req].attempted,
         Beyond(y, paid'[c]) => Beyond(call[c], paid[c]) \/ row[y.req].kind = "none",
         Sound(y, row'[y.req], paid'[c])
  PROVE  CallsSound' /\ OneCharged'
  <1>1. /\ call'[c] = y /\ \A d \in Calls \ {c} : call'[d] = call[d]
        /\ y.req \in Calls
    BY DEF Shape, CallsSound, Linked, Becomes
  <1>2. ASSUME NEW d \in Calls \ {c}
        PROVE  \/ row'[call[d].req] = row[call[d].req]
               \/ ~Beyond(call[d], paid[d])
    <2>1. CASE call[d].req # y.req
      <3>1. CASE call[d].req \in Calls
        BY <2>1, <3>1
      <3>2. CASE call[d].req \notin Calls
        <4>1. call[d].pc = "new" /\ paid[d] = 0
          BY <3>2 DEF CallsSound, Linked, Sound
        <4> QED
          BY <4>1 DEF Beyond, Serving
      <3> QED
        BY <3>1, <3>2
    <2>2. CASE call[d].req = y.req
      <3>1. Beyond(call[d], paid[d]) => row[y.req].kind # "none"
        BY <2>2 DEF CallsSound, Sound
      <3>2. Beyond(call[d], paid[d]) => ~Beyond(call[c], paid[c])
        BY <2>2 DEF OneCharged
      <3> QED
        BY <2>2, <3>1, <3>2
    <2> QED
      BY <2>1, <2>2
  <1>3. ASSUME NEW d \in Calls PROVE Sound(call'[d], row'[call'[d].req], paid'[d])
    <2>1. CASE d = c
      BY <1>1, <2>1
    <2>2. CASE d # c
      <3>1. call'[d] = call[d] /\ paid'[d] = paid[d] /\ Sound(call[d], row[call[d].req], paid[d]) /\ paid[d] \in Nat
        BY <1>1, <2>2 DEF CallsSound, Shape
      <3>2. CASE row'[call[d].req] = row[call[d].req]
        BY <3>1, <3>2
      <3>3. CASE ~Beyond(call[d], paid[d])
        BY <3>1, <3>3 DEF Sound, Beyond, Serving
      <3> QED
        BY <1>2, <2>2, <3>2, <3>3
    <2> QED
      BY <2>1, <2>2
  <1>4. ASSUME NEW d \in Calls PROVE Linked(d)'
    <2>1. Linked(d) /\ Linked(c)
      BY DEF CallsSound
    <2>2. \A e \in Calls : /\ call[e].pc # "new" => call'[e].pc # "new"
                           /\ call'[e].kind = call[e].kind /\ call'[e].req = call[e].req /\ call'[e].actor = call[e].actor
                           /\ call'[e].pc # "new" => call[e].pc # "new"
      BY <1>1
    <2> QED
      BY <2>1, <2>2 DEF Linked
  <1>5. ASSUME NEW d \in Calls, NEW e \in Calls, Beyond(call'[d], paid'[d]), Beyond(call'[e], paid'[e]),
               call'[d].req = call'[e].req, d # e
        PROVE  FALSE
    <2>1. ASSUME NEW g \in Calls, g # c, Beyond(call[g], paid[g]), Beyond(y, paid'[c]), call[g].req = y.req
          PROVE  FALSE
      <3>1. row[y.req].kind # "none"
        BY <2>1 DEF CallsSound, Sound
      <3>2. Beyond(call[c], paid[c])
        BY <2>1, <3>1
      <3> QED
        BY <2>1, <3>2 DEF OneCharged
    <2>2. CASE d = c
      BY <1>1, <1>5, <2>1, <2>2
    <2>3. CASE e = c
      BY <1>1, <1>5, <2>1, <2>3
    <2>4. CASE d # c /\ e # c
      BY <1>1, <1>5, <2>4 DEF OneCharged
    <2> QED
      BY <2>2, <2>3, <2>4
  <1>6. CallsSound'
    BY <1>3, <1>4 DEF CallsSound
  <1> QED
    BY <1>5, <1>6 DEF OneCharged

\* A new call: nothing refers to it yet, and nothing was charged for it.
LEMMA FirstStep ==
  ASSUME Shape, CallsSound, OneCharged, NEW c \in Calls, NEW y \in CallRow,
         call' = [call EXCEPT ![c] = y], call[c].pc = "new", y.pc \in {"sent", "ceiling", "done"},
         UNCHANGED <<row, paid>>,
         y.req \in Calls, y.kind = "intake" => y.req = c,
         y.kind \in Kinds =>
           y.actor \in Actors /\ (y.req = c \/ (call[y.req].pc # "new" /\ call[y.req].kind = y.kind /\ call[y.req].req = y.req)),
         Sound(y, row[y.req], 0)
  PROVE  CallsSound' /\ OneCharged'
  <1>1. /\ call'[c] = y /\ \A d \in Calls \ {c} : call'[d] = call[d]
        /\ paid[c] = 0
    BY DEF Shape, CallsSound, Sound
  <1>2. ASSUME NEW d \in Calls PROVE Sound(call'[d], row'[call'[d].req], paid'[d])
    BY <1>1 DEF CallsSound
  <1>3. ASSUME NEW d \in Calls PROVE Linked(d)'
    <2>1. CASE d = c
      <3>1. CASE y.kind \in Kinds /\ y.req # c
        BY <1>1, <2>1, <3>1 DEF Linked
      <3>2. CASE y.kind \notin Kinds \/ y.req = c
        BY <1>1, <2>1, <3>2 DEF Linked
      <3> QED
        BY <3>1, <3>2
    <2>2. CASE d # c
      <3>1. Linked(d) /\ call'[d] = call[d]
        BY <1>1, <2>2 DEF CallsSound
      <3>2. call[d].pc # "new" /\ call[d].kind \in Kinds => call'[call[d].req] = call[call[d].req]
        BY <1>1, <3>1 DEF Linked
      <3> QED
        BY <3>1, <3>2 DEF Linked
    <2> QED
      BY <2>1, <2>2
  <1>4. ~Beyond(y, 0)
    BY DEF Beyond, Serving
  <1>5. CallsSound'
    BY <1>2, <1>3 DEF CallsSound
  <1>6. OneCharged'
    BY <1>1, <1>4 DEF OneCharged
  <1> QED
    BY <1>5, <1>6

(***************************************************************************)
(* The allowances, the turns of intake, and the end of a call.             *)
(***************************************************************************)
LEMMA CountsStay ==
  ASSUME CountsInv,
         \A r \in Calls : row'[r].recent =>
           row[r].recent /\ row'[r].kind = row[r].kind /\ row'[r].actor = row[r].actor
  PROVE  CountsInv'
  <1>1. ASSUME NEW k \in Kinds
        PROVE  /\ IsFiniteSet(Recent(k))' /\ (Cardinality(Recent(k)) <= GlobalLimit)' /\ (Cardinality(Recent(k)) <= TenantLimit)'
               /\ \A a \in Actors : (Cardinality(RecentOf(k, a)) <= ActorLimit)'
    <2> DEFINE after == {r \in Calls : row'[r].kind = k /\ row'[r].recent}
               afterOf(a) == {r \in after : row'[r].actor = a}
    <2>1. /\ IsFiniteSet(Recent(k)) /\ Cardinality(Recent(k)) <= GlobalLimit /\ Cardinality(Recent(k)) <= TenantLimit
          /\ \A a \in Actors : Cardinality(RecentOf(k, a)) <= ActorLimit
      BY DEF CountsInv, AllowanceHeld
    <2>2. after \in SUBSET Recent(k) /\ \A a \in Actors : afterOf(a) \in SUBSET RecentOf(k, a)
      BY DEF Recent, RecentOf
    <2>3. /\ IsFiniteSet(after) /\ Cardinality(after) <= Cardinality(Recent(k))
          /\ Cardinality(after) \in Nat /\ Cardinality(Recent(k)) \in Nat
      BY <2>1, <2>2, FS_Subset, FS_CardinalityType
    <2>4. ASSUME NEW a \in Actors PROVE Cardinality(afterOf(a)) <= ActorLimit
      <3>1. RecentOf(k, a) \in SUBSET Recent(k)
        BY DEF RecentOf
      <3>2. IsFiniteSet(RecentOf(k, a))
        BY <2>1, <3>1, FS_Subset
      <3>3. /\ Cardinality(afterOf(a)) <= Cardinality(RecentOf(k, a))
            /\ Cardinality(afterOf(a)) \in Nat /\ Cardinality(RecentOf(k, a)) \in Nat
        BY <2>2, <3>2, FS_Subset, FS_CardinalityType
      <3> QED
        BY <2>1, <3>3, ModelCallsAssumption
    <2>5. Cardinality(after) <= GlobalLimit /\ Cardinality(after) <= TenantLimit
      BY <2>1, <2>3, ModelCallsAssumption
    <2> QED
      BY <2>3, <2>4, <2>5 DEF Recent, RecentOf
  <1> QED
    BY <1>1 DEF CountsInv, AllowanceHeld

\* A request is reserved while its count leaves room.
LEMMA CountsReserve ==
  ASSUME Shape, CountsInv, NEW c \in Calls, call[c].req \in Calls, call[c].kind \in Kinds, call[c].actor \in Actors,
         row[call[c].req].kind = "none", Allowed(call[c].kind, call[c].actor), Reserved(c)
  PROVE  CountsInv'
  <1> DEFINE q == call[c].req  kind == call[c].kind  actor == call[c].actor
  <1>1. /\ row'[q].kind = kind /\ row'[q].actor = actor /\ row'[q].recent
        /\ \A r \in Calls \ {q} : row'[r] = row[r]
    BY DEF Shape, Reserved, NoRow
  <1>2. row[q].kind = "none" /\ kind \in Kinds /\ q \in Calls /\ actor \in Actors
    OBVIOUS
  <1> HIDE DEF q, kind, actor
  <1>3. ASSUME NEW k \in Kinds
        PROVE  /\ IsFiniteSet(Recent(k))' /\ (Cardinality(Recent(k)) <= GlobalLimit)' /\ (Cardinality(Recent(k)) <= TenantLimit)'
               /\ \A a \in Actors : (Cardinality(RecentOf(k, a)) <= ActorLimit)'
    <2> DEFINE after == {r \in Calls : row'[r].kind = k /\ row'[r].recent}
               afterOf(a) == {r \in after : row'[r].actor = a}
    <2>1. /\ IsFiniteSet(Recent(k)) /\ Cardinality(Recent(k)) <= GlobalLimit /\ Cardinality(Recent(k)) <= TenantLimit
          /\ \A a \in Actors : Cardinality(RecentOf(k, a)) <= ActorLimit
      BY DEF CountsInv, AllowanceHeld
    <2>2. Cardinality(Recent(k)) \in Nat /\ {GlobalLimit, TenantLimit, ActorLimit} \subseteq Nat
      BY <2>1, FS_CardinalityType, ModelCallsAssumption
    <2>3. \A a \in Actors : IsFiniteSet(RecentOf(k, a)) /\ Cardinality(RecentOf(k, a)) \in Nat
      <3>1. \A a \in Actors : RecentOf(k, a) \in SUBSET Recent(k)
        BY DEF RecentOf
      <3> QED
        BY <2>1, <3>1, FS_Subset, FS_CardinalityType
    <2>4. CASE k # kind
      <3>1. after = Recent(k) /\ \A a \in Actors : afterOf(a) = RecentOf(k, a)
        BY <1>1, <1>2, <2>4 DEF Recent, RecentOf, Kinds
      <3> QED
        BY <2>1, <3>1 DEF Recent, RecentOf
    <2>5. CASE k = kind
      <3>1. /\ after = Recent(k) \cup {q} /\ q \notin Recent(k) /\ q \in Calls
            /\ \A a \in Actors \ {actor} : afterOf(a) = RecentOf(k, a)
            /\ afterOf(actor) = RecentOf(k, actor) \cup {q} /\ q \notin RecentOf(k, actor)
        <4>1. \A r \in Calls : r \in after <=> r \in Recent(k) \/ r = q
          BY <1>1, <1>2, <2>5 DEF Recent
        <4>2. q \notin Recent(k)
          BY <1>1, <1>2, <2>5 DEF Recent, Kinds
        <4>3. after = Recent(k) \cup {q}
          BY <1>2, <4>1 DEF Recent
        <4>4. \A a \in Actors \ {actor} : afterOf(a) = RecentOf(k, a)
          BY <1>1, <4>2, <4>3 DEF RecentOf, Recent
        <4>5. afterOf(actor) = RecentOf(k, actor) \cup {q}
          BY <1>1, <4>2, <4>3 DEF RecentOf, Recent
        <4> QED
          BY <1>2, <4>2, <4>3, <4>4, <4>5 DEF RecentOf
      <3>2. /\ Cardinality(Recent(k)) < GlobalLimit /\ Cardinality(Recent(k)) < TenantLimit
            /\ Cardinality(RecentOf(k, actor)) < ActorLimit
        BY <2>5 DEF Allowed, kind, actor
      <3>3. IsFiniteSet(after) /\ Cardinality(after) = Cardinality(Recent(k)) + 1
        BY <2>1, <3>1, FS_AddElement
      <3>4. Cardinality(afterOf(actor)) = Cardinality(RecentOf(k, actor)) + 1
        BY <2>3, <3>1, FS_AddElement DEF actor
      <3> HIDE DEF after, afterOf
      <3>5. Cardinality(after) <= GlobalLimit /\ Cardinality(after) <= TenantLimit
        BY <2>2, <3>2, <3>3
      <3>6. \A a \in Actors : Cardinality(afterOf(a)) <= ActorLimit
        BY <2>1, <2>2, <2>3, <3>1, <3>2, <3>4 DEF actor
      <3> QED
        BY <3>3, <3>5, <3>6 DEF Recent, RecentOf, after, afterOf
    <2> QED
      BY <2>4, <2>5
  <1> QED
    BY <1>3 DEF CountsInv, AllowanceHeld

\* The turns of intake do not notice what other calls do.
LEMMA TurnsStay ==
  ASSUME TurnsInv, UNCHANGED <<ledger, owner>>,
         \A c \in Calls : call'[c].kind = "intake" => /\ call'[c].pc # "done" => call[c].kind = "intake" /\ call[c].pc # "done"
                                                      /\ call'[c].pc = "model" => call[c].pc = "model"
  PROVE  TurnsInv'
  BY DEF TurnsInv, At, BuildTokensUsed, CeilingHeld

\* The end of a call keeps its kind, its request and its actor.
EndOf(x, code) == [New EXCEPT !.kind = x.kind, !.req = x.req, !.actor = x.actor, !.pc = "done", !.resp = code]

LEMMA EndFacts ==
  ASSUME NEW x \in CallRow, NEW code \in Nat
  PROVE  /\ EndOf(x, code) \in CallRow
         /\ EndOf(x, code).kind = x.kind /\ EndOf(x, code).req = x.req /\ EndOf(x, code).actor = x.actor
         /\ EndOf(x, code).pc = "done" /\ EndOf(x, code).resp = code
  BY DEF EndOf, New, CallRow, Kinds, Owners, Steps, Serving

LEMMA EndSound ==
  ASSUME NEW x \in CallRow, NEW code \in Nat, NEW r, NEW p \in Nat,
         code \in {404, 429} => p = 0,
         x.kind \in Kinds /\ p > 0 => r.kind # "none" /\ r.attempted /\ (r.known => r.cost = p)
  PROVE  Sound(EndOf(x, code), r, p)
  <1> DEFINE y == EndOf(x, code)
  <1>1. y.kind = x.kind /\ y.pc = "done" /\ y.resp = code
    BY EndFacts
  <1> HIDE DEF y
  <1>2. Sound(y, r, p)
    BY <1>1 DEF Sound, Beyond, Serving
  <1> QED
    BY <1>2 DEF y

LEMMA ShownCode ==
  ASSUME NEW kind, NEW code \in {200, 404, 409, 410, 422, 429, 503}
  PROVE  Shown(kind, code) \in Nat /\ (Shown(kind, code) \in {404, 429} => code \in {404, 429})
  BY DEF Shown, AskCodes, ChatCodes

(***************************************************************************)
(* Steps of the ask service.                                               *)
(***************************************************************************)
LEMMA CallFacts ==
  ASSUME Inv, NEW c \in Calls
  PROVE  /\ call[c] \in CallRow /\ paid[c] \in Nat
         /\ Sound(call[c], row[call[c].req], paid[c]) /\ Linked(c)
         /\ call[c].pc # "new" => call[c].req \in Calls /\ row[call[c].req] \in LedgerRow
         /\ call[c].pc # "new" /\ call[c].kind \in Kinds => call[c].actor \in Actors
  BY DEF Inv, Shape, CallsSound, Linked

\* A call goes on without a write to its row.
LEMMA Advance ==
  ASSUME Inv, NEW c \in Calls, NEW y \in CallRow, call' = [call EXCEPT ![c] = y],
         call[c].kind \in Kinds, call[c].pc # "new", y.pc # "new",
         y.kind = call[c].kind, y.req = call[c].req, y.actor = call[c].actor,
         paid' \in [Calls -> Nat], \A d \in Calls \ {c} : paid'[d] = paid[d],
         UNCHANGED <<row, owner, ledger>>, member' \subseteq Actors,
         Beyond(y, paid'[c]) => Beyond(call[c], paid[c]),
         Sound(y, row[y.req], paid'[c])
  PROVE  Inv'
  <1>1. /\ row' = row /\ row \in [Calls -> LedgerRow] /\ Shape /\ CallsSound /\ OneCharged /\ TurnsInv /\ CountsInv
    BY DEF Inv, Shape
  <1>2. CallsSound' /\ OneCharged'
    BY <1>1, CallStep DEF Becomes
  <1>3. CountsInv'
    BY <1>1, CountsStay
  <1>4. TurnsInv'
    <2>1. \A d \in Calls : call'[d].kind = "intake" => call'[d] = call[d]
      BY <1>1 DEF Shape, Kinds
    <2> QED
      BY <1>1, <2>1, TurnsStay
  <1>5. Shape'
    BY <1>1 DEF Shape
  <1> QED
    BY <1>2, <1>3, <1>4, <1>5 DEF Inv

\* A call goes on and writes the row of its request.
LEMMA Write ==
  ASSUME Inv, NEW c \in Calls, NEW y \in CallRow, call' = [call EXCEPT ![c] = y],
         call[c].kind \in Kinds, call[c].pc # "new", y.pc # "new",
         y.kind = call[c].kind, y.req = call[c].req, y.actor = call[c].actor,
         NEW r \in LedgerRow, row' = [row EXCEPT ![y.req] = r], CountsInv',
         UNCHANGED <<paid, owner, ledger, member>>,
         \/ row[y.req].kind = "none"
         \/ r.kind = row[y.req].kind /\ Beyond(call[c], paid[c]) /\ (row[y.req].attempted => r.attempted),
         Beyond(y, paid[c]) => Beyond(call[c], paid[c]) \/ row[y.req].kind = "none",
         Sound(y, r, paid[c])
  PROVE  Inv'
  <1>1. /\ row \in [Calls -> LedgerRow] /\ Shape /\ CallsSound /\ OneCharged /\ TurnsInv /\ paid \in [Calls -> Nat]
        /\ y.req \in Calls
    BY DEF Inv, Shape, CallsSound, Linked
  <1>2. row' \in [Calls -> LedgerRow] /\ row'[y.req] = r /\ \A q \in Calls \ {y.req} : row'[q] = row[q]
    BY <1>1
  <1>3. CallsSound' /\ OneCharged'
    BY <1>1, <1>2, CallStep DEF Becomes
  <1>4. TurnsInv'
    <2>1. \A d \in Calls : call'[d].kind = "intake" => call'[d] = call[d]
      BY <1>1 DEF Shape, Kinds
    <2> QED
      BY <1>1, <2>1, TurnsStay
  <1>5. Shape'
    BY <1>1, <1>2 DEF Shape
  <1> QED
    BY <1>3, <1>4, <1>5 DEF Inv

\* A call ends without a write to its row.
LEMMA Ending ==
  ASSUME Inv, NEW c \in Calls, NEW code \in Nat, Failed(c, code),
         call[c].kind \in Kinds, call[c].pc # "new",
         paid' \in [Calls -> Nat], \A d \in Calls \ {c} : paid'[d] = paid[d],
         UNCHANGED <<row, owner, ledger>>, member' \subseteq Actors,
         code \in {404, 429} => paid'[c] = 0,
         paid'[c] > 0 => Beyond(call[c], paid[c]) /\ row[call[c].req].attempted
                         /\ (row[call[c].req].known => row[call[c].req].cost = paid'[c])
  PROVE  Inv'
  <1> DEFINE y == EndOf(call[c], code)
  <1>1. call[c] \in CallRow /\ Sound(call[c], row[call[c].req], paid[c]) /\ paid'[c] \in Nat
    BY CallFacts
  <1>2. /\ y \in CallRow /\ y.pc = "done"
        /\ y.kind = call[c].kind /\ y.req = call[c].req /\ y.actor = call[c].actor
    BY <1>1, EndFacts
  <1>3. call' = [call EXCEPT ![c] = y]
    BY DEF Failed, EndOf
  <1>4. paid'[c] > 0 => row[call[c].req].kind # "none"
    BY <1>1 DEF Sound
  <1>5. Sound(y, row[call[c].req], paid'[c])
    BY <1>1, <1>4, EndSound
  <1> HIDE DEF y
  <1>6. Beyond(y, paid'[c]) => Beyond(call[c], paid[c])
    BY <1>2 DEF Beyond, Serving
  <1> QED
    BY <1>2, <1>3, <1>5, <1>6, Advance

\* A call goes to its next step and nothing else changes.
LEMMA GoOn ==
  ASSUME Inv, NEW c \in Calls, NEW pc \in {"reserve", "context", "start", "finish"}, Goto(c, pc),
         UNCHANGED <<row, owner, ledger, paid, member>>,
         \/ call[c].pc = "sent" /\ pc = "reserve"
         \/ call[c].pc = "context" /\ pc \in {"start", "finish"}
  PROVE  Inv'
  <1> DEFINE y == [call[c] EXCEPT !.pc = pc]
  <1>1. call[c] \in CallRow /\ Sound(call[c], row[call[c].req], paid[c]) /\ paid[c] \in Nat
    BY CallFacts
  <1>2. /\ y \in CallRow /\ y.pc = pc
        /\ y.kind = call[c].kind /\ y.req = call[c].req /\ y.actor = call[c].actor
        /\ y.metered = call[c].metered /\ y.known = call[c].known /\ y.resp = call[c].resp
    BY <1>1 DEF CallRow, Steps, Serving
  <1>3. call' = [call EXCEPT ![c] = y]
    BY DEF Goto, Inv, Shape
  <1> HIDE DEF y
  <1>4. Sound(y, row[y.req], paid[c])
    BY <1>1, <1>2 DEF Sound, Beyond, Serving, Kinds
  <1>5. Beyond(y, paid[c]) => Beyond(call[c], paid[c])
    BY <1>2 DEF Beyond, Serving
  <1>6. call[c].kind \in Kinds
    BY <1>1 DEF Sound
  <1> QED
    BY <1>1, <1>2, <1>3, <1>4, <1>5, <1>6, Advance DEF Inv, Shape

LEMMA EnterStep ==
  ASSUME Inv, NEW c \in Calls, Enter(c)
  PROVE  Inv'
  <1>1. /\ call[c].pc = "sent" /\ UNCHANGED <<row, owner, ledger, paid, member>>
        /\ Failed(c, 429) \/ Goto(c, "reserve")
    BY DEF Enter, At
  <1>2. /\ call[c] \in CallRow /\ Sound(call[c], row[call[c].req], paid[c])
        /\ call[c].kind \in Kinds /\ paid[c] = 0
    BY <1>1, CallFacts DEF Sound
  <1>3. paid' \in [Calls -> Nat] /\ member' \subseteq Actors
    BY <1>1 DEF Inv, Shape
  <1>4. CASE Failed(c, 429)
    BY <1>1, <1>2, <1>3, <1>4, Ending
  <1>5. CASE Goto(c, "reserve")
    BY <1>1, <1>2, <1>3, <1>5, GoOn
  <1> QED
    BY <1>1, <1>4, <1>5

LEMMA ReadStep ==
  ASSUME Inv, NEW c \in Calls, Context(c) \/ Evidence(c)
  PROVE  Inv'
  <1>1. /\ call[c].pc = "context" /\ UNCHANGED <<row, owner, ledger, paid, member>>
        /\ \/ \E code \in {404, 410, 422} : Ended(c, code)
           \/ \E pc \in {"start", "finish"} : Goto(c, pc)
    BY DEF Context, Evidence, At, Read
  <1>2. /\ call[c] \in CallRow /\ Sound(call[c], row[call[c].req], paid[c])
        /\ call[c].kind \in Kinds /\ paid[c] = 0 /\ call[c].metered = 0
    BY <1>1, CallFacts DEF Sound
  <1>3. paid' \in [Calls -> Nat] /\ member' \subseteq Actors
    BY <1>1 DEF Inv, Shape
  <1>4. CASE \E code \in {404, 410, 422} : Ended(c, code)
    <2>1. PICK code \in {404, 410, 422} : Failed(c, Shown(call[c].kind, code))
      BY <1>4 DEF Ended
    <2> QED
      BY <1>1, <1>2, <1>3, <2>1, ShownCode, Ending
  <1>5. CASE \E pc \in {"start", "finish"} : Goto(c, pc)
    BY <1>1, <1>2, <1>3, <1>5, GoOn
  <1> QED
    BY <1>1, <1>4, <1>5

\* What a reservation makes of the row, and the start of the model.
ReservedRow(x) == [NoRow EXCEPT !.kind = x.kind, !.actor = x.actor, !.outcome = "reserved", !.recent = TRUE]
StartedRow(r) == [r EXCEPT !.attempted = TRUE]

LEMMA RowFacts ==
  ASSUME NEW x \in CallRow, x.kind \in Kinds, NEW r \in LedgerRow
  PROVE  /\ ReservedRow(x) \in LedgerRow /\ ReservedRow(x).kind = x.kind /\ ~ReservedRow(x).known
         /\ StartedRow(r) \in LedgerRow /\ StartedRow(r).kind = r.kind /\ StartedRow(r).actor = r.actor
         /\ StartedRow(r).recent = r.recent /\ StartedRow(r).attempted /\ StartedRow(r).known = r.known
  <1>1. ReservedRow(x) \in LedgerRow /\ ReservedRow(x).kind = x.kind /\ ~ReservedRow(x).known
    <2>1. x.kind \in Kinds \cup {"none"} /\ x.actor \in Actors \cup {0} /\ 0 \in Int
      BY DEF CallRow
    <2>2. NoRow \in LedgerRow
      BY DEF NoRow, LedgerRow
    <2>3. ReservedRow(x) \in LedgerRow
      BY <2>1, <2>2 DEF ReservedRow, LedgerRow
    <2>4. ReservedRow(x).kind = x.kind
      BY <2>2 DEF ReservedRow, LedgerRow
    <2>5. ReservedRow(x).known = FALSE
      BY DEF ReservedRow, NoRow
    <2> QED
      BY <2>3, <2>4, <2>5
  <1>2. StartedRow(r) \in LedgerRow /\ StartedRow(r).kind = r.kind /\ StartedRow(r).actor = r.actor
    BY DEF StartedRow, LedgerRow
  <1>3. StartedRow(r).recent = r.recent /\ StartedRow(r).attempted /\ StartedRow(r).known = r.known
    BY DEF StartedRow, LedgerRow
  <1> QED
    BY <1>1, <1>2, <1>3

LEMMA Reserving ==
  ASSUME Inv, NEW c \in Calls, NEW y \in CallRow, call' = [call EXCEPT ![c] = y], call[c].pc = "reserve",
         y.pc \in {"context", "done"}, y.kind = call[c].kind, y.req = call[c].req, y.actor = call[c].actor,
         y.metered = 0, y.known = TRUE, y.resp \notin {404, 429}, y.pc # "done" => y.resp = 0,
         ~Duplicate(call[c].req), Allowed(call[c].kind, call[c].actor), Reserved(c),
         UNCHANGED <<paid, owner, ledger, member>>
  PROVE  Inv'
  <1> DEFINE r == ReservedRow(call[c])
  <1>1. /\ call[c] \in CallRow /\ paid[c] = 0 /\ call[c].kind \in Kinds
        /\ call[c].req \in Calls /\ call[c].actor \in Actors /\ row[y.req].kind = "none"
    BY CallFacts DEF Sound, Duplicate
  <1>2. r \in LedgerRow /\ r.kind = y.kind /\ ~r.known
    <2>1. row[call[c].req] \in LedgerRow
      BY <1>1 DEF Inv, Shape
    <2> QED
      BY <1>1, <2>1, RowFacts
  <1>3. row' = [row EXCEPT ![y.req] = r]
    BY DEF Reserved, ReservedRow
  <1>4. CountsInv'
    BY <1>1, CountsReserve DEF Inv
  <1> HIDE DEF r
  <1>5. Sound(y, r, paid[c])
    BY <1>1, <1>2 DEF Sound, Beyond, Serving, Kinds
  <1> QED
    BY <1>1, <1>2, <1>3, <1>4, <1>5, Write

LEMMA ReserveStep ==
  ASSUME Inv, NEW c \in Calls, Reserve(c)
  PROVE  Inv'
  <1>1. /\ call[c].pc = "reserve" /\ UNCHANGED <<owner, ledger, paid, member>>
        /\ \/ UNCHANGED row /\ \E code \in {404, 409, 429} : Ended(c, code)
           \/ /\ ~Duplicate(call[c].req) /\ Allowed(call[c].kind, call[c].actor)
              /\ Reserved(c) /\ Goto(c, "context")
    BY DEF Reserve, At
  <1>2. /\ call[c] \in CallRow /\ Sound(call[c], row[call[c].req], paid[c])
        /\ call[c].kind \in Kinds /\ paid[c] = 0
    BY <1>1, CallFacts DEF Sound
  <1>3. paid' \in [Calls -> Nat] /\ member' \subseteq Actors
    BY <1>1 DEF Inv, Shape
  <1>4. CASE UNCHANGED row /\ \E code \in {404, 409, 429} : Ended(c, code)
    <2>1. PICK code \in {404, 409, 429} : Failed(c, Shown(call[c].kind, code))
      BY <1>4 DEF Ended
    <2> QED
      BY <1>1, <1>2, <1>3, <1>4, <2>1, ShownCode, Ending
  <1>5. CASE /\ ~Duplicate(call[c].req) /\ Allowed(call[c].kind, call[c].actor)
             /\ Reserved(c) /\ Goto(c, "context")
    <2> DEFINE y == [call[c] EXCEPT !.pc = "context"]
    <2>1. /\ y \in CallRow /\ y.pc = "context"
          /\ y.kind = call[c].kind /\ y.req = call[c].req /\ y.actor = call[c].actor
          /\ y.metered = call[c].metered /\ y.known = call[c].known /\ y.resp = call[c].resp
      BY <1>2 DEF CallRow, Steps, Serving
    <2>2. call' = [call EXCEPT ![c] = y]
      BY <1>5 DEF Goto, Inv, Shape
    <2> HIDE DEF y
    <2>3. y.metered = 0 /\ y.resp = 0 /\ y.resp \notin {404, 429}
      BY <1>1, <1>2, <2>1 DEF Sound
    <2>4. y.known = TRUE
      BY <1>1, <1>2, <2>1 DEF Sound, CallRow
    <2> QED
      BY <1>1, <1>5, <2>1, <2>2, <2>3, <2>4, Reserving
  <1> QED
    BY <1>1, <1>4, <1>5

LEMMA Starting ==
  ASSUME Inv, NEW c \in Calls, NEW y \in CallRow, Becomes(c, y), call[c].pc = "start",
         y.pc \in {"model", "done"}, y.kind = call[c].kind, y.req = call[c].req, y.actor = call[c].actor,
         y.metered = 0, y.resp \notin {404, 429}, y.pc # "done" => y.resp = 0,
         Started(c), UNCHANGED <<paid, owner, ledger, member>>
  PROVE  Inv'
  <1> DEFINE r == StartedRow(row[call[c].req])
  <1>1. /\ call[c] \in CallRow /\ paid[c] = 0 /\ call[c].kind \in Kinds /\ Sound(call[c], row[call[c].req], paid[c])
        /\ call[c].req \in Calls /\ row[call[c].req] \in LedgerRow
    BY CallFacts DEF Sound
  <1>2. /\ r \in LedgerRow /\ r.kind = row[call[c].req].kind /\ r.actor = row[call[c].req].actor
        /\ r.recent = row[call[c].req].recent /\ r.attempted /\ r.known = row[call[c].req].known
    BY <1>1, RowFacts
  <1>3. row' = [row EXCEPT ![call[c].req] = r]
    BY <1>1 DEF Started, StartedRow, Inv, Shape
  <1> HIDE DEF r
  <1>4. CountsInv'
    <2>1. row \in [Calls -> LedgerRow] /\ CountsInv
      BY DEF Inv, Shape
    <2>2. \A q \in Calls : row'[q].recent => row[q].recent /\ row'[q].kind = row[q].kind /\ row'[q].actor = row[q].actor
      BY <1>2, <1>3, <2>1
    <2> QED
      BY <2>1, <2>2, CountsStay
  <1>5. Beyond(call[c], paid[c])
    BY <1>1 DEF Beyond, Serving
  <1>6. Sound(y, r, paid[c])
    BY <1>1, <1>2 DEF Sound, Beyond, Serving, Kinds
  <1>7. /\ call' = [call EXCEPT ![c] = y] /\ row' = [row EXCEPT ![y.req] = r] /\ call[c].pc # "new" /\ y.pc # "new"
        /\ r.kind = row[y.req].kind /\ (row[y.req].attempted => r.attempted)
    BY <1>2, <1>3 DEF Becomes
  <1> QED
    BY <1>1, <1>2, <1>4, <1>5, <1>6, <1>7, Write

LEMMA StartStep ==
  ASSUME Inv, NEW c \in Calls, Start(c)
  PROVE  Inv'
  <1> DEFINE y == [call[c] EXCEPT !.pc = "model"]
  <1>1. /\ call[c].pc = "start" /\ UNCHANGED <<owner, ledger, paid, member>> /\ Started(c)
        /\ call[c] \in CallRow /\ Sound(call[c], row[call[c].req], paid[c]) /\ call' = [call EXCEPT ![c] = y]
    BY CallFacts DEF Start, At, Goto, Inv, Shape
  <1>2. /\ y \in CallRow /\ y.pc = "model"
        /\ y.kind = call[c].kind /\ y.req = call[c].req /\ y.actor = call[c].actor
        /\ y.metered = call[c].metered /\ y.resp = call[c].resp
    BY <1>1 DEF CallRow, Steps, Serving
  <1> HIDE DEF y
  <1>3. y.metered = 0 /\ y.resp = 0 /\ y.resp \notin {404, 429}
    BY <1>1, <1>2 DEF Sound
  <1>4. y.pc \in {"model", "done"} /\ (y.pc # "done" => y.resp = 0)
    BY <1>2, <1>3
  <1>5. /\ Becomes(c, y)
        /\ y.kind = call[c].kind /\ y.req = call[c].req /\ y.actor = call[c].actor
    BY <1>1, <1>2 DEF Becomes
  <1> QED
    BY <1>1, <1>2, <1>3, <1>4, <1>5, Starting

\* At the model: the row is attempted and its usage still unknown.
LEMMA ModelFacts ==
  ASSUME Inv, NEW c \in Calls, call[c].pc \in {"model", "tools", "finish"}, call[c].kind \in Kinds
  PROVE  /\ call[c] \in CallRow /\ paid[c] \in Nat /\ Beyond(call[c], paid[c]) /\ call[c].pc # "new"
         /\ row[call[c].req].kind # "none" /\ ~row[call[c].req].known /\ call[c].resp = 0
         /\ call[c].pc # "finish" \/ paid[c] > 0 => row[call[c].req].attempted
         /\ call[c].kind = "chat" /\ call[c].known => call[c].metered = paid[c]
         /\ call[c].kind = "ask" => call[c].pc # "tools"
         /\ call[c].kind = "ask" /\ call[c].pc = "model" => call[c].metered = 0 /\ paid[c] = 0
         /\ call[c].kind = "ask" /\ call[c].pc = "finish" /\ call[c].metered > 0 => call[c].metered = paid[c]
  <1>1. call[c] \in CallRow /\ paid[c] \in Nat /\ Sound(call[c], row[call[c].req], paid[c])
    BY CallFacts
  <1>2. call[c].pc \in Serving /\ call[c].pc # "new" /\ Beyond(call[c], paid[c])
    BY DEF Serving, Beyond
  <1> QED
    BY <1>1, <1>2 DEF Sound

\* A metered call.
LEMMA MeteredFacts ==
  ASSUME NEW x \in CallRow
  PROVE  /\ Metered(x) \in CallRow /\ Metered(x).metered = x.metered + 1 /\ Metered(x).resp = x.resp
         /\ Metered(x).kind = x.kind /\ Metered(x).req = x.req /\ Metered(x).actor = x.actor
         /\ Metered(x).known = x.known
  <1>1. x.calls + 1 \in Nat /\ x.metered + 1 \in Nat
    BY DEF CallRow
  <1>2. Metered(x) = [x EXCEPT !.calls = x.calls + 1, !.metered = x.metered + 1]
    BY DEF Metered
  <1>3. Metered(x) \in CallRow
    BY <1>1, <1>2 DEF CallRow
  <1>4. /\ Metered(x).metered = x.metered + 1 /\ Metered(x).resp = x.resp
        /\ Metered(x).kind = x.kind /\ Metered(x).req = x.req /\ Metered(x).actor = x.actor
    BY <1>2 DEF CallRow
  <1>5. Metered(x).known = x.known
    BY <1>2 DEF CallRow
  <1> QED
    BY <1>3, <1>4, <1>5

LEMMA RespondStep ==
  ASSUME Inv, NEW c \in Calls, NEW stop, Respond(c, stop)
  PROVE  Inv'
  <1> DEFINE y == [Metered(call[c]) EXCEPT !.ok = stop = "end_turn",
                     !.pc = IF stop = "tool_use" THEN "tools" ELSE "finish"]
  <1>1. /\ call[c].pc = "model" /\ call[c].kind = "chat" /\ call[c].kind \in Kinds /\ call[c] \in CallRow
        /\ call' = [call EXCEPT ![c] = y] /\ paid' = [paid EXCEPT ![c] = @ + 1]
        /\ UNCHANGED <<row, owner, ledger, member>>
    BY CallFacts DEF Respond, At, Kinds
  <1>2. /\ y \in CallRow /\ y.pc \in {"tools", "finish"} /\ y.metered = call[c].metered + 1 /\ y.resp = call[c].resp
        /\ y.kind = call[c].kind /\ y.req = call[c].req /\ y.actor = call[c].actor
    <2>1. PICK ok \in BOOLEAN : ok = (stop = "end_turn")
      OBVIOUS
    <2>2. y = [Metered(call[c]) EXCEPT !.ok = ok, !.pc = IF stop = "tool_use" THEN "tools" ELSE "finish"]
      BY <2>1
    <2> HIDE DEF y
    <2> QED
      BY <1>1, <2>1, <2>2, MeteredFacts DEF CallRow, Steps, Serving
  <1>3. y.known = call[c].known
    BY <1>1, MeteredFacts DEF CallRow
  <1> HIDE DEF y
  <1>4. /\ paid' \in [Calls -> Nat] /\ paid'[c] = paid[c] + 1 /\ \A d \in Calls \ {c} : paid'[d] = paid[d]
        /\ member' \subseteq Actors
    BY <1>1 DEF Inv, Shape
  <1>5. Sound(y, row[y.req], paid'[c])
    BY <1>1, <1>2, <1>3, <1>4, ModelFacts DEF Sound, Beyond, Serving
  <1>6. Beyond(call[c], paid[c]) /\ call[c].pc # "new" /\ y.pc # "new"
    BY <1>1, <1>2, ModelFacts
  <1> QED
    BY <1>1, <1>2, <1>4, <1>5, <1>6, Advance

LEMMA RunToolsStep ==
  ASSUME Inv, NEW c \in Calls, RunTools(c)
  PROVE  Inv'
  <1> DEFINE y == [call[c] EXCEPT !.tools = TRUE, !.pc = IF call[c].calls < MaxIterations THEN "model" ELSE "finish"]
  <1>1. /\ call[c].pc = "tools" /\ call[c].kind = "chat" /\ call[c].kind \in Kinds /\ call[c] \in CallRow
        /\ call' = [call EXCEPT ![c] = y] /\ UNCHANGED <<row, owner, ledger, paid, member>>
    BY CallFacts DEF RunTools, At, Kinds, Sound
  <1>2. /\ y \in CallRow /\ y.pc \in {"model", "finish"} /\ y.metered = call[c].metered /\ y.resp = call[c].resp
        /\ y.kind = call[c].kind /\ y.req = call[c].req /\ y.actor = call[c].actor
    BY <1>1 DEF CallRow, Steps, Serving
  <1>3. y.known = call[c].known
    BY <1>1 DEF CallRow
  <1> HIDE DEF y
  <1>4. paid' \in [Calls -> Nat] /\ paid'[c] = paid[c] /\ \A d \in Calls \ {c} : paid'[d] = paid[d]
    BY <1>1 DEF Inv, Shape
  <1>5. Sound(y, row[y.req], paid'[c])
    BY <1>1, <1>2, <1>3, <1>4, ModelFacts DEF Sound, Beyond, Serving
  <1>6. Beyond(call[c], paid[c]) /\ call[c].pc # "new" /\ y.pc # "new" /\ member' \subseteq Actors
    BY <1>1, <1>2, ModelFacts DEF Inv, Shape
  <1> QED
    BY <1>1, <1>2, <1>4, <1>5, <1>6, Advance

LEMMA ClassifyStep ==
  ASSUME Inv, NEW c \in Calls, NEW usable \in BOOLEAN, Classify(c, usable)
  PROVE  Inv'
  <1> DEFINE y == [Metered(call[c]) EXCEPT !.ok = usable, !.pc = "finish"]
  <1>1. /\ call[c].pc = "model" /\ call[c].kind = "ask" /\ call[c].kind \in Kinds /\ call[c] \in CallRow
        /\ call' = [call EXCEPT ![c] = y] /\ paid' = [paid EXCEPT ![c] = @ + 1]
        /\ UNCHANGED <<row, owner, ledger, member>>
    BY CallFacts DEF Classify, At, Kinds
  <1>2. /\ y \in CallRow /\ y.pc = "finish" /\ y.metered = call[c].metered + 1 /\ y.resp = call[c].resp
        /\ y.kind = call[c].kind /\ y.req = call[c].req /\ y.actor = call[c].actor
    BY <1>1, MeteredFacts DEF CallRow, Steps, Serving
  <1> HIDE DEF y
  <1>4. /\ paid' \in [Calls -> Nat] /\ paid'[c] = paid[c] + 1 /\ \A d \in Calls \ {c} : paid'[d] = paid[d]
        /\ member' \subseteq Actors
    BY <1>1 DEF Inv, Shape
  <1>5. Sound(y, row[y.req], paid'[c])
    BY <1>1, <1>2, <1>4, ModelFacts DEF Sound, Beyond, Serving
  <1>6. Beyond(call[c], paid[c]) /\ call[c].pc # "new" /\ y.pc # "new"
    BY <1>1, <1>2, ModelFacts
  <1> QED
    BY <1>1, <1>2, <1>4, <1>5, <1>6, Advance

LEMMA InsertFailsStep ==
  ASSUME Inv, NEW c \in Calls, InsertFails(c)
  PROVE  Inv'
  <1> DEFINE y == [call[c] EXCEPT !.known = FALSE]
  <1>1. /\ call[c].pc \in {"model", "tools", "finish"} /\ call[c].kind = "chat" /\ call[c].kind \in Kinds
        /\ call[c] \in CallRow
        /\ call' = [call EXCEPT ![c] = y] /\ UNCHANGED <<row, owner, ledger, paid, member>>
    BY CallFacts DEF InsertFails, Kinds
  <1>2. /\ y \in CallRow /\ y.pc = call[c].pc /\ y.metered = call[c].metered /\ y.resp = call[c].resp
        /\ y.kind = call[c].kind /\ y.req = call[c].req /\ y.actor = call[c].actor
    BY <1>1 DEF CallRow
  <1>3. ~y.known
    BY <1>1 DEF CallRow
  <1> HIDE DEF y
  <1>4. paid' \in [Calls -> Nat] /\ paid'[c] = paid[c] /\ \A d \in Calls \ {c} : paid'[d] = paid[d]
    BY <1>1 DEF Inv, Shape
  <1>5. Sound(y, row[y.req], paid'[c])
    BY <1>1, <1>2, <1>3, <1>4, ModelFacts DEF Sound, Beyond, Serving
  <1>6. Beyond(call[c], paid[c]) /\ call[c].pc # "new" /\ y.pc # "new" /\ member' \subseteq Actors
    BY <1>1, <1>2, ModelFacts DEF Inv, Shape
  <1> QED
    BY <1>1, <1>2, <1>4, <1>5, <1>6, Advance

LEMMA ProviderFailsStep ==
  ASSUME Inv, NEW c \in Calls, ProviderFails(c)
  PROVE  Inv'
  <1> DEFINE y == [call[c] EXCEPT !.calls = call[c].calls + 1, !.pc = "finish", !.known = FALSE]
  <1>1. /\ call[c].pc = "model" /\ call[c].kind \in Kinds /\ call[c] \in CallRow
        /\ \E charge \in {0, 1} : paid' = [paid EXCEPT ![c] = @ + charge]
        /\ UNCHANGED <<row, owner, ledger, member>>
    BY CallFacts DEF ProviderFails, At
  <1> call' = [call EXCEPT ![c] = y]
    BY DEF ProviderFails, KnownAfterError
  <1>2. /\ y \in CallRow /\ y.pc = "finish" /\ y.metered = call[c].metered /\ y.resp = call[c].resp
        /\ y.kind = call[c].kind /\ y.req = call[c].req /\ y.actor = call[c].actor
    <2>1. call[c].calls + 1 \in Nat
      BY <1>1 DEF CallRow
    <2> QED
      BY <1>1, <2>1 DEF CallRow, Steps, Serving
  <1>3. ~y.known
    BY <1>1 DEF CallRow
  <1> HIDE DEF y
  <1>4. /\ paid' \in [Calls -> Nat] /\ paid'[c] \in Nat /\ \A d \in Calls \ {c} : paid'[d] = paid[d]
        /\ member' \subseteq Actors
    BY <1>1 DEF Inv, Shape
  <1>5. Sound(y, row[y.req], paid'[c])
    BY <1>1, <1>2, <1>3, <1>4, ModelFacts DEF Sound, Beyond, Serving, Kinds
  <1>6. Beyond(call[c], paid[c]) /\ call[c].pc # "new" /\ y.pc # "new"
    BY <1>1, <1>2, ModelFacts
  <1> QED
    BY <1>1, <1>2, <1>4, <1>5, <1>6, Advance

\* The row of a call that finished: what it says it knows, it knows.
FinishedRow(x, r) ==
  [r EXCEPT !.outcome = Outcome(x), !.known = ~r.attempted \/ UsageKnown(x),
            !.cost = IF ~r.attempted \/ UsageKnown(x) THEN x.metered ELSE Unknown]

LEMMA FinishedFacts ==
  ASSUME NEW x \in CallRow, NEW r \in LedgerRow
  PROVE  /\ FinishedRow(x, r) \in LedgerRow /\ FinishedRow(x, r).kind = r.kind /\ FinishedRow(x, r).actor = r.actor
         /\ FinishedRow(x, r).recent = r.recent /\ FinishedRow(x, r).attempted = r.attempted
         /\ FinishedRow(x, r).known /\ r.attempted => UsageKnown(x) /\ FinishedRow(x, r).cost = x.metered
  <1>1. PICK known \in BOOLEAN : known = (~r.attempted \/ UsageKnown(x))
    OBVIOUS
  <1>2. PICK cost \in Int : cost = IF ~r.attempted \/ UsageKnown(x) THEN x.metered ELSE Unknown
    BY DEF CallRow, Unknown
  <1>3. Outcome(x) \in {"none", "reserved", "model", "evidence_only", "unavailable", "no_tool"}
    BY DEF Outcome
  <1>4. FinishedRow(x, r) = [r EXCEPT !.outcome = Outcome(x), !.known = known, !.cost = cost]
    BY <1>1, <1>2 DEF FinishedRow
  <1>5. FinishedRow(x, r) \in LedgerRow
    BY <1>3, <1>4 DEF LedgerRow
  <1>6. FinishedRow(x, r).kind = r.kind /\ FinishedRow(x, r).actor = r.actor /\ FinishedRow(x, r).cost = cost
    BY <1>4 DEF LedgerRow
  <1>7. FinishedRow(x, r).known = known
    BY <1>4 DEF LedgerRow
  <1>8. FinishedRow(x, r).recent = r.recent /\ FinishedRow(x, r).attempted = r.attempted
    BY <1>4 DEF LedgerRow
  <1>9. known /\ r.attempted => UsageKnown(x) /\ cost = x.metered
    BY <1>1, <1>2
  <1> QED
    BY <1>5, <1>6, <1>7, <1>8, <1>9

\* A call that finishes, and answers or not.
LEMMA Finishing ==
  ASSUME Inv, NEW c \in Calls, NEW code \in {200, 503}, Failed(c, code), Finished(c),
         call[c].pc = "finish", call[c].kind \in Kinds, UNCHANGED <<paid, owner, ledger, member>>
  PROVE  Inv'
  <1> DEFINE y == EndOf(call[c], code)
             r == FinishedRow(call[c], row[call[c].req])
  <1>1. /\ call[c] \in CallRow /\ call[c].req \in Calls /\ row[call[c].req] \in LedgerRow /\ paid[c] \in Nat
        /\ code \in Nat
    BY CallFacts
  <1>2. /\ y \in CallRow /\ y.pc = "done" /\ call' = [call EXCEPT ![c] = y]
        /\ y.kind = call[c].kind /\ y.req = call[c].req /\ y.actor = call[c].actor
    <2>1. call' = [call EXCEPT ![c] = y]
      BY DEF Failed, EndOf
    <2> QED
      BY <1>1, <2>1, EndFacts
  <1>3. row' = [row EXCEPT ![call[c].req] = r]
    BY DEF Finished, FinishedRow
  <1>4. /\ r \in LedgerRow /\ r.kind = row[call[c].req].kind /\ r.actor = row[call[c].req].actor
        /\ r.recent = row[call[c].req].recent /\ r.attempted = row[call[c].req].attempted
        /\ r.known /\ r.attempted => UsageKnown(call[c]) /\ r.cost = call[c].metered
    BY <1>1, FinishedFacts
  <1>5. CountsInv'
    <2> HIDE DEF r
    <2>1. row \in [Calls -> LedgerRow] /\ CountsInv
      BY DEF Inv, Shape
    <2>2. \A q \in Calls : row'[q].recent => row[q].recent /\ row'[q].kind = row[q].kind /\ row'[q].actor = row[q].actor
      BY <1>1, <1>3, <1>4, <2>1
    <2> QED
      BY <2>1, <2>2, CountsStay
  <1> HIDE DEF r
  <1>6. paid[c] > 0 => r.kind # "none" /\ r.attempted /\ (r.known => r.cost = paid[c])
    <2>1. UsageKnown(call[c]) /\ paid[c] > 0 => call[c].metered = paid[c]
      BY ModelFacts DEF UsageKnown, Kinds
    <2>2. paid[c] > 0 => row[call[c].req].kind # "none" /\ row[call[c].req].attempted
      BY ModelFacts
    <2> QED
      BY <1>4, <2>1, <2>2
  <1>7. Sound(y, r, paid[c])
    BY <1>1, <1>6, EndSound
  <1> HIDE DEF y
  <1>8. /\ Beyond(call[c], paid[c]) /\ call[c].pc # "new" /\ y.pc # "new" /\ row' = [row EXCEPT ![y.req] = r]
        /\ r.kind = row[y.req].kind /\ (row[y.req].attempted => r.attempted)
    BY <1>2, <1>3, <1>4, ModelFacts
  <1> QED
    BY <1>2, <1>4, <1>5, <1>7, <1>8, Write

LEMMA FinishStep ==
  ASSUME Inv, NEW c \in Calls, Finish(c)
  PROVE  Inv'
  <1>1. Shown(call[c].kind, 200) = 200
    BY DEF Shown, AskCodes, ChatCodes
  <1>2. Failed(c, 200) /\ Finished(c) /\ call[c].pc = "finish" /\ call[c].kind \in Kinds
    BY <1>1 DEF Finish, Ended, At
  <1> QED
    BY <1>2, Finishing DEF Finish

LEMMA AbortStep ==
  ASSUME Inv, NEW c \in Calls, Abort(c)
  PROVE  Inv'
  <1> DEFINE y == EndOf(call[c], 503)
  <1>1. /\ call[c].pc \in {"reserve", "context", "start", "model", "tools", "finish"} /\ call[c].kind \in Kinds
        /\ Failed(c, 503) /\ UNCHANGED <<owner, ledger, member>>
        /\ paid' = IF call[c].pc = "model" THEN [paid EXCEPT ![c] = @ + 1] ELSE paid
    <2>1. Shown(call[c].kind, 503) = 503
      BY DEF Shown, AskCodes, ChatCodes
    <2> QED
      BY <2>1 DEF Abort, Ended, At
  <1>2. /\ call[c] \in CallRow /\ paid[c] \in Nat /\ Sound(call[c], row[call[c].req], paid[c]) /\ 503 \in Nat
    BY CallFacts
  <1>3. /\ y \in CallRow /\ y.pc = "done" /\ y.resp = 503 /\ y.metered = 0 /\ call' = [call EXCEPT ![c] = y]
        /\ y.kind = call[c].kind /\ y.req = call[c].req /\ y.actor = call[c].actor
    <2>1. call' = [call EXCEPT ![c] = y] /\ y.metered = 0
      BY <1>1 DEF Failed, EndOf, New
    <2>2. /\ y \in CallRow /\ y.pc = "done" /\ y.resp = 503
          /\ y.kind = call[c].kind /\ y.req = call[c].req /\ y.actor = call[c].actor
      BY <1>2, EndFacts
    <2> QED
      BY <2>1, <2>2
  <1>4. y.known = TRUE
    BY DEF EndOf, New
  <1> HIDE DEF y
  <1>5. CASE UNCHANGED row
    <2>1. /\ paid' \in [Calls -> Nat] /\ (\A d \in Calls \ {c} : paid'[d] = paid[d]) /\ member' \subseteq Actors
      BY <1>1 DEF Inv, Shape
    <2>2. ASSUME paid'[c] > 0
          PROVE  Beyond(call[c], paid[c]) /\ row[call[c].req].attempted /\ ~row[call[c].req].known
      <3>1. call[c].pc \in {"model", "tools", "finish"}
        BY <1>1, <1>2, <2>2 DEF Sound
      <3>2. call[c].pc = "finish" => paid[c] > 0
        BY <1>1, <2>2
      <3> QED
        BY <1>1, <3>1, <3>2, ModelFacts
    <2> QED
      BY <1>1, <1>2, <1>5, <2>1, <2>2, Ending
  <1>6. CASE /\ call[c].pc = "reserve" /\ ~Duplicate(call[c].req) /\ Allowed(call[c].kind, call[c].actor) /\ Reserved(c)
    <2>1. UNCHANGED <<paid, owner, ledger, member>> /\ y.pc \in {"context", "done"} /\ y.resp \notin {404, 429}
      BY <1>1, <1>3, <1>6
    <2> QED
      BY <1>3, <1>4, <1>6, <2>1, Reserving
  <1>7. CASE call[c].pc = "start" /\ Started(c)
    <2>1. /\ UNCHANGED <<paid, owner, ledger, member>> /\ y.pc \in {"model", "done"} /\ y.resp \notin {404, 429}
          /\ Becomes(c, y)
      BY <1>1, <1>3, <1>7 DEF Becomes
    <2> QED
      BY <1>3, <1>7, <2>1, Starting
  <1>8. CASE call[c].pc = "finish" /\ Finished(c)
    BY <1>1, <1>8, Finishing
  <1> QED
    BY <1>5, <1>6, <1>7, <1>8 DEF Abort, At

(***************************************************************************)
(* Intake, and everything around the calls.                                *)
(***************************************************************************)

\* The first step of a call.
LEMMA First ==
  ASSUME Inv, NEW c \in Calls, NEW y \in CallRow,
         call' = [call EXCEPT ![c] = y], call[c].pc = "new", y.pc \in {"sent", "ceiling", "done"},
         UNCHANGED <<row, owner, ledger, paid, member>>,
         y.req \in Calls, y.kind = "intake" => y.req = c,
         y.kind \in Kinds =>
           y.actor \in Actors /\ (y.req = c \/ (call[y.req].pc # "new" /\ call[y.req].kind = y.kind /\ call[y.req].req = y.req)),
         y.kind = "intake" => \A d \in Calls : call[d].kind = "intake" => call[d].pc = "done",
         Sound(y, row[y.req], 0)
  PROVE  Inv'
  <1>1. Shape /\ CallsSound /\ OneCharged /\ TurnsInv /\ CountsInv /\ row' = row /\ paid' = paid
    BY DEF Inv
  <1>2. CallsSound' /\ OneCharged'
    BY <1>1, FirstStep
  <1>3. Shape'
    BY <1>1 DEF Shape
  <1>4. CountsInv'
    BY <1>1, CountsStay
  <1>5. TurnsInv'
    <2>1. call'[c] = y /\ \A d \in Calls \ {c} : call'[d] = call[d]
      BY <1>1 DEF Shape
    <2> QED
      BY <1>1, <2>1 DEF TurnsInv, At, BuildTokensUsed, CeilingHeld
  <1> QED
    BY <1>2, <1>3, <1>4, <1>5 DEF Inv

LEMMA NewFacts ==
  ASSUME Inv, NEW c \in Calls, call[c].pc = "new"
  PROVE  call[c] = New /\ New \in CallRow /\ paid[c] = 0
  BY CallFacts DEF Sound

LEMMA AskStep ==
  ASSUME Inv, NEW c \in Calls, NEW k \in Kinds, NEW a \in Actors, Ask(c, k, a)
  PROVE  Inv'
  <1> DEFINE y == [New EXCEPT !.kind = k, !.req = c, !.actor = a,
                     !.pc = IF a \in member THEN "sent" ELSE "done", !.resp = IF a \in member THEN 0 ELSE 404]
  <1>1. call[c].pc = "new" /\ call[c] = New /\ New \in CallRow /\ UNCHANGED <<row, owner, ledger, paid, member>>
    BY NewFacts DEF Ask, At
  <1>2. call' = [call EXCEPT ![c] = y]
    BY <1>1 DEF Ask
  <1>3. /\ y.kind = k /\ y.req = c /\ y.actor = a /\ y.metered = 0
        /\ \/ y.pc = "sent" /\ y.resp = 0
           \/ y.pc = "done" /\ y.resp = 404
    BY DEF New
  <1>4. y \in CallRow
    <2>1. PICK pc \in {"sent", "done"} : pc = IF a \in member THEN "sent" ELSE "done"
      OBVIOUS
    <2>2. PICK resp \in Nat : resp = IF a \in member THEN 0 ELSE 404
      OBVIOUS
    <2>3. y = [New EXCEPT !.kind = k, !.req = c, !.actor = a, !.pc = pc, !.resp = resp]
      BY <2>1, <2>2
    <2> HIDE DEF y
    <2> QED
      BY <1>1, <2>3 DEF CallRow, Steps
  <1>5. y.known = TRUE
    BY DEF New
  <1> HIDE DEF y
  <1>6. Sound(y, row[y.req], 0)
    BY <1>3, <1>5 DEF Sound, Beyond, Serving, Kinds
  <1> QED
    BY <1>1, <1>2, <1>3, <1>4, <1>6, First DEF Kinds

LEMMA RedeliverStep ==
  ASSUME Inv, NEW c \in Calls, NEW d \in Calls, Redeliver(c, d)
  PROVE  Inv'
  <1> DEFINE y == [New EXCEPT !.kind = call[d].kind, !.req = d, !.actor = call[d].actor, !.pc = "sent"]
  <1>1. /\ call[c].pc = "new" /\ call[c] = New /\ New \in CallRow /\ UNCHANGED <<row, owner, ledger, paid, member>>
        /\ call[d].pc # "new" /\ call[d].req = d /\ call[d].kind \in Kinds /\ call[d].actor \in Actors
    BY NewFacts, CallFacts DEF Redeliver, At
  <1>2. call' = [call EXCEPT ![c] = y]
    BY <1>1 DEF Redeliver
  <1>3. y.kind = call[d].kind /\ y.req = d /\ y.actor = call[d].actor /\ y.metered = 0 /\ y.pc = "sent" /\ y.resp = 0
    BY DEF New
  <1>4. y \in CallRow
    BY <1>1 DEF CallRow, Steps, Serving
  <1>5. y.known = TRUE
    BY DEF New
  <1> HIDE DEF y
  <1>6. Sound(y, row[y.req], 0)
    BY <1>1, <1>3, <1>5 DEF Sound, Beyond, Serving, Kinds
  <1> QED
    BY <1>1, <1>2, <1>3, <1>4, <1>6, First DEF Kinds

LEMMA IntakeTurnStep ==
  ASSUME Inv, NEW c \in Calls, IntakeTurn(c)
  PROVE  Inv'
  <1> DEFINE y == [New EXCEPT !.kind = "intake", !.req = c, !.pc = "ceiling", !.owner = owner]
  <1>1. /\ call[c].pc = "new" /\ call[c] = New /\ New \in CallRow /\ UNCHANGED <<row, owner, ledger, paid, member>>
        /\ \A d \in Calls : call[d].kind = "intake" => call[d].pc = "done"
    BY NewFacts DEF IntakeTurn, At
  <1>2. call' = [call EXCEPT ![c] = y]
    BY <1>1 DEF IntakeTurn
  <1>3. y.kind = "intake" /\ y.req = c /\ y.pc = "ceiling" /\ y.resp = 0
    BY DEF New
  <1>4. y \in CallRow
    BY <1>1 DEF CallRow, Steps, Inv, Shape
  <1> HIDE DEF y
  <1>6. Sound(y, row[y.req], 0)
    BY <1>3 DEF Sound, Beyond, Serving, Kinds
  <1> QED
    BY <1>1, <1>2, <1>3, <1>4, <1>6, First DEF Kinds

\* A step of intake's turn: at most the build's ledger grows, by one call that found tokens left.
LEMMA IntakeStep ==
  ASSUME Inv, NEW c \in Calls, NEW y \in CallRow, Becomes(c, y), call[c].kind = "intake",
         call[c].pc \in {"ceiling", "model"}, y.pc \in {"ceiling", "model", "done"},
         y.kind = call[c].kind, y.req = call[c].req, y.actor = call[c].actor,
         y.pc # "done" => y.resp = 0, y.resp \notin {404, 429},
         paid' \in [Calls -> Nat], \A d \in Calls \ {c} : paid'[d] = paid[d],
         UNCHANGED <<row, owner, member>>,
         \/ UNCHANGED ledger
         \/ call[c].pc = "model" /\ y.pc # "model" /\ ledger' = [ledger EXCEPT ![owner] = ledger[owner] + 1],
         y.pc = "model" => BuildTokensUsed < Ceiling
  PROVE  Inv'
  <1>1. /\ Shape /\ CallsSound /\ OneCharged /\ TurnsInv /\ CountsInv /\ row' = row
        /\ call' = [call EXCEPT ![c] = y] /\ row' \in [Calls -> LedgerRow] /\ Linked(c) /\ call[c].pc # "new"
    BY DEF Inv, Becomes, Shape, CallsSound
  <1>2. Sound(y, row'[y.req], paid'[c])
    BY DEF Sound, Beyond, Serving, Kinds
  <1>3. /\ ~Beyond(y, paid'[c]) /\ y.req \in Calls /\ y.pc # "new"
        /\ row'[y.req] = row[y.req] /\ \A r \in Calls \ {y.req} : row'[r] = row[r]
    BY <1>1 DEF Beyond, Kinds, Linked
  <1>4. CallsSound' /\ OneCharged'
    BY <1>1, <1>2, <1>3, CallStep
  <1>5. CountsInv'
    BY <1>1, CountsStay
  <1>6. ledger' \in [Owners -> Nat] /\ owner' \in Owners
    BY <1>1 DEF Shape
  <1>7. Shape'
    BY <1>1, <1>6 DEF Shape
  <1>8. /\ BuildTokensUsed \in Nat /\ BuildTokensUsed' \in Nat /\ Ceiling \in Nat
        /\ BuildTokensUsed' = BuildTokensUsed \/ (BuildTokensUsed' = BuildTokensUsed + 1 /\ call[c].pc = "model" /\ y.pc # "model")
        /\ \A o \in Owners : o # owner => ledger'[o] = ledger[o]
    <2>1. owner \in {"anon", "tenant"} /\ ledger["anon"] \in Nat /\ ledger["tenant"] \in Nat /\ ledger \in [Owners -> Nat]
      BY <1>1 DEF Shape, Owners
    <2>2. CASE UNCHANGED ledger
      BY <2>1, <2>2, ModelCallsAssumption DEF BuildTokensUsed
    <2>3. CASE call[c].pc = "model" /\ y.pc # "model" /\ ledger' = [ledger EXCEPT ![owner] = ledger[owner] + 1]
      <3>1. CASE owner = "anon"
        <4>1. ledger'["anon"] = ledger["anon"] + 1 /\ ledger'["tenant"] = ledger["tenant"]
          BY <2>1, <2>3, <3>1 DEF Owners
        <4> QED
          BY <2>1, <2>3, <3>1, <4>1, ModelCallsAssumption DEF BuildTokensUsed, Owners
      <3>2. CASE owner = "tenant"
        <4>1. ledger'["tenant"] = ledger["tenant"] + 1 /\ ledger'["anon"] = ledger["anon"]
          BY <2>1, <2>3, <3>2 DEF Owners
        <4> QED
          BY <2>1, <2>3, <3>2, <4>1, ModelCallsAssumption DEF BuildTokensUsed, Owners
      <3> QED
        BY <2>1, <3>1, <3>2
    <2> QED
      BY <2>2, <2>3
  <1>9. call'[c] = y /\ \A d \in Calls \ {c} : call'[d] = call[d]
    BY <1>1 DEF Shape
  <1>10. \A d \in Calls \ {c} : call[d].kind = "intake" => call[d].pc = "done"
    BY <1>1 DEF TurnsInv, At
  <1>11. BuildTokensUsed <= Ceiling /\ (call[c].pc = "model" => BuildTokensUsed < Ceiling)
    BY <1>1 DEF TurnsInv, At, CeilingHeld
  <1>12. TurnsInv'
    <2>1. \A d, e \in Calls : call'[d].kind = "intake" /\ call'[e].kind = "intake" => d = e \/ At(d, "done")' \/ At(e, "done")'
      BY <1>9, <1>10 DEF At
    <2>2. \A d \in Calls : call'[d].kind = "intake" /\ At(d, "model")' => (BuildTokensUsed < Ceiling)'
      <3>1. ASSUME NEW d \in Calls, call'[d].kind = "intake", call'[d].pc = "model" PROVE BuildTokensUsed' < Ceiling
        <4>1. d = c /\ y.pc = "model"
          BY <1>9, <1>10, <3>1
        <4> QED
          BY <1>8, <4>1
      <3> QED
        BY <3>1 DEF At
    <2>3. CeilingHeld'
      BY <1>8, <1>11 DEF CeilingHeld
    <2>4. \A o \in Owners : o # owner' => ledger'[o] = 0
      BY <1>1, <1>8 DEF TurnsInv
    <2> QED
      BY <2>1, <2>2, <2>3, <2>4 DEF TurnsInv
  <1> QED
    BY <1>4, <1>5, <1>7, <1>12 DEF Inv

LEMMA IntakeFacts ==
  ASSUME Inv, NEW c \in Calls, call[c].kind = "intake" \/ call[c].pc = "ceiling", call[c].pc # "new"
  PROVE  /\ call[c] \in CallRow /\ call[c].kind = "intake"
         /\ \A code \in Nat : Failed(c, code) => Becomes(c, EndOf(call[c], code))
  <1>1. call[c] \in CallRow /\ call[c].kind = "intake"
    BY CallFacts DEF Sound
  <1> QED
    BY <1>1 DEF Failed, EndOf, Becomes

LEMMA ReadCeilingStep ==
  ASSUME Inv, NEW c \in Calls, ReadCeiling(c)
  PROVE  Inv'
  <1>1. /\ call[c].pc = "ceiling" /\ call[c] \in CallRow /\ call[c].kind = "intake"
        /\ \A code \in Nat : Failed(c, code) => Becomes(c, EndOf(call[c], code))
    BY IntakeFacts DEF ReadCeiling, At
  <1>2. UNCHANGED <<row, owner, ledger, paid, member>>
    BY DEF ReadCeiling
  <1>3. paid' \in [Calls -> Nat] /\ \A d \in Calls \ {c} : paid'[d] = paid[d]
    BY <1>2 DEF Inv, Shape
  <1>4. CASE Failed(c, 402)
    <2> DEFINE y == EndOf(call[c], 402)
    <2>1. 402 \in Nat
      OBVIOUS
    <2>2. /\ Becomes(c, y) /\ y \in CallRow /\ y.pc = "done" /\ y.resp = 402
          /\ y.kind = call[c].kind /\ y.req = call[c].req /\ y.actor = call[c].actor
      BY <1>1, <1>4, <2>1, EndFacts
    <2> HIDE DEF y
    <2>3. y.resp \notin {404, 429}
      BY <2>2
    <2> QED
      BY <1>1, <1>2, <1>3, <2>2, <2>3, IntakeStep
  <1>5. CASE Goto(c, "model") /\ ~Spent(c)
    <2> DEFINE y == [call[c] EXCEPT !.pc = "model"]
    <2>1. /\ y \in CallRow /\ y.pc = "model" /\ y.resp = call[c].resp
          /\ y.kind = call[c].kind /\ y.req = call[c].req /\ y.actor = call[c].actor
      BY <1>1 DEF CallRow, Steps, Serving
    <2>2. Becomes(c, y)
      BY <1>5 DEF Goto, Becomes, Inv, Shape
    <2> HIDE DEF y
    <2>3. y.resp = 0 /\ y.resp \notin {404, 429}
      BY <1>1, <2>1, CallFacts DEF Sound
    <2>4. BuildTokensUsed < Ceiling
      <3>1. BuildTokensUsed \in Nat /\ Ceiling \in Nat
        BY ModelCallsAssumption DEF BuildTokensUsed, Inv, Shape, Owners
      <3> QED
        BY <1>5, <3>1 DEF Spent
    <2> QED
      BY <1>1, <1>2, <1>3, <2>1, <2>2, <2>3, <2>4, IntakeStep
  <1> QED
    BY <1>4, <1>5 DEF ReadCeiling

LEMMA RespondStructuredStep ==
  ASSUME Inv, NEW c \in Calls, NEW stop, RespondStructured(c, stop)
  PROVE  Inv'
  <1>1. /\ call[c].pc = "model" /\ call[c] \in CallRow /\ call[c].kind = "intake"
        /\ \A code \in Nat : Failed(c, code) => Becomes(c, EndOf(call[c], code))
    BY IntakeFacts DEF RespondStructured, At
  <1>2. /\ UNCHANGED <<row, owner, member>> /\ paid' = [paid EXCEPT ![c] = @ + 1]
        /\ UNCHANGED ledger \/ ledger' = [ledger EXCEPT ![owner] = ledger[owner] + 1]
    BY DEF RespondStructured, Record, RowOwner
  <1>3. paid' \in [Calls -> Nat] /\ \A d \in Calls \ {c} : paid'[d] = paid[d]
    BY <1>2 DEF Inv, Shape
  <1>4. CASE \E code \in {200, 422} : Failed(c, code)
    <2>1. PICK code \in {200, 422} : Failed(c, code)
      BY <1>4
    <2> DEFINE y == EndOf(call[c], code)
    <2>2. code \in Nat
      BY <2>1
    <2>3. /\ Becomes(c, y) /\ y \in CallRow /\ y.pc = "done" /\ y.resp = code
          /\ y.kind = call[c].kind /\ y.req = call[c].req /\ y.actor = call[c].actor
      BY <1>1, <2>1, <2>2, EndFacts
    <2> HIDE DEF y
    <2>4. y.resp \notin {404, 429} /\ y.pc # "model"
      BY <2>1, <2>3
    <2> QED
      BY <1>1, <1>2, <1>3, <2>3, <2>4, IntakeStep
  <1>5. CASE call' = [call EXCEPT ![c] = [call[c] EXCEPT !.calls = call[c].calls + 1, !.pc = "ceiling",
                        !.truncated = call[c].truncated \/ stop = "max_tokens",
                        !.repaired = call[c].repaired \/ stop = "invalid"]]
    <2>1. PICK truncated \in BOOLEAN : truncated = (call[c].truncated \/ stop = "max_tokens")
      OBVIOUS
    <2>2. PICK repaired \in BOOLEAN : repaired = (call[c].repaired \/ stop = "invalid")
      OBVIOUS
    <2> DEFINE y == [call[c] EXCEPT !.calls = call[c].calls + 1, !.pc = "ceiling",
                       !.truncated = truncated, !.repaired = repaired]
    <2>3. Becomes(c, y)
      BY <1>5, <2>1, <2>2 DEF Becomes
    <2>4. call[c].calls + 1 \in Nat
      BY <1>1 DEF CallRow
    <2>5. /\ y \in CallRow /\ y.pc = "ceiling" /\ y.resp = call[c].resp
          /\ y.kind = call[c].kind /\ y.req = call[c].req /\ y.actor = call[c].actor
      BY <1>1, <2>4 DEF CallRow, Steps
    <2> HIDE DEF y
    <2>6. y.resp = 0 /\ y.resp \notin {404, 429} /\ y.pc # "model"
      BY <1>1, <2>5, CallFacts DEF Sound
    <2> QED
      BY <1>1, <1>2, <1>3, <2>3, <2>5, <2>6, IntakeStep
  <1> QED
    BY <1>4, <1>5 DEF RespondStructured

LEMMA ReconnectStep ==
  ASSUME Inv, NEW c \in Calls, Reconnect(c)
  PROVE  Inv'
  <1>1. /\ call[c].pc = "model" /\ call[c] \in CallRow /\ call[c].kind = "intake"
        /\ \A code \in Nat : Failed(c, code) => Becomes(c, EndOf(call[c], code))
    BY IntakeFacts DEF Reconnect, At
  <1>2. UNCHANGED <<row, owner, ledger, paid, member>>
    BY DEF Reconnect
  <1>3. paid' \in [Calls -> Nat] /\ \A d \in Calls \ {c} : paid'[d] = paid[d]
    BY <1>2 DEF Inv, Shape
  <1>4. CASE Failed(c, 502)
    <2> DEFINE y == EndOf(call[c], 502)
    <2>1. 502 \in Nat
      OBVIOUS
    <2>2. /\ Becomes(c, y) /\ y \in CallRow /\ y.pc = "done" /\ y.resp = 502
          /\ y.kind = call[c].kind /\ y.req = call[c].req /\ y.actor = call[c].actor
      BY <1>1, <1>4, <2>1, EndFacts
    <2> HIDE DEF y
    <2>3. y.resp \notin {404, 429}
      BY <2>2
    <2> QED
      BY <1>1, <1>2, <1>3, <2>2, <2>3, IntakeStep
  <1>5. CASE call' = [call EXCEPT ![c] = [call[c] EXCEPT !.tries = call[c].tries + 1, !.pc = "ceiling"]]
    <2> DEFINE y == [call[c] EXCEPT !.tries = call[c].tries + 1, !.pc = "ceiling"]
    <2>1. Becomes(c, y)
      BY <1>5 DEF Becomes
    <2>2. call[c].tries + 1 \in Nat
      BY <1>1 DEF CallRow
    <2>3. /\ y \in CallRow /\ y.pc = "ceiling" /\ y.resp = call[c].resp
          /\ y.kind = call[c].kind /\ y.req = call[c].req /\ y.actor = call[c].actor
      BY <1>1, <2>2 DEF CallRow, Steps
    <2> HIDE DEF y
    <2>4. y.resp = 0 /\ y.resp \notin {404, 429}
      BY <1>1, <2>3, CallFacts DEF Sound
    <2> QED
      BY <1>1, <1>2, <1>3, <2>1, <2>3, <2>4, IntakeStep
  <1> QED
    BY <1>4, <1>5 DEF Reconnect

LEMMA TurnDeadlineStep ==
  ASSUME Inv, NEW c \in Calls, TurnDeadline(c)
  PROVE  Inv'
  <1> DEFINE y == EndOf(call[c], 504)
  <1>1. call[c].pc \in {"ceiling", "model"} /\ call[c].kind = "intake" /\ Failed(c, 504)
    BY DEF TurnDeadline
  <1>2. /\ call[c] \in CallRow /\ \A code \in Nat : Failed(c, code) => Becomes(c, EndOf(call[c], code))
    BY <1>1, IntakeFacts
  <1>3. /\ UNCHANGED <<row, owner, ledger, member>>
        /\ paid' = IF At(c, "model") THEN [paid EXCEPT ![c] = @ + 1] ELSE paid
    BY DEF TurnDeadline
  <1>4. paid' \in [Calls -> Nat] /\ \A d \in Calls \ {c} : paid'[d] = paid[d]
    BY <1>3 DEF Inv, Shape
  <1>5. 504 \in Nat
    OBVIOUS
  <1>6. /\ Becomes(c, y) /\ y \in CallRow /\ y.pc = "done" /\ y.resp = 504
        /\ y.kind = call[c].kind /\ y.req = call[c].req /\ y.actor = call[c].actor
    BY <1>1, <1>2, <1>5, EndFacts
  <1> HIDE DEF y
  <1>7. y.resp \notin {404, 429}
    BY <1>6
  <1> QED
    BY <1>1, <1>3, <1>4, <1>6, <1>7, IntakeStep

LEMMA ClaimBuildStep ==
  ASSUME Inv, ClaimBuild
  PROVE  Inv'
  <1>1. /\ Shape /\ CallsSound /\ OneCharged /\ TurnsInv /\ CountsInv
        /\ call' = call /\ row' = row /\ paid' = paid /\ member' = member
        /\ owner = "anon" /\ owner' = "tenant"
        /\ ledger' = [anon |-> 0, tenant |-> ledger["tenant"] + ledger["anon"]]
    BY DEF Inv, ClaimBuild
  <1>2. CallsSound' /\ OneCharged'
    BY <1>1 DEF CallsSound, OneCharged, Linked
  <1>3. CountsInv'
    BY <1>1, CountsStay
  <1>4. ledger["anon"] \in Nat /\ ledger["tenant"] \in Nat /\ ledger["tenant"] + ledger["anon"] \in Nat
    BY <1>1 DEF Shape, Owners
  <1>5. ledger'["anon"] = 0 /\ ledger'["tenant"] = ledger["tenant"] + ledger["anon"]
    BY <1>1
  <1>6. ledger' \in [Owners -> Nat] /\ owner' \in Owners
    BY <1>1, <1>4 DEF Owners
  <1>7. BuildTokensUsed' = BuildTokensUsed
    BY <1>4, <1>5 DEF BuildTokensUsed
  <1>8. TurnsInv'
    BY <1>1, <1>5, <1>7 DEF TurnsInv, At, CeilingHeld, Owners
  <1> QED
    BY <1>1, <1>2, <1>3, <1>6, <1>8 DEF Inv, Shape

LEMMA DayPassesStep ==
  ASSUME Inv, NEW r \in Calls, DayPasses(r)
  PROVE  Inv'
  <1>1. /\ Shape /\ CallsSound /\ OneCharged /\ TurnsInv /\ CountsInv
        /\ call' = call /\ paid' = paid /\ member' = member /\ owner' = owner /\ ledger' = ledger
        /\ row' = [row EXCEPT ![r].recent = FALSE]
    BY DEF Inv, DayPasses
  <1>2. /\ row' \in [Calls -> LedgerRow]
        /\ \A q \in Calls : /\ row'[q].kind = row[q].kind /\ row'[q].actor = row[q].actor /\ row'[q].cost = row[q].cost
    BY <1>1 DEF Shape, LedgerRow
  <1>3. \A q \in Calls : row'[q].attempted = row[q].attempted /\ row'[q].known = row[q].known
    BY <1>1 DEF Shape, LedgerRow
  <1>4. \A q \in Calls : row'[q].recent => row[q].recent
    <2>1. \A q \in Calls \ {r} : row'[q] = row[q]
      BY <1>1 DEF Shape
    <2>2. ~row'[r].recent
      BY <1>1 DEF Shape, LedgerRow
    <2> QED
      BY <2>1, <2>2
  <1>5. CountsInv'
    BY <1>1, <1>2, <1>4, CountsStay
  <1>6. ASSUME NEW c \in Calls PROVE Sound(call[c], row'[call[c].req], paid[c]) /\ Linked(c)'
    <2>1. Sound(call[c], row[call[c].req], paid[c]) /\ Linked(c)
      BY <1>1 DEF CallsSound
    <2>2. CASE call[c].req \in Calls
      BY <1>1, <1>2, <1>3, <2>1, <2>2 DEF Sound, Linked
    <2>3. CASE call[c].pc = "new"
      <3>1. call[c] = New /\ paid[c] = 0
        BY <2>1, <2>3 DEF Sound
      <3>2. Sound(New, row'[call[c].req], 0)
        BY DEF Sound, New, Beyond, Serving
      <3> QED
        BY <1>1, <2>1, <3>1, <3>2 DEF Linked
    <2> QED
      BY <2>1, <2>2, <2>3 DEF Linked
  <1>7. CallsSound'
    BY <1>1, <1>6 DEF CallsSound
  <1>8. OneCharged' /\ TurnsInv'
    BY <1>1 DEF OneCharged, TurnsInv, At, BuildTokensUsed, CeilingHeld
  <1> QED
    BY <1>1, <1>2, <1>5, <1>7, <1>8 DEF Inv, Shape

LEMMA QuietStep ==
  ASSUME Inv, UNCHANGED <<call, row, owner, ledger, paid>>, member' \subseteq Actors
  PROVE  Inv'
  <1>1. /\ Shape /\ CallsSound /\ OneCharged /\ TurnsInv /\ CountsInv /\ row' = row
    BY DEF Inv
  <1>2. CountsInv'
    BY <1>1, CountsStay
  <1>3. CallsSound' /\ OneCharged' /\ TurnsInv' /\ Shape'
    BY <1>1 DEF CallsSound, Linked, OneCharged, TurnsInv, At, BuildTokensUsed, CeilingHeld, Shape
  <1> QED
    BY <1>2, <1>3 DEF Inv

(***************************************************************************)
(* The invariant, and what it says of allowances and of spend.             *)
(***************************************************************************)
LEMMA InvInit ==
  ASSUME Init
  PROVE  Inv
  <1>1. New \in CallRow
    BY DEF New, CallRow, Kinds, Owners, Steps
  <1>2. NoRow \in LedgerRow
    BY DEF NoRow, LedgerRow
  <1>3. Shape
    BY <1>1, <1>2 DEF Init, Shape, Owners
  <1>4. \A c \in Calls : call[c] = New /\ paid[c] = 0 /\ row[c] = NoRow
    BY DEF Init
  <1>5. CallsSound
    BY <1>4 DEF CallsSound, Sound, Linked, Beyond, Serving, New
  <1>6. OneCharged
    BY <1>4 DEF OneCharged, Beyond, Serving, New
  <1>7. TurnsInv
    <2>1. ledger["anon"] = 0 /\ ledger["tenant"] = 0 /\ \A o \in Owners : ledger[o] = 0
      BY DEF Init, Owners
    <2>2. CeilingHeld
      BY <2>1, ModelCallsAssumption DEF CeilingHeld, BuildTokensUsed
    <2> QED
      BY <1>4, <2>1, <2>2 DEF TurnsInv, New
  <1>8. CountsInv
    <2>1. \A k \in Kinds : Recent(k) = {} /\ \A a \in Actors : RecentOf(k, a) = {}
      BY <1>4 DEF Recent, RecentOf, NoRow
    <2> QED
      BY <2>1, FS_EmptySet, ModelCallsAssumption DEF CountsInv, AllowanceHeld
  <1> QED
    BY <1>3, <1>5, <1>6, <1>7, <1>8 DEF Inv

LEMMA InvStep ==
  ASSUME Inv, [Next]_vars
  PROVE  Inv'
  <1>1. ASSUME NEW c \in Calls, NEW k \in Kinds, NEW a \in Actors, Ask(c, k, a) PROVE Inv'
    BY <1>1, AskStep
  <1>2. ASSUME NEW c \in Calls, NEW d \in Calls, Redeliver(c, d) PROVE Inv'
    BY <1>2, RedeliverStep
  <1>3. ASSUME NEW c \in Calls,
               Enter(c) \/ Reserve(c) \/ Context(c) \/ Evidence(c) \/ Start(c) \/ Finish(c) \/ Abort(c)
        PROVE  Inv'
    BY <1>3, EnterStep, ReserveStep, ReadStep, StartStep, FinishStep, AbortStep
  <1>4. ASSUME NEW c \in Calls,
               \/ \E stop \in {"tool_use", "end_turn", "unusable"} : Respond(c, stop)
               \/ RunTools(c) \/ \E usable \in BOOLEAN : Classify(c, usable)
               \/ InsertFails(c) \/ ProviderFails(c)
        PROVE  Inv'
    BY <1>4, RespondStep, RunToolsStep, ClassifyStep, InsertFailsStep, ProviderFailsStep
  <1>5. ASSUME NEW c \in Calls,
               \/ IntakeTurn(c) \/ ReadCeiling(c) \/ Reconnect(c) \/ TurnDeadline(c)
               \/ \E stop \in {"valid", "invalid", "max_tokens", "refusal"} : RespondStructured(c, stop)
        PROVE  Inv'
    BY <1>5, IntakeTurnStep, ReadCeilingStep, ReconnectStep, TurnDeadlineStep, RespondStructuredStep
  <1>6. ASSUME NEW r \in Calls, DayPasses(r) PROVE Inv'
    BY <1>6, DayPassesStep
  <1>7. ASSUME NEW a \in Actors, LeaveTenant(a) PROVE Inv'
    BY <1>7, QuietStep DEF LeaveTenant, Inv, Shape
  <1>8. CASE ClaimBuild
    BY <1>8, ClaimBuildStep
  <1>9. CASE UNCHANGED vars
    BY <1>9, QuietStep DEF vars, Inv, Shape
  <1> QED
    BY <1>1, <1>2, <1>3, <1>4, <1>5, <1>6, <1>7, <1>8, <1>9 DEF Next

LEMMA InvSpend ==
  ASSUME Inv
  PROVE  SpendSound
  <1>1. ASSUME NEW c \in Calls
        PROVE  /\ paid[c] \in Nat /\ Sound(call[c], row[call[c].req], paid[c])
    BY CallFacts
  <1>2. PaidOnce
    <2>1. \A c \in Calls : call[c].resp \in {404, 429} => paid[c] = 0
      BY <1>1 DEF Sound
    <2>2. ASSUME NEW c \in Calls, NEW d \in Calls, call[c].kind \in Kinds, call[c].req = call[d].req,
                 paid[c] > 0, paid[d] > 0
          PROVE  c = d
      <3>1. call[c].pc # "new" /\ call[d].pc # "new"
        BY <1>1, <2>2 DEF Sound
      <3>2. Linked(c) /\ Linked(d) /\ call[d] \in CallRow
        BY CallFacts
      <3>3. call[d].kind \in Kinds
        <4>1. ASSUME call[d].kind = "intake" PROVE FALSE
          <5>1. call[c].req = d /\ call[d].kind = call[c].kind
            BY <2>2, <3>1, <3>2, <4>1 DEF Linked
          <5> QED
            BY <2>2, <4>1, <5>1 DEF Kinds
        <4> QED
          BY <3>2, <4>1 DEF CallRow
      <3> QED
        BY <2>2, <3>3 DEF Inv, OneCharged, Beyond
    <2> QED
      BY <2>1, <2>2 DEF PaidOnce
  <1>3. SpendNotUnderstated
    <2>1. ASSUME NEW c \in Calls, call[c].kind \in Kinds, call[c].pc # "new", paid[c] > 0
          PROVE  /\ row[call[c].req].attempted
                 /\ row[call[c].req].known => row[call[c].req].cost = paid[c]
      <3>1. call[c] \in CallRow
        BY CallFacts
      <3>2. call[c].pc = "done" \/ call[c].pc \in Serving
        BY <1>1, <2>1, <3>1 DEF Sound, CallRow, Steps, Kinds
      <3> QED
        BY <1>1, <2>1, <3>2 DEF Sound
    <2> QED
      BY <2>1 DEF SpendNotUnderstated, At
  <1>4. CeilingHeld
    BY DEF Inv, TurnsInv
  <1>5. SpendFollowsOwner
    <2>1. \E o \in Owners : o # owner
      BY DEF Inv, Shape, Owners
    <2>2. (CHOOSE o \in Owners : o # owner) \in Owners /\ (CHOOSE o \in Owners : o # owner) # owner
      BY <2>1
    <2> QED
      BY <2>2 DEF SpendFollowsOwner, Inv, TurnsInv
  <1> QED
    BY <1>2, <1>3, <1>4, <1>5 DEF SpendSound

LEMMA InvAlways == FairSpec => []Inv
  <1>1. Init => Inv
    BY InvInit
  <1>2. Inv /\ [Next]_vars => Inv'
    BY InvStep
  <1> QED
    BY <1>1, <1>2, PTL DEF FairSpec

\* However requests interleave, are aborted, repeated or fail, no user, no tenant and not
\* everyone together is admitted more often than a day allows: reserve counts and inserts
\* under one lock, and a request that is refused leaves no row.
THEOREM AllowancesHold == FairSpec => []AllowanceHeld
  <1>1. Inv => AllowanceHeld
    BY DEF Inv, CountsInv
  <1> QED
    BY <1>1, InvAlways, PTL

\* What is recorded is what was spent: refused requests cost nothing, of the deliveries of one
\* request one is paid for, a row that knows its usage has it in full, and a build's spend
\* stays under its ceiling and belongs to its owner.
THEOREM SpendIsRecorded == FairSpec => []SpendSound
  <1>1. Inv => SpendSound
    BY InvSpend
  <1> QED
    BY <1>1, InvAlways, PTL
=============================================================================
