---------------------------- MODULE Portal_proofs ----------------------------
(***************************************************************************)
(* Proofs about the portal: no edit of a name replaces one its author had  *)
(* not been shown, a tab acts only where it shows and for whom it shows,   *)
(* the rules card never goes back, and the live views come to show what    *)
(* the service has, for any number of tabs, workspaces, rules, edits,      *)
(* channels and readings.  The second half is about a build's conversation *)
(* (module Events): what is sent is stored once and shown in order, and    *)
(* only to who may see it, for any number of messages and connections.     *)
(***************************************************************************)
EXTENDS Portal, Events, FiniteSetTheorems, FunctionTheorems, SequenceTheorems, TLAPS

(***************************************************************************)
(* The name of a device.                                                   *)
(***************************************************************************)
SaveRow == [pc : {"none", "sent", "saved", "refused"}, name : Nat, version : Nat, base : Nat]
EditorRow == [key : Nat, seen : Nat, version : Nat, stale : BOOLEAN]
VisitRow == [pc : {"none", "asked", "read", "gone"}, name : Nat, version : Nat]

NamingTyped ==
  /\ device \in [name : Nat, version : Nat] /\ edits \in Nat
  /\ editor \in [Viewers -> EditorRow] /\ saving \in [Viewers -> SaveRow] /\ visit \in [Viewers -> VisitRow]
  /\ abandoned \subseteq SaveRow

\* A version is of the past, or its name is the device's name.
Knows(name, version) == version <= device.version /\ (version = device.version => name = device.name)

EditorInv(x) == Knows(editor[x].seen, editor[x].version)
SavingInv(x) ==
  /\ saving[x].pc = "sent" => Knows(saving[x].base, saving[x].version)
  /\ saving[x].pc = "saved" => Knows(saving[x].name, saving[x].version)
VisitInv(x) == visit[x].pc = "read" => Knows(visit[x].name, visit[x].version)
AbandonedInv == \A call \in abandoned : Knows(call.base, call.version)

\* Whatever an editor, a request or a page under way says of a version is what that version was.
NamingInv == NamingTyped /\ NoNameLost /\ AbandonedInv /\ \A x \in Viewers : EditorInv(x) /\ SavingInv(x) /\ VisitInv(x)

LEMMA NamingInitially ==
  ASSUME DeviceInit
  PROVE  NamingInv
  BY DEF DeviceInit, NamingInv, NamingTyped, SaveRow, EditorRow, VisitRow, Mounted, NoSave, NoVisit, NoNameLost,
         AbandonedInv, EditorInv, SavingInv, VisitInv, Knows

\* A request the gateway stores: its author had been shown the name it replaces.
LEMMA StoredSound ==
  ASSUME NamingInv, NEW call \in SaveRow, Knows(call.base, call.version), Accepted(call), Stored(call)
  PROVE  /\ device' = [name |-> call.name, version |-> device.version + 1] /\ blind' = {}
         /\ device' \in [name : Nat, version : Nat]
         /\ \A name, version \in Nat : Knows(name, version) => Knows(name, version)'
         /\ \A version \in Nat : version = device.version + 1 => Knows(call.name, version)'
  <1>1. call.base = device.name /\ device \in [name : Nat, version : Nat] /\ call.name \in Nat
    BY DEF NamingInv, NamingTyped, Accepted, Matches, Knows, SaveRow
  <1>2. device' = [name |-> call.name, version |-> device.version + 1] /\ blind' = {}
    BY <1>1 DEF Stored, NamingInv, NoNameLost
  <1>3. \A name, version \in Nat : Knows(name, version) => Knows(name, version)'
    BY <1>1, <1>2 DEF Knows
  <1>4. \A version \in Nat : version = device.version + 1 => Knows(call.name, version)'
    BY <1>1, <1>2 DEF Knows
  <1> QED
    BY <1>1, <1>2, <1>3, <1>4

\* One tab moves, and what anybody knows stays known.
LEMMA NamingMoves ==
  ASSUME NamingInv, NamingTyped', NoNameLost', AbandonedInv',
         \A name, version \in Nat : Knows(name, version) => Knows(name, version)',
         NEW x \in Viewers, EditorInv(x)', SavingInv(x)', VisitInv(x)',
         \A y \in Viewers \ {x} : editor'[y] = editor[y] /\ saving'[y] = saving[y] /\ visit'[y] = visit[y]
  PROVE  NamingInv'
  <1> SUFFICES ASSUME NEW y \in Viewers \ {x} PROVE EditorInv(y)' /\ SavingInv(y)' /\ VisitInv(y)'
    BY DEF NamingInv
  <1>1. editor[y] \in EditorRow /\ saving[y] \in SaveRow /\ visit[y] \in VisitRow
    BY DEF NamingInv, NamingTyped
  <1>2. EditorInv(y)'
    BY <1>1 DEF NamingInv, EditorInv, EditorRow
  <1>3. SavingInv(y)'
    BY <1>1 DEF NamingInv, SavingInv, SaveRow
  <1>4. VisitInv(y)'
    BY <1>1 DEF NamingInv, VisitInv, VisitRow
  <1> QED
    BY <1>2, <1>3, <1>4

LEMMA SaveStep ==
  ASSUME NamingInv, NEW x \in Viewers, Save(x)
  PROVE  NamingInv'
  <1>1. editor[x] \in EditorRow /\ EditorInv(x) /\ saving \in [Viewers -> SaveRow] /\ edits \in Nat
    BY DEF NamingInv, NamingTyped
  <1> DEFINE call == [pc |-> "sent", name |-> edits + 1, version |-> editor[x].version, base |-> editor[x].seen]
  <1>2. call \in SaveRow
    BY <1>1 DEF SaveRow, EditorRow
  <1>3. saving' = [saving EXCEPT ![x] = call] /\ UNCHANGED <<device, editor, abandoned, visit, blind>> /\ edits' = edits + 1
    BY DEF Save
  <1>4. NamingTyped' /\ NoNameLost' /\ AbandonedInv'
    BY <1>1, <1>2, <1>3 DEF NamingInv, NamingTyped, NoNameLost, AbandonedInv, Knows
  <1>5. EditorInv(x)' /\ VisitInv(x)' /\ SavingInv(x)'
    BY <1>1, <1>3 DEF NamingInv, EditorInv, VisitInv, SavingInv, Knows
  <1> QED
    BY <1>1, <1>3, <1>4, <1>5, NamingMoves DEF Knows

LEMMA SaveHandledStep ==
  ASSUME NamingInv, NEW x \in Viewers, SaveHandled(x)
  PROVE  NamingInv'
  <1>1. saving[x] \in SaveRow /\ editor[x] \in EditorRow /\ visit[x] \in VisitRow /\ saving[x].pc = "sent"
        /\ saving \in [Viewers -> SaveRow] /\ EditorInv(x) /\ SavingInv(x) /\ VisitInv(x)
        /\ UNCHANGED <<editor, abandoned, visit, edits>> /\ device \in [name : Nat, version : Nat]
    BY DEF NamingInv, NamingTyped, SaveHandled
  <1>2. CASE Accepted(saving[x])
    <2>1. PICK call \in SaveRow : call = saving[x]
      BY <1>1
    <2>2. Knows(call.base, call.version) /\ Stored(call) /\ Accepted(call)
      BY <1>1, <1>2, <2>1 DEF SavingInv, SaveHandled
    <2>3. /\ device' = [name |-> call.name, version |-> device.version + 1] /\ blind' = {}
          /\ device' \in [name : Nat, version : Nat]
          /\ \A name, version \in Nat : Knows(name, version) => Knows(name, version)'
          /\ \A version \in Nat : version = device.version + 1 => Knows(call.name, version)'
      BY <2>2, StoredSound
    <2>4. PICK r : r = [call EXCEPT !.pc = "saved", !.version = device.version + 1]
      OBVIOUS
    <2>5. r \in SaveRow /\ r.pc = "saved" /\ r.name = call.name /\ r.version = device.version + 1 /\ r.version \in Nat
      <3>1. device.version + 1 \in Nat
        BY <1>1
      <3> QED
        BY <2>1, <2>4, <3>1 DEF SaveRow
    <2>6. saving' = [saving EXCEPT ![x] = r]
      BY <1>1, <1>2, <2>1, <2>4 DEF SaveHandled
    <2>7. NamingTyped' /\ NoNameLost'
      BY <1>1, <2>3, <2>5, <2>6 DEF NamingInv, NamingTyped, NoNameLost
    <2>8. AbandonedInv'
      BY <1>1, <2>3 DEF NamingInv, NamingTyped, AbandonedInv, SaveRow
    <2>9. EditorInv(x)' /\ VisitInv(x)'
      BY <1>1, <2>3 DEF EditorInv, VisitInv, EditorRow, VisitRow
    <2>10. SavingInv(x)'
      BY <1>1, <2>3, <2>5, <2>6 DEF SavingInv
    <2> QED
      BY <1>1, <2>3, <2>6, <2>7, <2>8, <2>9, <2>10, NamingMoves
  <1>3. CASE ~Accepted(saving[x])
    <2>1. PICK r : r = [saving[x] EXCEPT !.pc = "refused"]
      OBVIOUS
    <2>2. r \in SaveRow /\ r.pc = "refused"
      BY <1>1, <2>1 DEF SaveRow
    <2>3. saving' = [saving EXCEPT ![x] = r] /\ UNCHANGED <<device, blind>>
      BY <1>3, <2>1 DEF SaveHandled
    <2>4. NamingTyped' /\ NoNameLost' /\ AbandonedInv'
      BY <1>1, <2>2, <2>3 DEF NamingInv, NamingTyped, NoNameLost, AbandonedInv, Knows
    <2>5. EditorInv(x)' /\ VisitInv(x)' /\ SavingInv(x)'
      BY <1>1, <2>2, <2>3 DEF EditorInv, VisitInv, SavingInv, Knows
    <2> QED
      BY <1>1, <2>3, <2>4, <2>5, NamingMoves DEF Knows
  <1> QED
    BY <1>2, <1>3

LEMMA LateSaveStep ==
  ASSUME NamingInv, NEW call \in abandoned, LateSaveHandled(call)
  PROVE  NamingInv'
  <1>1. call \in SaveRow /\ Knows(call.base, call.version) /\ abandoned' = abandoned \ {call}
        /\ UNCHANGED <<editor, saving, visit, edits>>
    BY DEF NamingInv, NamingTyped, AbandonedInv, LateSaveHandled
  <1>2. /\ \A name, version \in Nat : Knows(name, version) => Knows(name, version)'
        /\ blind' = {} /\ device' \in [name : Nat, version : Nat]
    <2>1. CASE Accepted(call) /\ Stored(call)
      BY <1>1, <2>1, StoredSound
    <2>2. CASE UNCHANGED <<device, blind>>
      BY <2>2 DEF Knows, NamingInv, NamingTyped, NoNameLost
    <2> QED
      BY <2>1, <2>2 DEF LateSaveHandled
  <1>3. NamingTyped' /\ NoNameLost'
    BY <1>1, <1>2 DEF NamingInv, NamingTyped, NoNameLost
  <1>4. AbandonedInv'
    BY <1>1, <1>2 DEF NamingInv, NamingTyped, AbandonedInv, SaveRow
  <1>5. ASSUME NEW x \in Viewers PROVE EditorInv(x)' /\ SavingInv(x)' /\ VisitInv(x)'
    <2>1. editor[x] \in EditorRow /\ saving[x] \in SaveRow /\ visit[x] \in VisitRow
      BY DEF NamingInv, NamingTyped
    <2>2. EditorInv(x)'
      BY <1>1, <1>2, <2>1 DEF NamingInv, EditorInv, EditorRow
    <2>3. SavingInv(x)'
      BY <1>1, <1>2, <2>1 DEF NamingInv, SavingInv, SaveRow
    <2>4. VisitInv(x)'
      BY <1>1, <1>2, <2>1 DEF NamingInv, VisitInv, VisitRow
    <2> QED
      BY <2>2, <2>3, <2>4
  <1> QED
    BY <1>3, <1>4, <1>5 DEF NamingInv

\* A request that is given up relies on what it relied on before.
LEMMA GivenUpSound ==
  ASSUME NamingInv, NEW x \in Viewers, UNCHANGED device, abandoned' = abandoned \cup GivenUp(saving[x])
  PROVE  abandoned' \subseteq SaveRow /\ AbandonedInv'
  <1>1. saving[x] \in SaveRow /\ SavingInv(x)
    BY DEF NamingInv, NamingTyped
  <1> QED
    BY <1>1 DEF NamingInv, NamingTyped, AbandonedInv, GivenUp, SavingInv, Knows

LEMMA SaveAnsweredStep ==
  ASSUME NamingInv, NEW x \in Viewers, SaveAnswered(x)
  PROVE  NamingInv'
  <1>1. saving[x] \in SaveRow /\ editor[x] \in EditorRow /\ visit[x] \in VisitRow
        /\ saving \in [Viewers -> SaveRow] /\ editor \in [Viewers -> EditorRow] /\ visit \in [Viewers -> VisitRow]
        /\ EditorInv(x) /\ SavingInv(x) /\ VisitInv(x)
        /\ UNCHANGED <<device, edits, blind>> /\ saving' = [saving EXCEPT ![x] = NoSave]
    BY DEF NamingInv, NamingTyped, SaveAnswered
  <1>2. NoSave \in SaveRow /\ NoSave.pc = "none"
    BY DEF NoSave, SaveRow
  <1>3. SavingInv(x)' /\ NoNameLost'
    BY <1>1, <1>2 DEF SavingInv, NamingInv, NoNameLost
  <1>4. CASE saving[x].pc = "saved" /\ UNCHANGED abandoned
             /\ editor' = [editor EXCEPT ![x].seen = saving[x].name, ![x].version = saving[x].version]
             /\ visit' = [visit EXCEPT ![x] = [NoVisit EXCEPT !.pc = "asked"]]
    <2>1. PICK e : e = [editor[x] EXCEPT !.seen = saving[x].name, !.version = saving[x].version]
      OBVIOUS
    <2>2. e \in EditorRow /\ e.seen = saving[x].name /\ e.version = saving[x].version
      BY <1>1, <2>1 DEF EditorRow, SaveRow
    <2>3. editor' = [editor EXCEPT ![x] = e]
      BY <1>4, <1>1, <2>1 DEF EditorRow
    <2>4. PICK v : v = [NoVisit EXCEPT !.pc = "asked"]
      OBVIOUS
    <2>5. v \in VisitRow /\ v.pc = "asked" /\ visit' = [visit EXCEPT ![x] = v]
      BY <1>4, <2>4 DEF NoVisit, VisitRow
    <2>6. NamingTyped' /\ AbandonedInv'
      <3>1. AbandonedInv'
        BY <1>1, <1>4 DEF NamingInv, AbandonedInv, Knows
      <3>2. UNCHANGED <<abandoned, device, edits>> /\ editor' \in [Viewers -> EditorRow]
        BY <1>1, <1>4, <2>2, <2>3
      <3>3. visit' \in [Viewers -> VisitRow] /\ saving' \in [Viewers -> SaveRow]
        BY <1>1, <1>2, <2>5
      <3>4. NamingTyped'
        BY <3>2, <3>3 DEF NamingInv, NamingTyped
      <3> QED
        BY <3>1, <3>4
    <2>7. EditorInv(x)' /\ VisitInv(x)'
      BY <1>1, <1>4, <2>2, <2>3, <2>5 DEF EditorInv, SavingInv, VisitInv, Knows
    <2> QED
      BY <1>1, <1>3, <2>3, <2>5, <2>6, <2>7, NamingMoves DEF Knows
  <1>5. CASE editor' = [editor EXCEPT ![x].stale = TRUE] /\ abandoned' = abandoned \cup GivenUp(saving[x]) /\ UNCHANGED visit
    <2>1. PICK e : e = [editor[x] EXCEPT !.stale = TRUE]
      OBVIOUS
    <2>2. e \in EditorRow /\ e.seen = editor[x].seen /\ e.version = editor[x].version
      BY <1>1, <2>1 DEF EditorRow
    <2>3. editor' = [editor EXCEPT ![x] = e]
      BY <1>5, <1>1, <2>1 DEF EditorRow
    <2>4. NamingTyped' /\ AbandonedInv'
      <3>1. AbandonedInv' /\ abandoned' \subseteq SaveRow
        BY <1>1, <1>5, GivenUpSound
      <3>2. editor' \in [Viewers -> EditorRow] /\ saving' \in [Viewers -> SaveRow]
        BY <1>1, <1>2, <2>2, <2>3
      <3>3. visit' = visit /\ device' = device /\ edits' = edits
        BY <1>1, <1>5
      <3>4. NamingTyped'
        BY <3>1, <3>2, <3>3 DEF NamingInv, NamingTyped
      <3> QED
        BY <3>1, <3>4
    <2>5. EditorInv(x)' /\ VisitInv(x)'
      BY <1>1, <1>5, <2>2, <2>3 DEF EditorInv, VisitInv, Knows
    <2> QED
      BY <1>1, <1>3, <1>5, <2>3, <2>4, <2>5, NamingMoves DEF Knows
  <1> QED
    BY <1>4, <1>5 DEF SaveAnswered

LEMMA VisitStep ==
  ASSUME NamingInv, NEW x \in Viewers, Refresh(x) \/ RenderReads(x)
  PROVE  NamingInv'
  <1>1. visit \in [Viewers -> VisitRow] /\ device \in [name : Nat, version : Nat]
        /\ UNCHANGED <<device, editor, saving, abandoned, edits, blind>> /\ EditorInv(x) /\ SavingInv(x)
    BY DEF NamingInv, NamingTyped, Refresh, RenderReads
  <1>2. PICK v \in VisitRow : visit' = [visit EXCEPT ![x] = v] /\ (v.pc = "read" => Knows(v.name, v.version))
    BY <1>1 DEF Refresh, RenderReads, NoVisit, VisitRow, Knows
  <1>3. NamingTyped' /\ NoNameLost' /\ AbandonedInv'
    BY <1>1, <1>2 DEF NamingInv, NamingTyped, NoNameLost, AbandonedInv, Knows
  <1>4. EditorInv(x)' /\ SavingInv(x)' /\ VisitInv(x)'
    BY <1>1, <1>2 DEF EditorInv, SavingInv, VisitInv, Knows
  <1> QED
    BY <1>1, <1>2, <1>3, <1>4, NamingMoves DEF Knows

LEMMA RenderArrivesStep ==
  ASSUME NamingInv, NEW x \in Viewers, RenderArrives(x)
  PROVE  NamingInv'
  <1>1. saving[x] \in SaveRow /\ editor[x] \in EditorRow /\ visit[x] \in VisitRow
        /\ saving \in [Viewers -> SaveRow] /\ editor \in [Viewers -> EditorRow] /\ visit \in [Viewers -> VisitRow]
        /\ EditorInv(x) /\ SavingInv(x) /\ VisitInv(x)
        /\ UNCHANGED <<device, edits, blind>> /\ visit' = [visit EXCEPT ![x] = NoVisit]
    BY DEF NamingInv, NamingTyped, RenderArrives
  <1>2. NoVisit \in VisitRow /\ NoVisit.pc = "none" /\ NoSave \in SaveRow /\ NoSave.pc = "none"
    BY DEF NoVisit, VisitRow, NoSave, SaveRow
  <1>3. PICK e : e = IF visit[x].pc = "read" THEN Remounted(editor[x], visit[x]) ELSE editor[x]
    OBVIOUS
  <1>4. editor' = [editor EXCEPT ![x] = e]
    BY <1>3 DEF RenderArrives
  <1>5. e \in EditorRow /\ Knows(e.seen, e.version)
    BY <1>1, <1>3 DEF Remounted, Mounted, EditorRow, VisitRow, EditorInv, VisitInv
  <1>6. saving' \in [Viewers -> SaveRow] /\ SavingInv(x)' /\ abandoned' \subseteq SaveRow /\ AbandonedInv'
        /\ \A y \in Viewers \ {x} : saving'[y] = saving[y]
    <2>1. CASE UNCHANGED <<saving, abandoned>>
      BY <1>1, <2>1 DEF SavingInv, NamingInv, NamingTyped, AbandonedInv, Knows
    <2>2. CASE saving' = [saving EXCEPT ![x] = NoSave] /\ abandoned' = abandoned \cup GivenUp(saving[x])
      <3>1. SavingInv(x)' /\ saving' \in [Viewers -> SaveRow] /\ \A y \in Viewers \ {x} : saving'[y] = saving[y]
        BY <1>1, <1>2, <2>2 DEF SavingInv
      <3> QED
        BY <1>1, <2>2, <3>1, GivenUpSound
    <2> QED
      BY <2>1, <2>2 DEF RenderArrives
  <1>7. NamingTyped' /\ NoNameLost'
    BY <1>1, <1>2, <1>4, <1>5, <1>6 DEF NamingInv, NamingTyped, NoNameLost
  <1>8. EditorInv(x)' /\ VisitInv(x)'
    BY <1>1, <1>2, <1>4, <1>5 DEF EditorInv, VisitInv, Knows
  <1> QED
    BY <1>1, <1>4, <1>6, <1>7, <1>8, NamingMoves DEF Knows

LEMMA NamingStep ==
  ASSUME NamingInv, DeviceNext \/ UNCHANGED deviceVars
  PROVE  NamingInv'
  <1>1. CASE UNCHANGED naming
    BY <1>1 DEF naming, NamingInv, NamingTyped, NoNameLost, AbandonedInv, EditorInv, SavingInv, VisitInv, Knows
  <1>2. CASE UNCHANGED deviceVars
    BY <1>1, <1>2 DEF deviceVars, naming
  <1> QED
    BY <1>1, <1>2, SaveStep, SaveHandledStep, SaveAnsweredStep, VisitStep, RenderArrivesStep, LateSaveStep
    DEF DeviceNext, AccessChanges

(***************************************************************************)
(* The tabs of a browser.                                                  *)
(***************************************************************************)
Persons == Users \cup {FirstUser, Nobody}
Workspaces == UNION {MemberOf[u] : u \in Users \cup {FirstUser}}
Places == Workspaces \cup {Nobody}
Who == [user : Persons, tenant : Places]
SessionRow == [user : Persons, tenant : Places, live : BOOLEAN]
CheckRow == [gen : Nat, jar : Nat, answer : {"asked", "same", "other"}]
CallRow == [pc : {"none", "sent", "done", "failed"}, jar : Nat, tenant : Places, shown : Places]
TabRow ==
  [state : {"rendered", "open"}, shown : Who, blocked : BOOLEAN, revision : Nat, own : SUBSET Nat,
   admitted : BOOLEAN, gen : Nat, checks : SUBSET CheckRow, switch : CallRow, build : CallRow]

\* The sessions and the signals.
SharedTyped ==
  /\ sessions \in Seq(SessionRow) /\ jar \in 0..Len(sessions)
  /\ signals \in Seq({"begin", "finish"}) /\ mail \in [Tabs -> SUBSET Nat] /\ late \subseteq CallRow

\* What a tab x relies on: its newest check was sent with the cookie that is still there, and what
\* it answered is so, unless identities changed since it began.
TabInv(x, r) ==
  /\ r.state = "rendered" => ~r.admitted /\ r.checks = {}
  /\ \A c \in r.checks : c.gen <= r.gen
  /\ r.build.tenant = r.build.shown
  /\ x \in since =>
       /\ r.admitted => r.shown = Identity
       /\ \A c \in r.checks : c.gen = r.gen => c.jar = jar /\ (c.answer = "same" => r.shown = Identity)

WorkspaceInv ==
  SharedTyped /\ since \subseteq Tabs /\ tab \in [Tabs -> TabRow] /\ strays = {} /\ \A x \in Tabs : TabInv(x, tab[x])

\* Whoever has begun no check in this step keeps the cookie and the identity it knew.
Stays(started) == \A y \in since' \ started : y \in since /\ jar' = jar /\ Identity' = Identity

LEMMA SameStays ==
  ASSUME NEW started, SameIdentity(started)
  PROVE  Stays(started) /\ UNCHANGED <<jar, sessions>> /\ Identity' = Identity
  BY DEF SameIdentity, Stays, Identity, ResolveSession

LEMMA BecomesStays ==
  ASSUME NEW started, NEW cookie, NEW s, Becomes(cookie, s, started)
  PROVE  Stays(started) /\ jar' = cookie /\ sessions' = s
  BY DEF Becomes, Stays, Identity, ResolveSession

LEMMA NobodyTyped == Nobody \in Persons /\ Nobody \in Places
  <1>1. Nobody \in Persons
    BY DEF Persons
  <1>2. Nobody \in Places
    BY DEF Places
  <1> QED
    BY <1>1, <1>2

LEMMA IdentityTyped ==
  ASSUME NEW s \in Seq(SessionRow), NEW cookie \in 0..Len(s)
  PROVE  ResolveSession(s, cookie) \in Who /\ NoIdentity \in Who
  <1>1. NoIdentity \in Who
    BY NobodyTyped DEF NoIdentity, Who
  <1>2. CASE cookie # 0
    <2>1. cookie \in 1..Len(s)
      BY <1>2, LenProperties
    <2>2. s[cookie] \in SessionRow
      BY <2>1, ElementOfSeq
    <2> QED
      BY <1>1, <2>2 DEF ResolveSession, SessionRow, Who
  <1> QED
    BY <1>1, <1>2 DEF ResolveSession

LEMMA TabsTyped ==
  ASSUME WorkspaceInv, NEW x \in Tabs
  PROVE  tab[x] \in TabRow /\ TabInv(x, tab[x])
  BY DEF WorkspaceInv

LEMMA RenderedSound ==
  ASSUME NEW x, NEW who \in Who, NEW r, r = Rendered(who)
  PROVE  r \in TabRow /\ TabInv(x, r) /\ TabInv(x, r)' /\ r.state = "rendered" /\ r.checks = {}
  <1>1. NoCall \in CallRow /\ NoCall.tenant = NoCall.shown
    BY NobodyTyped DEF NoCall, CallRow
  <1>2. r \in TabRow
    BY <1>1 DEF Rendered, TabRow
  <1>3. r.state = "rendered" /\ r.checks = {} /\ ~r.admitted /\ r.build = NoCall
    BY DEF Rendered
  <1> QED
    BY <1>1, <1>2, <1>3 DEF TabInv

\* One tab moves.
LEMMA WorkspaceMoves ==
  ASSUME WorkspaceInv, SharedTyped', strays' = {}, NEW x \in Tabs, NEW r \in TabRow, tab' = [tab EXCEPT ![x] = r],
         Stays({x}), TabInv(x, r)'
  PROVE  WorkspaceInv'
  <1>1. tab' \in [Tabs -> TabRow]
    BY DEF WorkspaceInv
  <1>2. ASSUME NEW y \in Tabs PROVE TabInv(y, tab[y])'
    <2>1. CASE y = x
      <3>1. tab'[y] = r
        BY <2>1 DEF WorkspaceInv
      <3> QED
        BY <2>1, <3>1 DEF TabInv
    <2>2. CASE y # x
      <3>1. tab'[y] = tab[y] /\ TabInv(y, tab[y])
        BY <2>2 DEF WorkspaceInv
      <3>2. y \in since' => y \in since /\ jar' = jar /\ Identity' = Identity
        BY <2>2 DEF Stays
      <3> QED
        BY <3>1, <3>2 DEF TabInv
    <2> QED
      BY <2>1, <2>2
  <1>3. since' \subseteq Tabs
    BY DEF Stays, WorkspaceInv
  <1> QED
    BY <1>1, <1>2, <1>3 DEF WorkspaceInv

\* A tab that begins no check, and admits and waits for no more than before.
LEMMA NoMore ==
  ASSUME WorkspaceInv, NEW x \in Tabs, NEW r \in TabRow, Stays({}),
         r.state = tab[x].state, r.shown = tab[x].shown, r.gen = tab[x].gen, r.checks \subseteq tab[x].checks,
         r.admitted => tab[x].admitted, r.build.tenant = r.build.shown
  PROVE  TabInv(x, r)'
  <1>1. tab[x] \in TabRow /\ TabInv(x, tab[x])
    BY TabsTyped
  <1>2. x \in since' => x \in since /\ jar' = jar /\ Identity' = Identity
    BY DEF Stays
  <1> QED
    BY <1>1, <1>2 DEF TabInv

\* A new check is the newest one, and takes the cookie of its moment along.
LEMMA CheckingSound ==
  ASSUME NEW x \in Tabs, NEW z \in TabRow, \A c \in z.checks : c.gen <= z.gen, z.state = "open",
         z.build.tenant = z.build.shown, jar' \in Nat, NEW r, r = Checking(z)
  PROVE  r \in TabRow /\ TabInv(x, r)'
  <1>1. PICK c : c = [gen |-> z.gen + 1, jar |-> jar', answer |-> "asked"]
    OBVIOUS
  <1>2. c \in CheckRow /\ c.gen = z.gen + 1 /\ c.jar = jar' /\ c.answer = "asked"
    BY <1>1 DEF TabRow, CheckRow
  <1>3. PICK checks : checks = z.checks \cup {c}
    OBVIOUS
  <1>4. r = [z EXCEPT !.gen = z.gen + 1, !.admitted = FALSE, !.checks = checks]
    BY <1>1, <1>3 DEF Checking
  <1>5. checks \subseteq CheckRow /\ z.gen \in Nat
    BY <1>2, <1>3 DEF TabRow
  <1>6. r \in TabRow
    <2>1. z.gen + 1 \in Nat /\ checks \in SUBSET CheckRow
      BY <1>5
    <2> QED
      BY <1>4, <2>1 DEF TabRow
  <1>7. r.gen = z.gen + 1 /\ ~r.admitted /\ r.checks = checks /\ r.state = z.state /\ r.build = z.build
    BY <1>4 DEF TabRow
  <1>8. \A d \in checks : d.gen <= r.gen /\ (d.gen = r.gen => d = c)
    <2>1. \A d \in z.checks : d.gen \in Nat /\ d.gen <= z.gen
      BY DEF TabRow, CheckRow
    <2> QED
      BY <1>2, <1>3, <1>5, <1>7, <2>1
  <1>9. TabInv(x, r)'
    BY <1>2, <1>7, <1>8 DEF TabInv
  <1> QED
    BY <1>6, <1>9

LEMMA WorkspaceInitially ==
  ASSUME WorkspaceInit
  PROVE  WorkspaceInv
  <1>1. PICK t \in MemberOf[FirstUser] : sessions = <<[user |-> FirstUser, tenant |-> t, live |-> TRUE]>>
    BY DEF WorkspaceInit
  <1>2. [user |-> FirstUser, tenant |-> t, live |-> TRUE] \in SessionRow
    BY DEF SessionRow, Persons, Places, Workspaces
  <1>3. sessions \in Seq(SessionRow) /\ Len(sessions) = 1
    BY <1>1, <1>2
  <1>4. SharedTyped
    BY <1>3 DEF WorkspaceInit, SharedTyped
  <1>5. PICK who \in Who : who = ResolveSession(sessions, 1)
    BY <1>3, IdentityTyped
  <1>6. tab = [x \in Tabs |-> Rendered(who)]
    BY <1>5 DEF WorkspaceInit
  <1>7. \A x \in Tabs : tab[x] \in TabRow /\ TabInv(x, tab[x])
    BY <1>6, RenderedSound
  <1> QED
    BY <1>4, <1>6, <1>7 DEF WorkspaceInit, WorkspaceInv

\* A step that moves one tab, without a check, leaves sessions and everybody's cookie alone.
LEMMA QuietStep ==
  ASSUME WorkspaceInv, NEW x \in Tabs, NEW r \in TabRow, tab' = [tab EXCEPT ![x] = r], TabInv(x, r)',
         SameIdentity({}) \/ SameIdentity({x}), strays' = {},
         signals' \in Seq({"begin", "finish"}), mail' \in [Tabs -> SUBSET Nat], late' \subseteq CallRow
  PROVE  WorkspaceInv'
  <1>1. Stays({x}) /\ UNCHANGED <<jar, sessions>>
    BY SameStays DEF Stays
  <1>2. SharedTyped'
    BY <1>1 DEF WorkspaceInv, SharedTyped
  <1> QED
    BY <1>1, <1>2, WorkspaceMoves

LEMMA JarTyped ==
  ASSUME WorkspaceInv
  PROVE  jar \in Nat /\ Identity \in Who /\ NoIdentity \in Who /\ Len(sessions) \in Nat
  <1>1. sessions \in Seq(SessionRow) /\ jar \in 0..Len(sessions)
    BY DEF WorkspaceInv, SharedTyped
  <1> QED
    BY <1>1, IdentityTyped, LenProperties DEF Identity

LEMMA MountStep ==
  ASSUME WorkspaceInv, NEW x \in Tabs, Mount(x)
  PROVE  WorkspaceInv'
  <1>1. tab[x] \in TabRow /\ TabInv(x, tab[x]) /\ tab[x].state = "rendered"
        /\ UNCHANGED <<signals, late, strays>> /\ SameIdentity({x})
    BY TabsTyped DEF Mount
  <1>2. Len(signals) \in Nat
    BY LenProperties DEF WorkspaceInv, SharedTyped
  <1>3. PICK z : z = [tab[x] EXCEPT !.state = "open", !.revision = Len(signals)]
    OBVIOUS
  <1>4. z \in TabRow /\ z.state = "open" /\ z.checks = {} /\ z.build = tab[x].build
    BY <1>1, <1>2, <1>3 DEF TabRow, TabInv
  <1>5. jar' \in Nat
    BY <1>1, SameStays, JarTyped
  <1>6. PICK r : r = Checking(z)
    OBVIOUS
  <1>7. r \in TabRow /\ TabInv(x, r)'
    <2>1. \A c \in z.checks : c.gen <= z.gen
      BY <1>4
    <2>2. z.build.tenant = z.build.shown
      BY <1>1, <1>4 DEF TabInv
    <2> QED
      BY <1>4, <1>5, <1>6, <2>1, <2>2, CheckingSound
  <1>8. tab' = [tab EXCEPT ![x] = r]
    BY <1>3, <1>6 DEF Mount
  <1>9. mail' \in [Tabs -> SUBSET Nat] /\ late' \subseteq CallRow /\ signals' \in Seq({"begin", "finish"}) /\ strays' = {}
    BY <1>1 DEF WorkspaceInv, SharedTyped, Mount
  <1> QED
    BY <1>1, <1>7, <1>8, <1>9, QuietStep

LEMMA Unshared ==
  ASSUME WorkspaceInv, UNCHANGED <<signals, mail, late>>
  PROVE  signals' \in Seq({"begin", "finish"}) /\ mail' \in [Tabs -> SUBSET Nat] /\ late' \subseteq CallRow
  BY DEF WorkspaceInv, SharedTyped

LEMMA HeaderFailedStep ==
  ASSUME WorkspaceInv, NEW x \in Tabs, HeaderFailed(x)
  PROVE  WorkspaceInv'
  <1>1. tab[x] \in TabRow /\ TabInv(x, tab[x]) /\ tab[x].state = "rendered"
        /\ UNCHANGED <<signals, mail, late, strays>> /\ SameIdentity({}) /\ strays' = {}
    BY TabsTyped DEF HeaderFailed, WorkspaceInv
  <1>2. PICK r : r = [tab[x] EXCEPT !.shown = NoIdentity]
    OBVIOUS
  <1>3. r \in TabRow /\ r.state = "rendered" /\ r.checks = {} /\ ~r.admitted /\ r.build = tab[x].build
    BY <1>1, <1>2, JarTyped DEF TabRow, TabInv
  <1>4. tab' = [tab EXCEPT ![x] = r]
    BY <1>2 DEF HeaderFailed
  <1>5. TabInv(x, r)'
    BY <1>1, <1>3 DEF TabInv
  <1> QED
    BY <1>1, <1>3, <1>4, <1>5, QuietStep, Unshared

\* The page is rendered again for whoever is signed in.
LEMMA ReloadSound ==
  ASSUME WorkspaceInv, NEW x \in Tabs, NEW r, r = Reloaded
  PROVE  r \in TabRow /\ TabInv(x, r)'
  BY JarTyped, RenderedSound DEF Reloaded

\* A tab that asks for no check.
LEMMA NoMoreStep ==
  ASSUME WorkspaceInv, NEW x \in Tabs, NEW r \in TabRow, tab' = [tab EXCEPT ![x] = r],
         SameIdentity({}), strays' = {},
         signals' \in Seq({"begin", "finish"}), mail' \in [Tabs -> SUBSET Nat], late' \subseteq CallRow,
         r.state = tab[x].state, r.shown = tab[x].shown, r.gen = tab[x].gen, r.checks \subseteq tab[x].checks,
         r.admitted => tab[x].admitted, r.build.tenant = r.build.shown
  PROVE  WorkspaceInv'
  BY SameStays, NoMore, QuietStep

LEMMA ReloadStep ==
  ASSUME WorkspaceInv, NEW x \in Tabs, tab' = [tab EXCEPT ![x] = Reloaded], SameIdentity({}), strays' = {},
         signals' \in Seq({"begin", "finish"}), mail' \in [Tabs -> SUBSET Nat], late' \subseteq CallRow
  PROVE  WorkspaceInv'
  <1>1. PICK r : r = Reloaded
    OBVIOUS
  <1>2. r \in TabRow /\ TabInv(x, r)'
    BY <1>1, ReloadSound
  <1> QED
    BY <1>1, <1>2, QuietStep

LEMMA CheckStep ==
  ASSUME WorkspaceInv, NEW x \in Tabs, NEW c \in tab[x].checks,
         CheckEvaluated(x, c) \/ CheckFailed(x, c) \/ CheckAnswered(x, c)
  PROVE  WorkspaceInv'
  <1>1. tab[x] \in TabRow /\ TabInv(x, tab[x]) /\ c \in CheckRow
        /\ UNCHANGED <<signals, mail, late, strays>> /\ SameIdentity({}) /\ strays' = {}
    BY TabsTyped DEF CheckEvaluated, CheckFailed, CheckAnswered, WorkspaceInv, TabRow
  <1>2. /\ signals' \in Seq({"begin", "finish"}) /\ mail' \in [Tabs -> SUBSET Nat] /\ late' \subseteq CallRow
    BY <1>1, Unshared
  <1>3. UNCHANGED <<jar, sessions>> /\ Identity' = Identity /\ (x \in since' => x \in since)
    BY <1>1, SameStays DEF Stays
  <1>4. CASE CheckEvaluated(x, c)
    <2>1. PICK d : d = [c EXCEPT !.answer = IF ResolveSession(sessions, c.jar) = tab[x].shown THEN "same" ELSE "other"]
      OBVIOUS
    <2>2. d \in CheckRow /\ d.gen = c.gen /\ d.jar = c.jar /\ (d.answer = "same" => ResolveSession(sessions, c.jar) = tab[x].shown)
      BY <1>1, <2>1 DEF CheckRow
    <2>3. PICK checks : checks = (tab[x].checks \ {c}) \cup {d}
      OBVIOUS
    <2>4. PICK r : r = [tab[x] EXCEPT !.checks = checks]
      OBVIOUS
    <2>5. tab' = [tab EXCEPT ![x] = r]
      <3>1. tab' = [tab EXCEPT ![x].checks = checks]
        BY <1>4, <2>1, <2>3 DEF CheckEvaluated
      <3> QED
        BY <2>4, <3>1
    <2>6. checks \in SUBSET CheckRow
      BY <1>1, <2>2, <2>3 DEF TabRow
    <2>7. r \in TabRow /\ r.checks = checks /\ r.state = tab[x].state /\ r.shown = tab[x].shown /\ r.gen = tab[x].gen
          /\ r.admitted = tab[x].admitted /\ r.build = tab[x].build
      BY <1>1, <2>4, <2>6 DEF TabRow
    <2>8. TabInv(x, r)'
      <3>1. tab[x].state # "rendered"
        BY <1>1 DEF TabInv
      <3>2. x \in since /\ c.gen = tab[x].gen => c.jar = jar
        BY <1>1 DEF TabInv
      <3>3. x \in since /\ d.gen = tab[x].gen => d.jar = jar /\ (d.answer = "same" => tab[x].shown = Identity)
        BY <2>2, <3>2 DEF Identity
      <3> QED
        BY <1>1, <1>3, <2>2, <2>3, <2>7, <3>1, <3>3 DEF TabInv
    <2> QED
      BY <1>1, <1>2, <2>5, <2>7, <2>8, QuietStep
  <1>5. ASSUME NEW r, r = [tab[x] EXCEPT !.checks = tab[x].checks \ {c}], tab' = [tab EXCEPT ![x] = r]
        PROVE  WorkspaceInv'
    <2>1. r \in TabRow /\ r.checks = tab[x].checks \ {c} /\ r.state = tab[x].state /\ r.shown = tab[x].shown /\ r.gen = tab[x].gen
          /\ r.admitted = tab[x].admitted /\ r.build = tab[x].build
      BY <1>1, <1>5 DEF TabRow
    <2>2. r.build.tenant = r.build.shown
      BY <1>1, <2>1 DEF TabInv
    <2> QED
      BY <1>1, <1>2, <1>5, <2>1, <2>2, NoMoreStep
  <1>6. CASE CheckFailed(x, c)
    <2>1. tab' = [tab EXCEPT ![x] = [tab[x] EXCEPT !.checks = tab[x].checks \ {c}]]
      BY <1>6 DEF CheckFailed
    <2> QED
      BY <1>5, <2>1
  <1>7. CASE CheckAnswered(x, c) /\ ~Current(x, c)
    <2>1. tab' = [tab EXCEPT ![x] = [tab[x] EXCEPT !.checks = tab[x].checks \ {c}]]
      BY <1>7 DEF CheckAnswered
    <2> QED
      BY <1>5, <2>1
  <1>8. CASE CheckAnswered(x, c) /\ Current(x, c) /\ c.answer = "same"
    <2>1. PICK checks : checks = tab[x].checks \ {c}
      OBVIOUS
    <2>2. PICK r : r = [tab[x] EXCEPT !.checks = checks, !.admitted = TRUE]
      OBVIOUS
    <2>3. tab' = [tab EXCEPT ![x] = r]
      BY <1>8, <2>1, <2>2 DEF CheckAnswered
    <2>4. r \in TabRow /\ r.checks = checks /\ r.state = tab[x].state /\ r.shown = tab[x].shown /\ r.gen = tab[x].gen
          /\ r.build = tab[x].build
      BY <1>1, <2>1, <2>2 DEF TabRow
    <2>5. tab[x].state # "rendered" /\ c.gen = tab[x].gen
      BY <1>1, <1>8 DEF TabInv, Current
    <2>6. x \in since => tab[x].shown = Identity
      BY <1>1, <1>8, <2>5 DEF TabInv
    <2>7. TabInv(x, r)'
      BY <1>1, <1>3, <2>1, <2>4, <2>5, <2>6 DEF TabInv
    <2> QED
      BY <1>1, <1>2, <2>3, <2>4, <2>7, QuietStep
  <1>9. CASE CheckAnswered(x, c) /\ Current(x, c) /\ c.answer # "same"
    <2>1. tab' = [tab EXCEPT ![x] = Reloaded]
      BY <1>9 DEF CheckAnswered
    <2> QED
      BY <1>1, <1>2, <2>1, ReloadStep
  <1> QED
    BY <1>4, <1>6, <1>7, <1>8, <1>9

\* A signal leaves the tab, reloads it or blocks it.
LEMMA ChangedSound ==
  ASSUME WorkspaceInv, NEW x \in Tabs, tab[x].state = "open", NEW n \in Nat, NEW z, z = Changed(x, n)
  PROVE  z \in TabRow /\ z.build.tenant = z.build.shown /\
         \/ z = Reloaded /\ z.state = "rendered"
         \/ /\ z.state = "open" /\ z.shown = tab[x].shown /\ z.gen = tab[x].gen /\ z.checks = tab[x].checks
            /\ z.admitted = tab[x].admitted
  <1>1. tab[x] \in TabRow /\ TabInv(x, tab[x])
    BY TabsTyped
  <1>2. CASE z = tab[x]
    BY <1>1, <1>2 DEF TabInv
  <1>3. CASE z = [tab[x] EXCEPT !.revision = n]
    BY <1>1, <1>3 DEF TabInv, TabRow
  <1>4. CASE z = [tab[x] EXCEPT !.revision = n, !.blocked = TRUE]
    BY <1>1, <1>4 DEF TabInv, TabRow
  <1>5. CASE z = Reloaded
    <2>1. z = Rendered(Identity) /\ Identity \in Who
      BY <1>5, JarTyped DEF Reloaded
    <2>2. z \in TabRow /\ TabInv(x, z) /\ z.state = "rendered"
      BY <2>1, RenderedSound
    <2> QED
      BY <1>5, <2>2 DEF TabInv
  <1>6. \/ z = tab[x] \/ z = [tab[x] EXCEPT !.revision = n] \/ z = Reloaded
        \/ z = [tab[x] EXCEPT !.revision = n, !.blocked = TRUE]
    BY DEF Changed
  <1> QED
    BY <1>2, <1>3, <1>4, <1>5, <1>6

LEMMA HearStep ==
  ASSUME WorkspaceInv, NEW x \in Tabs, NEW n \in mail[x], Hear(x, n)
  PROVE  WorkspaceInv'
  <1>1. n \in Nat /\ tab[x].state = "open" /\ SameIdentity({}) /\ strays' = {}
        /\ signals' \in Seq({"begin", "finish"}) /\ mail' \in [Tabs -> SUBSET Nat] /\ late' \subseteq CallRow
    BY DEF Hear, WorkspaceInv, SharedTyped
  <1>2. PICK z : z = Changed(x, n)
    OBVIOUS
  <1>3. tab' = [tab EXCEPT ![x] = z]
    BY <1>2 DEF Hear
  <1>4. z \in TabRow /\ z.build.tenant = z.build.shown /\
         \/ z = Reloaded /\ z.state = "rendered"
         \/ /\ z.state = "open" /\ z.shown = tab[x].shown /\ z.gen = tab[x].gen /\ z.checks = tab[x].checks
            /\ z.admitted = tab[x].admitted
    BY <1>1, <1>2, ChangedSound
  <1>5. CASE z = Reloaded
    BY <1>1, <1>3, <1>5, ReloadStep
  <1>6. CASE z # Reloaded
    BY <1>1, <1>3, <1>4, <1>6, NoMoreStep
  <1> QED
    BY <1>5, <1>6

LEMMA FocusStep ==
  ASSUME WorkspaceInv, NEW x \in Tabs, Focus(x)
  PROVE  WorkspaceInv'
  <1>1. tab[x] \in TabRow /\ TabInv(x, tab[x]) /\ tab[x].state = "open" /\ SameIdentity({x}) /\ strays' = {}
        /\ UNCHANGED <<signals, mail, late>>
    BY TabsTyped DEF Focus, WorkspaceInv
  <1>2. /\ signals' \in Seq({"begin", "finish"}) /\ mail' \in [Tabs -> SUBSET Nat] /\ late' \subseteq CallRow
    BY <1>1, Unshared
  <1>3. jar' \in Nat
    BY <1>1, SameStays, JarTyped
  <1>4. PICK z : z = IF signals = <<>> THEN tab[x] ELSE Changed(x, Len(signals))
    OBVIOUS
  <1>5. tab' = [tab EXCEPT ![x] = IF z.state = "open" THEN Checking(z) ELSE z]
    BY <1>4 DEF Focus
  <1>6. z \in TabRow /\ z.build.tenant = z.build.shown /\
         \/ z = Reloaded /\ z.state = "rendered"
         \/ z.state = "open" /\ z.gen = tab[x].gen /\ z.checks = tab[x].checks
    <2>1. Len(signals) \in Nat
      BY LenProperties DEF WorkspaceInv, SharedTyped
    <2>2. CASE signals = <<>>
      BY <1>1, <1>4, <2>2 DEF TabInv
    <2>3. CASE signals # <<>>
      BY <1>1, <1>4, <2>1, <2>3, ChangedSound
    <2> QED
      BY <2>2, <2>3
  <1>7. CASE z.state = "open"
    <2>1. PICK r : r = Checking(z)
      OBVIOUS
    <2>2. \A c \in z.checks : c.gen <= z.gen
      BY <1>1, <1>6, <1>7 DEF TabInv
    <2>3. r \in TabRow /\ TabInv(x, r)'
      BY <1>3, <1>6, <1>7, <2>1, <2>2, CheckingSound
    <2> QED
      BY <1>1, <1>2, <1>5, <1>7, <2>1, <2>3, QuietStep
  <1>8. CASE z.state # "open"
    <2>1. TabInv(x, z)'
      BY <1>6, <1>8, ReloadSound
    <2> QED
      BY <1>1, <1>2, <1>5, <1>6, <1>8, <2>1, QuietStep
  <1> QED
    BY <1>7, <1>8

LEMMA SignalTyped ==
  ASSUME WorkspaceInv, NEW x, NEW phase \in {"begin", "finish"}, Signal(x, phase)
  PROVE  signals' \in Seq({"begin", "finish"}) /\ mail' \in [Tabs -> SUBSET Nat] /\ Len(signals) + 1 \in Nat
  <1>1. signals \in Seq({"begin", "finish"}) /\ mail \in [Tabs -> SUBSET Nat]
    BY DEF WorkspaceInv, SharedTyped
  <1>2. Len(signals) \in Nat
    BY <1>1, LenProperties
  <1>3. signals' \in Seq({"begin", "finish"})
    BY <1>1, AppendProperties DEF Signal
  <1>4. mail' \in [Tabs -> SUBSET Nat]
    BY <1>1, <1>2 DEF Signal
  <1> QED
    BY <1>2, <1>3, <1>4

LEMMA NoCallTyped == NoCall \in CallRow
  BY NobodyTyped DEF NoCall, CallRow

\* The call and the signals of a tab may change, whatever it shows and admits.
LEMMA SwitchingStep ==
  ASSUME WorkspaceInv, NEW x \in Tabs, NEW own \in SUBSET Nat, NEW blocked \in BOOLEAN, NEW switch \in CallRow,
         tab' = [tab EXCEPT ![x] = [tab[x] EXCEPT !.blocked = blocked, !.own = own, !.switch = switch]],
         SameIdentity({}), strays' = {},
         signals' \in Seq({"begin", "finish"}), mail' \in [Tabs -> SUBSET Nat], late' \subseteq CallRow
  PROVE  WorkspaceInv'
  <1>1. PICK r : r = [tab[x] EXCEPT !.blocked = blocked, !.own = own, !.switch = switch]
    OBVIOUS
  <1>2. /\ r \in TabRow /\ r.state = tab[x].state /\ r.shown = tab[x].shown /\ r.gen = tab[x].gen
        /\ r.checks = tab[x].checks /\ r.admitted = tab[x].admitted /\ r.build.tenant = r.build.shown
    <2>1. tab[x] \in TabRow /\ TabInv(x, tab[x])
      BY TabsTyped
    <2> QED
      BY <1>1, <2>1 DEF TabRow, TabInv
  <1> QED
    BY <1>1, <1>2, NoMoreStep

LEMMA BeginSwitchStep ==
  ASSUME WorkspaceInv, NEW x \in Tabs, NEW t, BeginSwitch(x, t)
  PROVE  WorkspaceInv'
  <1>1. tab[x] \in TabRow /\ tab \in [Tabs -> TabRow] /\ SameIdentity({}) /\ strays' = {} /\ UNCHANGED late
        /\ Signal(x, "begin") /\ late' \subseteq CallRow /\ t \in MemberOf[tab[x].shown.user]
        /\ tab[x].shown.user # Nobody
    BY TabsTyped DEF BeginSwitch, WorkspaceInv, SharedTyped
  <1>2. signals' \in Seq({"begin", "finish"}) /\ mail' \in [Tabs -> SUBSET Nat] /\ Len(signals) + 1 \in Nat
    BY <1>1, SignalTyped
  <1>3. t \in Places
    <2>1. tab[x].shown.user \in Users \cup {FirstUser}
      BY <1>1 DEF TabRow, Who, Persons
    <2>2. t \in Workspaces
      BY <1>1, <2>1 DEF Workspaces
    <2> QED
      BY <2>2 DEF Places
  <1>4. PICK switch : switch = [NoCall EXCEPT !.pc = "sent", !.jar = jar, !.tenant = t]
    OBVIOUS
  <1>5. switch \in CallRow
    BY <1>3, <1>4, JarTyped, NoCallTyped DEF CallRow
  <1>6. PICK own : own = tab[x].own \cup {Len(signals) + 1}
    OBVIOUS
  <1>7. own \in SUBSET Nat
    BY <1>1, <1>2, <1>6 DEF TabRow
  <1>8. tab' = [tab EXCEPT ![x] = [tab[x] EXCEPT !.blocked = TRUE, !.own = own, !.switch = switch]]
    <2>1. tab' = [tab EXCEPT ![x].blocked = TRUE, ![x].own = own, ![x].switch = switch]
      BY <1>4, <1>6 DEF BeginSwitch
    <2> QED
      BY <1>1, <2>1 DEF TabRow
  <1> QED
    BY <1>1, <1>2, <1>5, <1>7, <1>8, SwitchingStep, Zenon

LEMMA SwitchAnsweredStep ==
  ASSUME WorkspaceInv, NEW x \in Tabs, SwitchAnswered(x)
  PROVE  WorkspaceInv'
  <1>1. tab[x] \in TabRow /\ SameIdentity({}) /\ strays' = {} /\ UNCHANGED late
        /\ Signal(x, "finish") /\ late' \subseteq CallRow
    BY TabsTyped DEF SwitchAnswered, WorkspaceInv, SharedTyped
  <1>2. signals' \in Seq({"begin", "finish"}) /\ mail' \in [Tabs -> SUBSET Nat] /\ Len(signals) + 1 \in Nat
    BY <1>1, SignalTyped
  <1>3. CASE tab[x].switch.pc = "done"
    BY <1>1, <1>2, <1>3, ReloadStep DEF SwitchAnswered
  <1>4. CASE tab[x].switch.pc # "done"
    <2>1. PICK own : own = tab[x].own \cup {Len(signals) + 1}
      OBVIOUS
    <2>2. own \in SUBSET Nat /\ tab[x].blocked \in BOOLEAN
      BY <1>1, <1>2, <2>1 DEF TabRow
    <2>3. tab' = [tab EXCEPT ![x] = [tab[x] EXCEPT !.switch = NoCall, !.own = own]]
      BY <1>4, <2>1 DEF SwitchAnswered
    <2>4. tab' = [tab EXCEPT ![x] = [tab[x] EXCEPT !.blocked = tab[x].blocked, !.own = own, !.switch = NoCall]]
      BY <1>1, <2>3 DEF TabRow
    <2> QED
      BY <1>1, <1>2, <2>2, <2>4, NoCallTyped, SwitchingStep, Zenon
  <1> QED
    BY <1>3, <1>4

LEMMA SwitchLostStep ==
  ASSUME WorkspaceInv, NEW x \in Tabs, SwitchLost(x)
  PROVE  WorkspaceInv'
  <1>1. tab[x] \in TabRow /\ tab \in [Tabs -> TabRow] /\ SameIdentity({}) /\ strays' = {} /\ Signal(x, "finish")
    BY TabsTyped DEF SwitchLost, WorkspaceInv
  <1>2. signals' \in Seq({"begin", "finish"}) /\ mail' \in [Tabs -> SUBSET Nat] /\ Len(signals) + 1 \in Nat
    BY <1>1, SignalTyped
  <1>3. late' \subseteq CallRow
    BY <1>1 DEF SwitchLost, WorkspaceInv, SharedTyped, TabRow
  <1>4. PICK own : own = tab[x].own \cup {Len(signals) + 1}
    OBVIOUS
  <1>5. own \in SUBSET Nat /\ tab[x].blocked \in BOOLEAN
    BY <1>1, <1>2, <1>4 DEF TabRow
  <1>6. tab' = [tab EXCEPT ![x].switch = NoCall, ![x].own = own]
    BY <1>4 DEF SwitchLost
  <1>7. tab' = [tab EXCEPT ![x] = [tab[x] EXCEPT !.blocked = tab[x].blocked, !.own = own, !.switch = NoCall]]
    BY <1>1, <1>6 DEF TabRow
  <1> QED
    BY <1>1, <1>2, <1>3, <1>5, <1>7, NoCallTyped, SwitchingStep, Zenon

LEMMA AbandonStep ==
  ASSUME WorkspaceInv, NEW x \in Tabs, Abandon(x)
  PROVE  WorkspaceInv'
  <1>1. tab[x] \in TabRow /\ SameIdentity({}) /\ strays' = {} /\ UNCHANGED <<signals, mail>>
        /\ tab' = [tab EXCEPT ![x] = Reloaded]
    BY TabsTyped DEF Abandon, WorkspaceInv
  <1>2. late' \subseteq CallRow
    BY <1>1 DEF Abandon, WorkspaceInv, SharedTyped, TabRow
  <1>3. signals' \in Seq({"begin", "finish"}) /\ mail' \in [Tabs -> SUBSET Nat]
    BY <1>1 DEF WorkspaceInv, SharedTyped
  <1> QED
    BY <1>1, <1>2, <1>3, ReloadStep

\* A switch changes the workspace of one session.
LEMMA SwitchedTyped ==
  ASSUME WorkspaceInv, NEW c \in CallRow
  PROVE  Switched(c) \in Seq(SessionRow) /\ Len(Switched(c)) = Len(sessions)
  <1>1. sessions \in Seq(SessionRow) /\ Len(sessions) \in Nat
    BY LenProperties DEF WorkspaceInv, SharedTyped
  <1>2. sessions \in [1..Len(sessions) -> SessionRow]
    BY <1>1
  <1>3. c.tenant \in Places
    BY DEF CallRow
  <1>4. CASE c.jar \in 1..Len(sessions)
    <2>1. sessions[c.jar] \in SessionRow
      BY <1>2, <1>4
    <2>2. PICK s : s = [sessions[c.jar] EXCEPT !.tenant = c.tenant]
      OBVIOUS
    <2>3. s \in SessionRow
      BY <1>3, <2>1, <2>2 DEF SessionRow
    <2>4. Switched(c) = [sessions EXCEPT ![c.jar] = s]
      BY <2>2 DEF Switched
    <2>5. PICK f : f = [sessions EXCEPT ![c.jar] = s]
      OBVIOUS
    <2>6. f \in Seq(SessionRow) /\ Len(f) = Len(sessions)
      BY <1>1, <1>4, <2>3, <2>5, ExceptSeq
    <2> QED
      BY <2>4, <2>5, <2>6
  <1>5. CASE c.jar \notin 1..Len(sessions)
    <2>1. Switched(c) = sessions
      BY <1>2, <1>5 DEF Switched
    <2> QED
      BY <1>1, <2>1
  <1> QED
    BY <1>4, <1>5

LEMMA SwitchHandledStep ==
  ASSUME WorkspaceInv, NEW x \in Tabs, SwitchHandled(x)
  PROVE  WorkspaceInv'
  <1>1. tab[x] \in TabRow /\ TabInv(x, tab[x]) /\ tab \in [Tabs -> TabRow] /\ strays' = {}
        /\ UNCHANGED <<signals, mail, late>>
    BY TabsTyped DEF SwitchHandled, WorkspaceInv
  <1>2. ASSUME NEW pc \in {"done", "failed"}, tab' = [tab EXCEPT ![x].switch.pc = pc]
        PROVE  \E r \in TabRow :
                 /\ tab' = [tab EXCEPT ![x] = r]
                 /\ r.state = tab[x].state /\ r.shown = tab[x].shown /\ r.gen = tab[x].gen
                 /\ r.checks = tab[x].checks /\ r.admitted = tab[x].admitted /\ r.build.tenant = r.build.shown
    <2>1. PICK switch : switch = [tab[x].switch EXCEPT !.pc = pc]
      OBVIOUS
    <2>2. switch \in CallRow
      BY <1>1, <2>1 DEF TabRow, CallRow
    <2>3. PICK r : r = [tab[x] EXCEPT !.switch = switch]
      OBVIOUS
    <2>4. r \in TabRow /\ r.state = tab[x].state /\ r.shown = tab[x].shown /\ r.gen = tab[x].gen
          /\ r.checks = tab[x].checks /\ r.admitted = tab[x].admitted /\ r.build = tab[x].build
      BY <1>1, <2>2, <2>3 DEF TabRow
    <2>5. tab' = [tab EXCEPT ![x] = r]
      BY <1>2, <2>1, <2>3
    <2>6. r.build.tenant = r.build.shown
      BY <1>1, <2>4 DEF TabInv
    <2> QED
      BY <2>4, <2>5, <2>6
  <1>3. CASE Becomes(jar, Switched(tab[x].switch), {}) /\ tab' = [tab EXCEPT ![x].switch.pc = "done"]
    <2>1. PICK r \in TabRow :
                 /\ tab' = [tab EXCEPT ![x] = r]
                 /\ r.state = tab[x].state /\ r.shown = tab[x].shown /\ r.gen = tab[x].gen
                 /\ r.checks = tab[x].checks /\ r.admitted = tab[x].admitted /\ r.build.tenant = r.build.shown
      BY <1>2, <1>3
    <2>2. Stays({}) /\ jar' = jar /\ sessions' = Switched(tab[x].switch)
      BY <1>3, BecomesStays
    <2>3. tab[x].switch \in CallRow
      BY <1>1 DEF TabRow
    <2>4. SharedTyped'
      BY <1>1, <2>2, <2>3, SwitchedTyped DEF WorkspaceInv, SharedTyped
    <2>5. TabInv(x, r)' /\ Stays({x})
      BY <2>1, <2>2, NoMore DEF Stays
    <2> QED
      BY <1>1, <2>1, <2>4, <2>5, WorkspaceMoves
  <1>4. CASE SameIdentity({}) /\ tab' = [tab EXCEPT ![x].switch.pc = "failed"]
    <2>1. PICK r \in TabRow :
                 /\ tab' = [tab EXCEPT ![x] = r]
                 /\ r.state = tab[x].state /\ r.shown = tab[x].shown /\ r.gen = tab[x].gen
                 /\ r.checks = tab[x].checks /\ r.admitted = tab[x].admitted /\ r.build.tenant = r.build.shown
      BY <1>2, <1>4
    <2> QED
      BY <1>1, <1>4, <2>1, NoMoreStep, Unshared
  <1> QED
    BY <1>3, <1>4 DEF SwitchHandled

LEMMA LateSwitchStep ==
  ASSUME WorkspaceInv, NEW c \in late, LateSwitch(c)
  PROVE  WorkspaceInv'
  <1>1. c \in CallRow /\ UNCHANGED <<tab, signals, mail, strays>> /\ late' \subseteq CallRow
        /\ Becomes(jar, Switched(c), {})
    BY DEF LateSwitch, WorkspaceInv, SharedTyped
  <1>2. Stays({}) /\ jar' = jar /\ sessions' = Switched(c)
    BY <1>1, BecomesStays
  <1>3. SharedTyped'
    BY <1>1, <1>2, SwitchedTyped DEF WorkspaceInv, SharedTyped
  <1>4. \A x \in Tabs : TabInv(x, tab[x])'
    BY <1>1, <1>2 DEF WorkspaceInv, TabInv, Stays
  <1>5. since' \subseteq Tabs
    BY <1>2 DEF Stays, WorkspaceInv
  <1> QED
    BY <1>1, <1>3, <1>4, <1>5 DEF WorkspaceInv

\* The cookies of a verified code, and of a sign-out.
LEMMA RelaySet ==
  ASSUME NEW s \in Nat, NEW cookie \in Nat
  PROVE  Relayed(cookie, SessionSetCookie(s)) \in {0, s}
  <1> DEFINE lines == SessionSetCookie(s)
  <1>1. DOMAIN lines = {1, 2} /\ lines[1].name = "session" /\ lines[2].name = "anon" /\ lines[1].value = s
    BY DEF SessionSetCookie
  <1> HIDE DEF lines
  <1>2. {lines[i].name : i \in DOMAIN lines} = {"session", "anon"}
    BY <1>1
  <1> DEFINE i == CHOOSE i \in DOMAIN lines :
                    lines[i].name = "session" /\ \A j \in DOMAIN lines : lines[j].name = "session" => j <= i
  <1>3. i = 1
    BY <1>1
  <1>4. Relays(lines)["session"] = IF Expired(lines[i]) THEN 0 ELSE lines[i].value
    BY <1>2 DEF Relays, CredentialCookies
  <1>5. "session" \in DOMAIN Relays(lines)
    BY <1>2 DEF Relays, CredentialCookies
  <1>6. Relayed(cookie, lines) \in {0, s}
    BY <1>1, <1>3, <1>4, <1>5 DEF Relayed
  <1> QED
    BY <1>6 DEF lines

LEMMA RelayClear ==
  ASSUME NEW cookie \in Nat
  PROVE  Relayed(cookie, SessionClearCookie) = 0
  <1> DEFINE lines == SessionClearCookie
  <1>1. DOMAIN lines = {1} /\ lines[1].name = "session" /\ lines[1].value = 0
    BY DEF SessionClearCookie
  <1> HIDE DEF lines
  <1>2. {lines[i].name : i \in DOMAIN lines} = {"session"}
    BY <1>1
  <1> DEFINE i == CHOOSE i \in DOMAIN lines :
                    lines[i].name = "session" /\ \A j \in DOMAIN lines : lines[j].name = "session" => j <= i
  <1>3. i = 1
    BY <1>1
  <1>4. Relays(lines)["session"] = IF Expired(lines[i]) THEN 0 ELSE lines[i].value
    BY <1>2 DEF Relays, CredentialCookies
  <1>5. "session" \in DOMAIN Relays(lines)
    BY <1>2 DEF Relays, CredentialCookies
  <1>6. Relayed(cookie, lines) = 0
    BY <1>1, <1>3, <1>4, <1>5 DEF Relayed, Expired
  <1> QED
    BY <1>6 DEF lines

\* The header of a tab shows another identity, and the tab checks again.
LEMMA RerenderSound ==
  ASSUME WorkspaceInv, NEW x \in Tabs, tab[x].state = "open", NEW who \in Who, jar' \in Nat,
         NEW r, r = Rerender(tab[x], who)
  PROVE  r \in TabRow /\ TabInv(x, r)'
  <1>1. tab[x] \in TabRow /\ TabInv(x, tab[x])
    BY TabsTyped
  <1>2. PICK z : z = [tab[x] EXCEPT !.shown = who, !.gen = 0, !.checks = {}]
    OBVIOUS
  <1>3. z \in TabRow /\ z.checks = {} /\ z.state = "open" /\ z.build = tab[x].build
    BY <1>1, <1>2 DEF TabRow
  <1>4. r = Checking(z)
    BY <1>2 DEF Rerender
  <1>5. z.build.tenant = z.build.shown /\ \A c \in z.checks : c.gen <= z.gen
    BY <1>1, <1>3 DEF TabInv
  <1> QED
    BY <1>3, <1>4, <1>5, CheckingSound

LEMMA SignInStep ==
  ASSUME WorkspaceInv, NEW x \in Tabs, NEW u \in Users, NEW t, SignIn(x, u, t)
  PROVE  WorkspaceInv'
  <1>1. tab[x].state = "open" /\ t \in MemberOf[u] /\ UNCHANGED <<signals, mail, late, strays>> /\ strays' = {}
        /\ sessions \in Seq(SessionRow) /\ jar \in Nat /\ Len(sessions) \in Nat
    BY JarTyped DEF SignIn, WorkspaceInv, SharedTyped
  <1>2. PICK s : s = [user |-> u, tenant |-> t, live |-> TRUE]
    OBVIOUS
  <1>3. s \in SessionRow
    <2>1. u \in Persons /\ t \in Workspaces
      BY <1>1 DEF Persons, Workspaces
    <2> QED
      BY <1>2, <2>1 DEF SessionRow, Places
  <1>4. PICK opened : opened = Append(sessions, s)
    OBVIOUS
  <1>5. opened \in Seq(SessionRow) /\ Len(opened) = Len(sessions) + 1
    BY <1>1, <1>3, <1>4, AppendProperties
  <1>6. PICK cookie : cookie = Relayed(jar, SessionSetCookie(Len(opened)))
    OBVIOUS
  <1>7. cookie \in {0, Len(opened)} /\ cookie \in 0..Len(opened) /\ cookie \in Nat
    BY <1>1, <1>5, <1>6, RelaySet
  <1>8. Becomes(cookie, opened, {x})
    BY <1>2, <1>4, <1>6 DEF SignIn
  <1>9. Stays({x}) /\ jar' = cookie /\ sessions' = opened
    BY <1>8, BecomesStays
  <1>10. PICK r : r = Rerender(tab[x], ResolveSession(opened, Len(opened)))
    OBVIOUS
  <1>11. r \in TabRow /\ TabInv(x, r)'
    <2>1. Len(opened) \in 0..Len(opened)
      BY <1>1, <1>5
    <2>2. ResolveSession(opened, Len(opened)) \in Who
      BY <1>5, <2>1, IdentityTyped
    <2> QED
      BY <1>1, <1>7, <1>9, <1>10, <2>2, RerenderSound
  <1>12. tab' = [tab EXCEPT ![x] = r]
    BY <1>2, <1>4, <1>10 DEF SignIn
  <1>13. SharedTyped'
    BY <1>1, <1>5, <1>7, <1>9 DEF WorkspaceInv, SharedTyped
  <1> QED
    BY <1>1, <1>9, <1>11, <1>12, <1>13, WorkspaceMoves

LEMMA SignOutStep ==
  ASSUME WorkspaceInv, NEW x \in Tabs, SignOut(x)
  PROVE  WorkspaceInv'
  <1>1. tab[x].state = "open" /\ UNCHANGED <<signals, mail, late, strays>> /\ strays' = {}
        /\ sessions \in Seq(SessionRow) /\ jar \in 0..Len(sessions) /\ jar \in Nat /\ Len(sessions) \in Nat
        /\ NoIdentity \in Who
    BY JarTyped DEF SignOut, WorkspaceInv, SharedTyped
  <1>2. PICK revoked \in {sessions, IF jar = 0 THEN sessions ELSE [sessions EXCEPT ![jar].live = FALSE]} :
          Becomes(Relayed(jar, SessionClearCookie), revoked, {x})
    BY DEF SignOut
  <1>3. Stays({x}) /\ jar' = 0 /\ sessions' = revoked
    BY <1>1, <1>2, BecomesStays, RelayClear
  <1>4. revoked \in Seq(SessionRow)
    <2>1. CASE revoked = sessions
      BY <1>1, <2>1
    <2>2. CASE revoked # sessions
      <3>1. jar \in 1..Len(sessions) /\ revoked = [sessions EXCEPT ![jar].live = FALSE]
        BY <1>1, <1>2, <2>2
      <3>2. sessions[jar] \in SessionRow
        BY <1>1, <3>1, ElementOfSeq
      <3>3. PICK s : s = [sessions[jar] EXCEPT !.live = FALSE]
        OBVIOUS
      <3>4. s \in SessionRow
        BY <3>2, <3>3 DEF SessionRow
      <3>5. revoked = [sessions EXCEPT ![jar] = s]
        BY <3>1, <3>3
      <3>6. [sessions EXCEPT ![jar] = s] \in Seq(SessionRow)
        BY <1>1, <3>1, <3>4, ExceptSeq
      <3> QED
        BY <3>5, <3>6
    <2> QED
      BY <2>1, <2>2
  <1>5. Len(revoked) \in Nat
    BY <1>4, LenProperties
  <1>6. SharedTyped'
    BY <1>1, <1>3, <1>4, <1>5 DEF WorkspaceInv, SharedTyped
  <1>7. PICK r : r = Rerender(tab[x], NoIdentity)
    OBVIOUS
  <1>8. r \in TabRow /\ TabInv(x, r)'
    BY <1>1, <1>3, <1>7, RerenderSound
  <1>9. tab' = [tab EXCEPT ![x] = r]
    BY <1>7 DEF SignOut
  <1> QED
    BY <1>1, <1>3, <1>6, <1>8, <1>9, WorkspaceMoves

LEMMA BuildStep ==
  ASSUME WorkspaceInv, NEW x \in Tabs, StartBuild(x) \/ BuildHandled(x)
  PROVE  WorkspaceInv'
  <1>1. tab[x] \in TabRow /\ TabInv(x, tab[x]) /\ tab \in [Tabs -> TabRow] /\ SameIdentity({})
        /\ UNCHANGED <<signals, mail, late>>
    BY TabsTyped DEF StartBuild, BuildHandled, WorkspaceInv
  <1>2. strays' = {}
    BY <1>1 DEF StartBuild, BuildHandled, Intended, TabInv, WorkspaceInv
  <1>3. PICK b \in CallRow : tab' = [tab EXCEPT ![x].build = b] /\ b.tenant = b.shown
    <2>1. CASE BuildHandled(x)
      BY <2>1, NoCallTyped DEF BuildHandled, NoCall
    <2>2. CASE StartBuild(x)
      <3>1. tab[x].shown.tenant \in Places /\ jar \in Nat
        BY <1>1, JarTyped DEF TabRow, Who
      <3>2. PICK b : b = [pc |-> "sent", jar |-> jar, tenant |-> tab[x].shown.tenant, shown |-> tab[x].shown.tenant]
        OBVIOUS
      <3>3. b \in CallRow /\ b.tenant = b.shown
        BY <3>1, <3>2 DEF CallRow
      <3> QED
        BY <2>2, <3>2, <3>3 DEF StartBuild
    <2> QED
      BY <2>1, <2>2
  <1>4. PICK r : r = [tab[x] EXCEPT !.build = b]
    OBVIOUS
  <1>5. /\ r \in TabRow /\ r.state = tab[x].state /\ r.shown = tab[x].shown /\ r.gen = tab[x].gen
        /\ r.checks = tab[x].checks /\ r.admitted = tab[x].admitted /\ r.build = b
    BY <1>1, <1>4 DEF TabRow
  <1>6. tab' = [tab EXCEPT ![x] = r]
    BY <1>3, <1>4
  <1> QED
    BY <1>1, <1>2, <1>3, <1>5, <1>6, NoMoreStep, Unshared, ZenonT(60)

LEMMA ReloadWorkspaceStep ==
  ASSUME WorkspaceInv, NEW x \in Tabs, Reload(x)
  PROVE  WorkspaceInv'
  BY ReloadStep, Unshared DEF Reload, WorkspaceInv

LEMMA WorkspaceStep ==
  ASSUME WorkspaceInv, WorkspaceNext \/ UNCHANGED workspaceVars
  PROVE  WorkspaceInv'
  <1>1. CASE UNCHANGED workspaceVars
    <2>1. UNCHANGED <<jar, sessions, tab, signals, mail, late, since, strays>>
      BY <1>1 DEF workspaceVars
    <2>2. SharedTyped'
      BY <2>1 DEF WorkspaceInv, SharedTyped
    <2>3. Identity' = Identity
      BY <2>1 DEF Identity, ResolveSession
    <2>4. \A x \in Tabs : TabInv(x, tab[x])'
      BY <2>1, <2>3 DEF WorkspaceInv, TabInv
    <2> QED
      BY <2>1, <2>2, <2>4 DEF WorkspaceInv
  <1>2. Actors \subseteq Tabs /\ Returned \subseteq Tabs
    BY WorkspaceAssumption
  <1>3. CASE WorkspaceNext
    BY <1>2, <1>3, MountStep, ReloadWorkspaceStep, BuildStep, SwitchHandledStep, SwitchAnsweredStep, SwitchLostStep,
       AbandonStep, CheckStep, HearStep, HeaderFailedStep, FocusStep, SignOutStep, BeginSwitchStep, SignInStep,
       LateSwitchStep DEF WorkspaceNext
  <1> QED
    BY <1>1, <1>3

LEMMA ActsSound ==
  ASSUME WorkspaceInv
  PROVE  ActsWhereShown
  BY DEF WorkspaceInv, ActsWhereShown, TabInv

(***************************************************************************)
(* The rules card.                                                         *)
(***************************************************************************)
ActionRow == [version : Nat, enabled : BOOLEAN]
ConfirmedRow == [action : ActionRow, generation : Nat]
AttemptRow == [action : ActionRow, state : {"none", "writing", "unknown"}]
LocalRow ==
  [confirmed : [Rules -> ConfirmedRow], attempt : [Rules -> AttemptRow], added : [Rules -> ActionRow], generation : Nat]
WriteRow == [pc : {"none", "sent", "accepted", "refused"}, enabled : BOOLEAN, generation : Nat, answer : ActionRow]
RefreshRow == [pc : {"none", "asked", "read"}, rules : [Rules -> ActionRow], may : BOOLEAN, again : BOOLEAN]
ComposerRow ==
  [open : BOOLEAN, proposal : {"none", "ready", "blocked"}, pending : {"none", "confirm", "accepted", "refused"},
   answer : ActionRow]

CardTyped ==
  /\ rules \in [Rules -> ActionRow] /\ operator \in BOOLEAN /\ versioned \in BOOLEAN
  /\ snapshot \in [rules : [Rules -> ActionRow], may : BOOLEAN]
  /\ local \in LocalRow /\ writes \in [Rules -> WriteRow] /\ adrift \subseteq Rules \X BOOLEAN
  /\ refresh \in RefreshRow /\ composer \in ComposerRow /\ told \in [Rules -> Nat]

\* The versions of a rule: at the service, in the snapshot, in the last response and as created.
AtService(r) == rules[r].version
InSnapshot(r) == snapshot.rules[r].version
InResponse(r) == local.confirmed[r].action.version
AsCreated(r) == local.added[r].version

\* Snapshots only get newer.
RefreshInv(r) == refresh.pc = "read" => InSnapshot(r) <= refresh.rules[r].version /\ refresh.rules[r].version <= AtService(r)

\* An answer under way is newer than what has been told, but for what a snapshot told since.
AnswerInv(r) ==
  writes[r].pc = "accepted" =>
    /\ writes[r].answer.version \in 1..AtService(r)
    /\ told[r] <= writes[r].answer.version \/ told[r] <= InSnapshot(r)

\* What was told is in the snapshot, or a response is kept of it, or it is the creation.
ToldInv(r) ==
  versioned => \/ told[r] <= InSnapshot(r) \/ told[r] <= InResponse(r)
               \/ told[r] <= 1 /\ AsCreated(r) >= 1

CreatedInv == composer.pending = "accepted" => Exists(composer.answer) /\ Exists(rules[NewRule])

RuleInv(r) == told[r] <= AtService(r) /\ InSnapshot(r) <= AtService(r) /\ RefreshInv(r) /\ AnswerInv(r) /\ ToldInv(r)
CardInv == CardTyped /\ CreatedInv /\ \A r \in Rules : RuleInv(r)

LEMMA EmptyRows ==
  /\ NoRule \in ActionRow /\ NoConfirmed \in ConfirmedRow /\ NoAttempt \in AttemptRow /\ NO_LOCAL_RULES \in LocalRow
  /\ NoWrite \in WriteRow /\ NoRefresh \in RefreshRow /\ Closed \in ComposerRow
  <1>1. NoRule \in ActionRow
    BY DEF NoRule, ActionRow
  <1>2. NoConfirmed \in ConfirmedRow /\ NoAttempt \in AttemptRow
    BY <1>1 DEF NoConfirmed, ConfirmedRow, NoAttempt, AttemptRow
  <1>3. NoWrite \in WriteRow /\ NoRefresh \in RefreshRow /\ Closed \in ComposerRow
    BY <1>1 DEF NoWrite, WriteRow, NoRefresh, RefreshRow, Closed, ComposerRow
  <1>4. NO_LOCAL_RULES \in LocalRow
    BY <1>1, <1>2 DEF NO_LOCAL_RULES, LocalRow
  <1> QED
    BY <1>1, <1>2, <1>3, <1>4

LEMMA CardInitially ==
  ASSUME CardInit
  PROVE  CardInv
  <1>1. rules \in [Rules -> ActionRow]
    <2>1. [version |-> 1, enabled |-> TRUE] \in ActionRow
      BY DEF ActionRow
    <2> QED
      BY <2>1, EmptyRows DEF CardInit
  <1>2. snapshot = [rules |-> rules, may |-> TRUE] /\ told = [r \in Rules |-> rules[r].version] /\ local = NO_LOCAL_RULES
        /\ writes = [r \in Rules |-> NoWrite] /\ refresh = NoRefresh /\ composer = Closed /\ adrift = {}
        /\ operator \in BOOLEAN /\ versioned \in BOOLEAN
    BY DEF CardInit
  <1>3. \A r \in Rules : rules[r].version \in Nat
    BY <1>1 DEF ActionRow
  <1>4. CardTyped
    BY <1>1, <1>2, <1>3, EmptyRows DEF CardTyped
  <1>5. CreatedInv
    BY <1>2 DEF CreatedInv, Closed
  <1>6. ASSUME NEW r \in Rules PROVE RuleInv(r)
    <2>1. told[r] = AtService(r) /\ InSnapshot(r) = AtService(r) /\ AtService(r) \in Nat
      BY <1>2, <1>3 DEF AtService, InSnapshot
    <2>2. RefreshInv(r) /\ AnswerInv(r)
      BY <1>2 DEF RefreshInv, AnswerInv, NoRefresh, NoWrite
    <2> QED
      BY <2>1, <2>2 DEF RuleInv, ToldInv
  <1> QED
    BY <1>4, <1>5, <1>6 DEF CardInv

\* A number for each version.
LEMMA Versions ==
  ASSUME CardTyped, NEW r \in Rules
  PROVE  /\ AtService(r) \in Nat /\ InSnapshot(r) \in Nat /\ InResponse(r) \in Nat /\ AsCreated(r) \in Nat /\ told[r] \in Nat
         /\ writes[r] \in WriteRow /\ writes[r].answer.version \in Nat /\ refresh.rules[r].version \in Nat
  <1>1. AtService(r) \in Nat /\ InSnapshot(r) \in Nat /\ told[r] \in Nat
    BY DEF CardTyped, AtService, InSnapshot, ActionRow
  <1>2. InResponse(r) \in Nat
    BY DEF CardTyped, InResponse, LocalRow, ConfirmedRow, ActionRow
  <1>3. AsCreated(r) \in Nat
    BY DEF CardTyped, AsCreated, LocalRow, ActionRow
  <1>4. writes[r] \in WriteRow /\ writes[r].answer.version \in Nat
    BY DEF CardTyped, WriteRow, ActionRow
  <1>5. refresh.rules[r].version \in Nat
    BY DEF CardTyped, RefreshRow, ActionRow
  <1> QED
    BY <1>1, <1>2, <1>3, <1>4, <1>5

\* A step that shows and tells nothing.
LEMMA CardMoves ==
  ASSUME CardInv, CardTyped', CreatedInv', UNCHANGED <<snapshot, told, versioned>>,
         UNCHANGED <<local.confirmed, local.added>>,
         \A r \in Rules : /\ AtService(r) <= AtService(r)'
                          /\ writes'[r] = writes[r] \/ AnswerInv(r)'
                          /\ refresh'.pc # "read" \/ UNCHANGED <<refresh.pc, refresh.rules>> \/ RefreshInv(r)'
  PROVE  CardInv'
  <1> SUFFICES ASSUME NEW r \in Rules PROVE RuleInv(r)'
    BY DEF CardInv
  <1>1. RuleInv(r) /\ AtService(r) <= AtService(r)'
    BY DEF CardInv
  <1>2. /\ AtService(r) \in Nat /\ InSnapshot(r) \in Nat /\ told[r] \in Nat /\ writes[r].answer.version \in Nat
        /\ refresh.rules[r].version \in Nat
    BY Versions DEF CardInv
  <1>3. AtService(r)' \in Nat
    BY DEF CardTyped, AtService, ActionRow
  <1>4. InSnapshot(r)' = InSnapshot(r) /\ InResponse(r)' = InResponse(r) /\ AsCreated(r)' = AsCreated(r)
    BY DEF InSnapshot, InResponse, AsCreated
  <1>5. RefreshInv(r)'
    BY <1>1, <1>2, <1>3, <1>4 DEF RuleInv, RefreshInv
  <1>6. AnswerInv(r)'
    BY <1>1, <1>2, <1>3, <1>4 DEF RuleInv, AnswerInv
  <1>7. ToldInv(r)'
    BY <1>1, <1>4 DEF RuleInv, ToldInv
  <1> QED
    BY <1>1, <1>2, <1>3, <1>4, <1>5, <1>6, <1>7 DEF RuleInv

\* The service stores one more version of a rule.
LEMMA Grows ==
  ASSUME CardInv, NEW r \in Rules, NEW enabled \in BOOLEAN, rules' = [rules EXCEPT ![r] = Written(r, enabled)]
  PROVE  /\ rules' \in [Rules -> ActionRow] /\ AtService(r)' = AtService(r) + 1 /\ \A q \in Rules : AtService(q) <= AtService(q)'
         /\ \A q \in Rules : Exists(rules[q]) => Exists(rules'[q])
  <1>1. rules \in [Rules -> ActionRow]
    BY DEF CardInv, CardTyped
  <1>2. \A q \in Rules : rules[q].version \in Nat
    BY <1>1 DEF ActionRow
  <1>3. PICK a : a = Written(r, enabled)
    OBVIOUS
  <1>4. a \in ActionRow /\ a.version = rules[r].version + 1
    BY <1>2, <1>3 DEF Written, ActionRow
  <1>5. rules' = [rules EXCEPT ![r] = a]
    BY <1>3
  <1> QED
    BY <1>1, <1>2, <1>4, <1>5 DEF AtService, Exists

LEMMA ElsewhereWrittenStep ==
  ASSUME CardInv, NEW r \in Rules, ElsewhereWritten(r)
  PROVE  CardInv'
  <1>1. rules[r].enabled \in BOOLEAN
    BY DEF CardInv, CardTyped, ActionRow
  <1>2. PICK e \in BOOLEAN : e = ~rules[r].enabled
    BY <1>1
  <1>3. /\ rules' = [rules EXCEPT ![r] = Written(r, e)]
        /\ UNCHANGED <<operator, versioned, snapshot, local, writes, adrift, refresh, composer, told>>
    BY <1>2 DEF ElsewhereWritten
  <1>4. /\ rules' \in [Rules -> ActionRow] /\ \A q \in Rules : AtService(q) <= AtService(q)'
        /\ \A q \in Rules : Exists(rules[q]) => Exists(rules'[q])
    BY <1>3, Grows
  <1>5. CardTyped'
    BY <1>3, <1>4 DEF CardInv, CardTyped
  <1>6. CreatedInv'
    BY <1>3, <1>4, RuleCardAssumption DEF CardInv, CreatedInv
  <1> QED
    BY <1>3, <1>4, <1>5, <1>6, CardMoves

LEMMA LateWriteStep ==
  ASSUME CardInv, NEW w \in adrift, LateWrite(w)
  PROVE  CardInv'
  <1>1. w[1] \in Rules /\ w[2] \in BOOLEAN
    BY DEF CardInv, CardTyped
  <1>2. /\ rules' = [rules EXCEPT ![w[1]] = Written(w[1], w[2])] \/ UNCHANGED rules
        /\ adrift' = adrift \ {w}
        /\ UNCHANGED <<operator, versioned, snapshot, local, writes, refresh, composer, told>>
    BY DEF LateWrite
  <1>3. /\ rules' \in [Rules -> ActionRow] /\ \A q \in Rules : AtService(q) <= AtService(q)'
        /\ \A q \in Rules : Exists(rules[q]) => Exists(rules'[q])
    <2>1. CASE UNCHANGED rules
      <3>1. \A q \in Rules : AtService(q)' = AtService(q) /\ AtService(q) \in Nat
        BY <2>1, Versions DEF AtService, CardInv
      <3> QED
        BY <2>1, <3>1 DEF CardInv, CardTyped
    <2>2. CASE rules' = [rules EXCEPT ![w[1]] = Written(w[1], w[2])]
      BY <1>1, <2>2, Grows
    <2> QED
      BY <1>2, <2>1, <2>2
  <1>4. CardTyped'
    BY <1>2, <1>3 DEF CardInv, CardTyped
  <1>5. CreatedInv'
    BY <1>2, <1>3, RuleCardAssumption DEF CardInv, CreatedInv
  <1> QED
    BY <1>2, <1>3, <1>4, <1>5, CardMoves

\* What the service stores stays when it stores nothing.
LEMMA ServiceRests ==
  ASSUME CardInv, UNCHANGED rules
  PROVE  \A r \in Rules : AtService(r) <= AtService(r)'
  <1>1. \A r \in Rules : AtService(r)' = AtService(r) /\ AtService(r) \in Nat
    BY Versions DEF AtService, CardInv
  <1> QED
    BY <1>1

LEMMA RoleLostStep ==
  ASSUME CardInv, RoleLost
  PROVE  CardInv'
  <1>1. /\ operator' \in BOOLEAN
        /\ UNCHANGED <<rules, versioned, snapshot, local, writes, adrift, refresh, composer, told>>
    BY DEF RoleLost
  <1>2. CardTyped' /\ CreatedInv'
    BY <1>1 DEF CardInv, CardTyped, CreatedInv
  <1> QED
    BY <1>1, <1>2, ServiceRests, CardMoves

LEMMA ComposerStep ==
  ASSUME CardInv, composer' \in ComposerRow, composer'.pending # "accepted",
         UNCHANGED <<rules, operator, versioned, snapshot, local, writes, adrift, refresh, told>>
  PROVE  CardInv'
  <1>1. CardTyped' /\ CreatedInv'
    BY DEF CardInv, CardTyped, CreatedInv
  <1> QED
    BY <1>1, ServiceRests, CardMoves

LEMMA ComposingStep ==
  ASSUME CardInv, ComposerOpens \/ Propose \/ Confirm \/ WordsChanged
  PROVE  CardInv'
  <1>1. composer \in ComposerRow
    BY DEF CardInv, CardTyped
  <1>2. UNCHANGED <<rules, operator, versioned, snapshot, local, writes, adrift, refresh, told>>
    BY DEF ComposerOpens, Propose, Confirm, WordsChanged
  <1>3. CASE composer.pending # "accepted"
    <2>1. composer' \in ComposerRow /\ composer'.pending # "accepted"
      <3>1. CASE ComposerOpens
        BY <1>1, <1>3, <3>1 DEF ComposerOpens, ComposerRow
      <3>2. CASE Propose
        BY <1>1, <1>3, <3>2 DEF Propose, ComposerRow
      <3>3. CASE Confirm
        BY <1>1, <1>3, <3>3 DEF Confirm, ComposerRow
      <3>4. CASE WordsChanged
        <4>1. CASE composer' = Closed
          <5>1. Closed.pending = "none"
            BY DEF Closed
          <5> QED
            BY <4>1, <5>1, EmptyRows
        <4>2. CASE composer' = [composer EXCEPT !.proposal = "none"]
          BY <1>1, <1>3, <4>2 DEF ComposerRow
        <4> QED
          BY <3>4, <4>1, <4>2 DEF WordsChanged
      <3> QED
        BY <3>1, <3>2, <3>3, <3>4
    <2> QED
      BY <1>2, <2>1, ComposerStep
  <1>4. CASE composer.pending = "accepted"
    <2>1. ComposerOpens /\ composer' = [composer EXCEPT !.open = TRUE]
      BY <1>4 DEF ComposerOpens, Propose, Confirm, WordsChanged
    <2>2. composer' \in ComposerRow /\ composer'.answer = composer.answer
      BY <1>1, <2>1 DEF ComposerRow
    <2>3. CardTyped'
      BY <1>2, <2>2 DEF CardInv, CardTyped
    <2>4. CreatedInv'
      BY <1>2, <1>4, <2>2 DEF CardInv, CreatedInv
    <2> QED
      BY <1>2, <2>3, <2>4, ServiceRests, CardMoves
  <1> QED
    BY <1>3, <1>4

LEMMA ConfirmHandledStep ==
  ASSUME CardInv, ConfirmHandled
  PROVE  CardInv'
  <1>1. composer \in ComposerRow /\ rules \in [Rules -> ActionRow] /\ NewRule \in Rules
    BY RuleCardAssumption DEF CardInv, CardTyped
  <1>2. UNCHANGED <<operator, versioned, snapshot, local, writes, adrift, refresh, told>>
    BY DEF ConfirmHandled
  <1>3. CASE composer' = [composer EXCEPT !.pending = "refused"] /\ UNCHANGED rules
    <2>1. composer' \in ComposerRow /\ composer'.pending # "accepted"
      BY <1>1, <1>3 DEF ComposerRow
    <2> QED
      BY <1>2, <1>3, <2>1, ComposerStep
  <1>4. CASE /\ rules' = IF Exists(rules[NewRule]) THEN rules
                         ELSE [rules EXCEPT ![NewRule] = [version |-> 1, enabled |-> TRUE]]
             /\ composer' = [composer EXCEPT !.pending = "accepted", !.answer = rules'[NewRule]]
    <2>1. \A q \in Rules : rules[q].version \in Nat
      BY <1>1 DEF ActionRow
    <2>2. PICK a : a = [version |-> 1, enabled |-> TRUE]
      OBVIOUS
    <2>3. a \in ActionRow /\ a.version = 1
      BY <2>2 DEF ActionRow
    <2>4. rules' \in [Rules -> ActionRow] /\ Exists(rules'[NewRule]) /\ \A q \in Rules : AtService(q) <= AtService(q)'
      BY <1>1, <1>4, <2>1, <2>2, <2>3 DEF AtService, Exists
    <2>5. composer' \in ComposerRow /\ composer'.answer = rules'[NewRule]
      BY <1>1, <1>4, <2>4 DEF ComposerRow
    <2>6. CardTyped'
      BY <1>2, <2>4, <2>5 DEF CardInv, CardTyped
    <2>7. CreatedInv'
      BY <2>4, <2>5 DEF CreatedInv
    <2> QED
      BY <1>2, <2>4, <2>6, <2>7, CardMoves
  <1> QED
    BY <1>3, <1>4 DEF ConfirmHandled

LEMMA ToggleStep ==
  ASSUME CardInv, NEW r \in Rules, Toggle(r)
  PROVE  CardInv'
  <1>1. UNCHANGED <<rules, operator, versioned, snapshot, adrift, refresh, composer, told>>
    BY DEF Toggle
  <1>2. local \in LocalRow /\ snapshot.rules[r] \in ActionRow /\ writes \in [Rules -> WriteRow]
    BY DEF CardInv, CardTyped
  <1>3. Row(r).action \in ActionRow
    <2>1. Base(snapshot.rules[r], local, r) \in ActionRow
      BY <1>2 DEF Base, LocalRow, ConfirmedRow
    <2>2. local.attempt[r].action \in ActionRow
      BY <1>2 DEF LocalRow, AttemptRow
    <2> QED
      BY <2>1, <2>2 DEF Row
  <1>4. PICK next : next = [Row(r).action EXCEPT !.enabled = ~@]
    OBVIOUS
  <1>5. next \in ActionRow /\ next.enabled \in BOOLEAN
    BY <1>3, <1>4 DEF ActionRow
  <1>6. PICK t : t = [action |-> next, state |-> "writing"]
    OBVIOUS
  <1>7. t \in AttemptRow
    BY <1>5, <1>6 DEF AttemptRow
  <1>8. local' = [local EXCEPT !.attempt[r] = t]
    BY <1>4, <1>6 DEF Toggle, StartWrite
  <1>9. local' \in LocalRow /\ local'.confirmed = local.confirmed /\ local'.added = local.added
    BY <1>2, <1>7, <1>8 DEF LocalRow
  <1>10. PICK w : w = [NoWrite EXCEPT !.pc = "sent", !.enabled = next.enabled, !.generation = local.generation]
    OBVIOUS
  <1>11. w \in WriteRow /\ w.pc = "sent"
    BY <1>2, <1>5, <1>10, EmptyRows DEF WriteRow, LocalRow
  <1>12. writes' = [writes EXCEPT ![r] = w]
    BY <1>4, <1>10 DEF Toggle
  <1>13. CardTyped'
    BY <1>1, <1>2, <1>9, <1>11, <1>12 DEF CardInv, CardTyped
  <1>14. CreatedInv'
    BY <1>1 DEF CardInv, CreatedInv
  <1>15. \A q \in Rules : writes'[q] = writes[q] \/ AnswerInv(q)'
    BY <1>2, <1>11, <1>12 DEF AnswerInv
  <1> QED
    BY <1>1, <1>9, <1>13, <1>14, <1>15, ServiceRests, CardMoves

LEMMA ToggleHandledStep ==
  ASSUME CardInv, NEW r \in Rules, ToggleHandled(r)
  PROVE  CardInv'
  <1>1. UNCHANGED <<operator, versioned, snapshot, local, adrift, refresh, composer, told>>
    BY DEF ToggleHandled
  <1>2. writes \in [Rules -> WriteRow] /\ writes[r] \in WriteRow /\ writes[r].enabled \in BOOLEAN
    BY DEF CardInv, CardTyped, WriteRow
  <1>3. CASE writes' = [writes EXCEPT ![r].pc = "refused"] /\ UNCHANGED rules
    <2>1. PICK w : w = [writes[r] EXCEPT !.pc = "refused"]
      OBVIOUS
    <2>2. w \in WriteRow /\ w.pc = "refused" /\ writes' = [writes EXCEPT ![r] = w]
      BY <1>2, <1>3, <2>1 DEF WriteRow
    <2>3. CardTyped' /\ CreatedInv'
      BY <1>1, <1>2, <1>3, <2>2 DEF CardInv, CardTyped, CreatedInv
    <2>4. \A q \in Rules : writes'[q] = writes[q] \/ AnswerInv(q)'
      BY <1>2, <2>2 DEF AnswerInv
    <2> QED
      BY <1>1, <1>3, <2>3, <2>4, ServiceRests, CardMoves
  <1>4. CASE /\ rules' = [rules EXCEPT ![r] = Written(r, writes[r].enabled)]
             /\ writes' = [writes EXCEPT ![r].pc = "accepted", ![r].answer = rules'[r]]
    <2>1. /\ rules' \in [Rules -> ActionRow] /\ AtService(r)' = AtService(r) + 1
          /\ \A q \in Rules : AtService(q) <= AtService(q)'
          /\ \A q \in Rules : Exists(rules[q]) => Exists(rules'[q])
      BY <1>2, <1>4, Grows
    <2>2. PICK w : w = [writes[r] EXCEPT !.pc = "accepted", !.answer = rules'[r]]
      OBVIOUS
    <2>3. w \in WriteRow /\ w.pc = "accepted" /\ w.answer = rules'[r]
      BY <1>2, <2>1, <2>2 DEF WriteRow
    <2>4. writes' = [writes EXCEPT ![r] = w]
      <3>1. PICK v : v = [writes EXCEPT ![r].pc = "accepted"]
        OBVIOUS
      <3>2. writes' = [v EXCEPT ![r].answer = rules'[r]]
        BY <1>4, <3>1
      <3>3. v = [writes EXCEPT ![r] = [writes[r] EXCEPT !.pc = "accepted"]]
        BY <3>1
      <3>4. v[r] = [writes[r] EXCEPT !.pc = "accepted"] /\ v = [q \in Rules |-> IF q = r THEN v[r] ELSE writes[q]]
        BY <1>2, <3>3
      <3>5. writes' = [v EXCEPT ![r] = [v[r] EXCEPT !.answer = rules'[r]]]
        BY <3>2
      <3>6. w = [v[r] EXCEPT !.answer = rules'[r]]
        BY <1>2, <2>2, <3>4 DEF WriteRow
      <3> QED
        BY <1>2, <3>4, <3>5, <3>6
    <2>5. CardTyped'
      BY <1>1, <1>2, <2>1, <2>3, <2>4 DEF CardInv, CardTyped
    <2>6. CreatedInv'
      BY <1>1, <2>1, RuleCardAssumption DEF CardInv, CreatedInv
    <2>7. AnswerInv(r)'
      <3>1. AtService(r) \in Nat /\ told[r] \in Nat /\ told[r] <= AtService(r)
        BY Versions DEF CardInv, RuleInv
      <3>2. writes'[r].answer.version = AtService(r) + 1
        BY <1>2, <2>1, <2>3, <2>4 DEF AtService
      <3>3. told'[r] = told[r]
        BY <1>1
      <3> QED
        BY <2>1, <3>1, <3>2, <3>3 DEF AnswerInv
    <2>8. \A q \in Rules : writes'[q] = writes[q] \/ AnswerInv(q)'
      BY <1>2, <2>4, <2>7
    <2> QED
      BY <1>1, <2>1, <2>5, <2>6, <2>8, CardMoves
  <1> QED
    BY <1>3, <1>4 DEF ToggleHandled

LEMMA AskedTyped ==
  ASSUME CardInv
  PROVE  Asked \in RefreshRow /\ (Asked.pc # "read" \/ (Asked.pc = refresh.pc /\ Asked.rules = refresh.rules))
  <1>1. refresh \in RefreshRow
    BY DEF CardInv, CardTyped
  <1>2. CASE refresh.pc = "none"
    BY <1>1, <1>2 DEF Asked, RefreshRow
  <1>3. CASE refresh.pc # "none"
    BY <1>1, <1>3 DEF Asked, RefreshRow
  <1> QED
    BY <1>2, <1>3

LEMMA RefreshingStep ==
  ASSUME CardInv, RefreshAsked \/ RefreshRead
  PROVE  CardInv'
  <1>1. UNCHANGED <<rules, operator, versioned, snapshot, local, writes, adrift, composer, told>>
    BY DEF RefreshAsked, RefreshRead
  <1>2. refresh \in RefreshRow /\ rules \in [Rules -> ActionRow] /\ operator \in BOOLEAN
    BY DEF CardInv, CardTyped
  <1>3. CreatedInv'
    BY <1>1 DEF CardInv, CreatedInv
  <1>4. CASE RefreshAsked
    <2>1. refresh' = Asked
      BY <1>4 DEF RefreshAsked
    <2>2. refresh' \in RefreshRow /\ (refresh'.pc # "read" \/ (refresh'.pc = refresh.pc /\ refresh'.rules = refresh.rules))
      BY <2>1, AskedTyped
    <2>3. CardTyped'
      BY <1>1, <2>2 DEF CardInv, CardTyped
    <2> QED
      BY <1>1, <1>3, <2>2, <2>3, ServiceRests, CardMoves
  <1>5. CASE RefreshRead
    <2>1. PICK f : f = [refresh EXCEPT !.pc = "read", !.rules = rules, !.may = operator]
      OBVIOUS
    <2>2. f \in RefreshRow /\ f.rules = rules /\ refresh' = f
      BY <1>2, <1>5, <2>1 DEF RefreshRow, RefreshRead
    <2>3. CardTyped'
      BY <1>1, <2>2 DEF CardInv, CardTyped
    <2>4. ASSUME NEW q \in Rules PROVE RefreshInv(q)'
      <3>1. InSnapshot(q) <= AtService(q) /\ AtService(q) \in Nat
        BY Versions DEF CardInv, RuleInv
      <3>2. InSnapshot(q)' = InSnapshot(q) /\ AtService(q)' = AtService(q) /\ refresh'.rules[q].version = AtService(q)
        BY <1>1, <2>2 DEF InSnapshot, AtService
      <3> QED
        BY <3>1, <3>2 DEF RefreshInv
    <2> QED
      BY <1>1, <1>3, <2>3, <2>4, ServiceRests, CardMoves
  <1> QED
    BY <1>4, <1>5

\* The greater of two versions.
LEMMA NewestBound ==
  ASSUME NEW a \in Nat, NEW b \in Nat
  PROVE  Newest(a, b) \in Nat /\ a <= Newest(a, b) /\ b <= Newest(a, b) /\ Newest(a, b) \in {a, b}
  BY DEF Newest

\* An accepted response becomes the baseline, or the snapshot carries it already.
LEMMA FinishSound ==
  ASSUME CardInv, NEW r \in Rules, NEW data \in ActionRow, NEW g \in Nat,
         NEW l, l = FinishWrite(local, r, data, snapshot.rules[r], g)
  PROVE  /\ l \in LocalRow /\ l.added = local.added
         /\ \A q \in Rules \ {r} : l.confirmed[q] = local.confirmed[q]
         /\ versioned => \/ l.confirmed[r].action.version = data.version
                         \/ data.version <= InSnapshot(r)
         /\ versioned => \/ l.confirmed[r].action.version >= InResponse(r)
                         \/ l.confirmed[r].action.version = data.version
                         \/ InResponse(r) <= InSnapshot(r)
  <1>1. local \in LocalRow /\ snapshot.rules[r] \in ActionRow /\ local.confirmed \in [Rules -> ConfirmedRow]
        /\ local.attempt \in [Rules -> AttemptRow] /\ local.generation \in Nat /\ local.confirmed[r] \in ConfirmedRow
    BY DEF CardInv, CardTyped, LocalRow
  <1>2. PICK settled : settled = [action |-> data, generation |-> g]
    OBVIOUS
  <1>3. PICK stale \in BOOLEAN :
          stale = (local.generation # g /\ Supersedes(snapshot.rules[r], settled, local.generation))
    OBVIOUS
  <1>4. PICK c : c = IF ~stale THEN [action |-> data, generation |-> local.generation]
                     ELSE IF Supersedes(snapshot.rules[r], local.confirmed[r], local.generation) THEN NoConfirmed
                     ELSE local.confirmed[r]
    OBVIOUS
  <1>5. l = [local EXCEPT !.attempt[r] = NoAttempt, !.confirmed[r] = c]
    BY <1>2, <1>3, <1>4 DEF FinishWrite
  <1>6. c \in ConfirmedRow
    BY <1>1, <1>4, EmptyRows DEF ConfirmedRow
  <1>7. l \in LocalRow /\ l.added = local.added /\ l.confirmed = [local.confirmed EXCEPT ![r] = c]
    <2>1. PICK m : m = [local EXCEPT !.attempt[r] = NoAttempt]
      OBVIOUS
    <2>2. m \in LocalRow /\ m.added = local.added /\ m.confirmed = local.confirmed
      BY <1>1, <2>1, EmptyRows DEF LocalRow
    <2>3. l = [m EXCEPT !.confirmed[r] = c]
      BY <1>5, <2>1
    <2> QED
      BY <1>6, <2>2, <2>3 DEF LocalRow
  <1>8. l.confirmed[r] = c /\ \A q \in Rules \ {r} : l.confirmed[q] = local.confirmed[q]
    BY <1>1, <1>7
  <1>9. CASE ~stale
    <2>1. c.action.version = data.version
      BY <1>4, <1>9
    <2> QED
      BY <1>7, <1>8, <2>1
  <1>10. CASE stale
    <2>1. versioned => data.version <= InSnapshot(r)
      <3>1. settled.action.version = data.version /\ data.version \in Nat /\ InSnapshot(r) \in Nat
        BY <1>2, Versions DEF CardInv, ActionRow
      <3> QED
        BY <1>3, <1>10, <3>1 DEF Supersedes, InSnapshot
    <2>2. versioned => c.action.version >= InResponse(r) \/ InResponse(r) <= InSnapshot(r)
      <3>1. InSnapshot(r) \in Nat /\ InResponse(r) \in Nat
        BY Versions DEF CardInv
      <3>2. CASE Supersedes(snapshot.rules[r], local.confirmed[r], local.generation)
        BY <3>1, <3>2 DEF Supersedes, InSnapshot, InResponse
      <3>3. CASE ~Supersedes(snapshot.rules[r], local.confirmed[r], local.generation)
        BY <1>4, <1>10, <3>1, <3>3 DEF InResponse
      <3> QED
        BY <3>2, <3>3
    <2> QED
      BY <1>7, <1>8, <2>1, <2>2
  <1> QED
    BY <1>9, <1>10

LEMMA ToggleAccepted ==
  ASSUME CardInv, NEW r \in Rules, writes[r].pc = "accepted", writes' = [writes EXCEPT ![r] = NoWrite],
         local' = FinishWrite(local, r, writes[r].answer, snapshot.rules[r], writes[r].generation),
         told' = [told EXCEPT ![r] = Newest(@, writes[r].answer.version)],
         UNCHANGED <<rules, operator, versioned, snapshot, adrift, refresh, composer>>
  PROVE  CardInv'
  <1>1. writes[r].answer \in ActionRow /\ writes[r].generation \in Nat /\ told \in [Rules -> Nat]
        /\ writes \in [Rules -> WriteRow]
    BY DEF CardInv, CardTyped, WriteRow
  <1>2. PICK d : d = writes[r].answer.version
    OBVIOUS
  <1>3. d \in Nat /\ d <= AtService(r) /\ (told[r] <= d \/ told[r] <= InSnapshot(r)) /\ AtService(r) \in Nat
        /\ InSnapshot(r) \in Nat /\ InResponse(r) \in Nat /\ told[r] \in Nat /\ told[r] <= AtService(r)
    BY <1>2, Versions DEF CardInv, RuleInv, AnswerInv
  <1>4. PICK n : n = Newest(told[r], d)
    OBVIOUS
  <1>5. told' = [told EXCEPT ![r] = n]
    BY <1>2, <1>4
  <1>6. n \in Nat /\ n \in {told[r], d} /\ told[r] <= n /\ d <= n
    BY <1>3, <1>4, NewestBound
  <1>7. /\ local' \in LocalRow /\ local'.added = local.added
        /\ \A q \in Rules \ {r} : local'.confirmed[q] = local.confirmed[q]
        /\ versioned => InResponse(r)' = d \/ d <= InSnapshot(r)
    BY <1>1, <1>2, FinishSound DEF InResponse
  <1>8. CardTyped'
    BY <1>1, <1>5, <1>6, <1>7, EmptyRows DEF CardInv, CardTyped
  <1>9. CreatedInv'
    BY DEF CardInv, CreatedInv
  <1>10. \A q \in Rules : AtService(q)' = AtService(q) /\ InSnapshot(q)' = InSnapshot(q) /\ AsCreated(q)' = AsCreated(q)
    BY <1>7 DEF AtService, InSnapshot, AsCreated
  <1>11. \A q \in Rules : RefreshInv(q)'
    BY <1>10 DEF CardInv, RuleInv, RefreshInv
  <1>12. RuleInv(r)'
    <2>1. told'[r] = n
      BY <1>1, <1>5
    <2>2. AnswerInv(r)'
      BY <1>1 DEF AnswerInv, NoWrite
    <2>3. n <= AtService(r) /\ (n <= d \/ n <= InSnapshot(r))
      BY <1>3, <1>6
    <2>4. ToldInv(r)'
      BY <1>3, <1>6, <1>7, <1>10, <2>1, <2>3 DEF ToldInv
    <2> QED
      BY <1>10, <1>11, <2>1, <2>2, <2>3, <2>4 DEF RuleInv, CardInv
  <1>13. ASSUME NEW q \in Rules \ {r} PROVE RuleInv(q)'
    <2>1. told'[q] = told[q] /\ writes'[q] = writes[q] /\ InResponse(q)' = InResponse(q)
      BY <1>1, <1>5, <1>7 DEF InResponse
    <2>2. RuleInv(q)
      BY DEF CardInv
    <2> QED
      BY <1>10, <1>11, <2>1, <2>2 DEF RuleInv, AnswerInv, ToldInv
  <1> QED
    BY <1>8, <1>9, <1>12, <1>13 DEF CardInv

LEMMA ToggleSettledStep ==
  ASSUME CardInv, NEW r \in Rules, ToggleSettled(r)
  PROVE  CardInv'
  <1>1. UNCHANGED <<rules, operator, versioned, snapshot, composer>> /\ writes' = [writes EXCEPT ![r] = NoWrite]
    BY DEF ToggleSettled
  <1>2. local \in LocalRow /\ writes \in [Rules -> WriteRow] /\ local.attempt \in [Rules -> AttemptRow]
        /\ writes[r].enabled \in BOOLEAN
    BY DEF CardInv, CardTyped, LocalRow, WriteRow
  <1>3. CASE /\ writes[r].pc = "accepted"
             /\ local' = FinishWrite(local, r, writes[r].answer, snapshot.rules[r], writes[r].generation)
             /\ told' = [told EXCEPT ![r] = Newest(@, writes[r].answer.version)]
             /\ UNCHANGED <<adrift, refresh>>
    BY <1>1, <1>3, ToggleAccepted
  <1>4. CASE /\ local' = RefuseWrite(local, r) \/ local' = LoseWrite(local, r, local.attempt[r].action)
             /\ UNCHANGED refresh \/ refresh' = Asked
             /\ adrift' \subseteq adrift \cup {<<r, writes[r].enabled>>} /\ UNCHANGED told
    <2>1. local' \in LocalRow /\ local'.confirmed = local.confirmed /\ local'.added = local.added
      <3>1. CASE local' = RefuseWrite(local, r)
        BY <1>2, <3>1, EmptyRows DEF RefuseWrite, LocalRow
      <3>2. CASE local' = LoseWrite(local, r, local.attempt[r].action)
        <4>1. PICK t : t = [action |-> local.attempt[r].action, state |-> "unknown"]
          OBVIOUS
        <4>2. t \in AttemptRow
          BY <1>2, <4>1 DEF AttemptRow
        <4>3. local' = [local EXCEPT !.attempt[r] = t]
          BY <3>2, <4>1 DEF LoseWrite
        <4> QED
          BY <1>2, <4>2, <4>3 DEF LocalRow
      <3> QED
        BY <1>4, <3>1, <3>2
    <2>2. refresh' \in RefreshRow /\ (refresh'.pc # "read" \/ (refresh'.pc = refresh.pc /\ refresh'.rules = refresh.rules))
      BY <1>4, AskedTyped DEF CardInv, CardTyped
    <2>3. adrift' \subseteq Rules \X BOOLEAN
      BY <1>2, <1>4 DEF CardInv, CardTyped
    <2>4. CardTyped'
      BY <1>1, <1>2, <1>4, <2>1, <2>2, <2>3, EmptyRows DEF CardInv, CardTyped
    <2>5. CreatedInv'
      BY <1>1 DEF CardInv, CreatedInv
    <2>6. \A q \in Rules : writes'[q] = writes[q] \/ AnswerInv(q)'
      BY <1>1, <1>2 DEF AnswerInv, NoWrite
    <2> QED
      BY <1>1, <1>4, <2>1, <2>2, <2>4, <2>5, <2>6, ServiceRests, CardMoves
  <1> QED
    BY <1>3, <1>4 DEF ToggleSettled

\* A snapshot drops what it carries and nothing else.
LEMMA ReconcileSound ==
  ASSUME CardInv, NEW server \in [Rules -> ActionRow], NEW l, l = Reconcile(server, local)
  PROVE  /\ l \in LocalRow
         /\ \A q \in Rules : /\ versioned => \/ l.confirmed[q] = local.confirmed[q]
                                             \/ InResponse(q) <= server[q].version
                             /\ l.added[q] = local.added[q] \/ server[q].version >= 1
  <1>1. local \in LocalRow /\ local.confirmed \in [Rules -> ConfirmedRow] /\ local.attempt \in [Rules -> AttemptRow]
        /\ local.generation \in Nat /\ local.added \in [Rules -> ActionRow]
    BY DEF CardInv, CardTyped, LocalRow
  <1>2. PICK g : g = local.generation + 1
    OBVIOUS
  <1>3. g \in Nat
    BY <1>1, <1>2
  <1>4. PICK cs : cs = [q \in Rules |-> IF Supersedes(server[q], local.confirmed[q], g) THEN NoConfirmed ELSE local.confirmed[q]]
    OBVIOUS
  <1>5. PICK ts : ts = [q \in Rules |-> IF local.attempt[q].state = "writing" THEN local.attempt[q] ELSE NoAttempt]
    OBVIOUS
  <1>6. PICK as : as = [q \in Rules |-> IF Exists(server[q]) THEN NoRule ELSE local.added[q]]
    OBVIOUS
  <1>7. l = [confirmed |-> cs, attempt |-> ts, added |-> as, generation |-> g]
    BY <1>2, <1>4, <1>5, <1>6 DEF Reconcile
  <1>8. cs \in [Rules -> ConfirmedRow] /\ ts \in [Rules -> AttemptRow] /\ as \in [Rules -> ActionRow]
    BY <1>1, <1>4, <1>5, <1>6, EmptyRows
  <1>9. l \in LocalRow /\ l.confirmed = cs /\ l.added = as
    <2>1. l.confirmed = cs /\ l.added = as
      BY <1>7
    <2>2. [confirmed |-> cs, attempt |-> ts, added |-> as, generation |-> g] \in LocalRow
      BY <1>3, <1>8 DEF LocalRow
    <2> QED
      BY <1>7, <2>1, <2>2
  <1>10. ASSUME NEW q \in Rules
         PROVE  /\ versioned => cs[q] = local.confirmed[q] \/ InResponse(q) <= server[q].version
                /\ as[q] = local.added[q] \/ server[q].version >= 1
    <2>1. server[q].version \in Nat /\ InResponse(q) \in Nat
      BY Versions DEF CardInv, ActionRow
    <2>2. versioned => cs[q] = local.confirmed[q] \/ InResponse(q) <= server[q].version
      BY <1>4, <2>1 DEF Supersedes, InResponse
    <2>3. as[q] = local.added[q] \/ server[q].version >= 1
      BY <1>6, <2>1 DEF Exists
    <2> QED
      BY <2>2, <2>3
  <1> QED
    BY <1>9, <1>10

LEMMA RefreshShownStep ==
  ASSUME CardInv, RefreshShown
  PROVE  CardInv'
  <1>1. PICK s : s = refresh.rules
    OBVIOUS
  <1>2. s \in [Rules -> ActionRow] /\ refresh \in RefreshRow /\ refresh.may \in BOOLEAN /\ refresh.pc = "read"
    BY <1>1 DEF CardInv, CardTyped, RefreshRow, RefreshShown
  <1>3. /\ snapshot' = [rules |-> s, may |-> refresh.may] /\ local' = Reconcile(s, local)
        /\ told' = [q \in Rules |-> Newest(told[q], s[q].version)]
        /\ composer' = IF refresh.may THEN composer ELSE Closed
        /\ UNCHANGED <<rules, operator, versioned, writes, adrift>>
    BY <1>1 DEF RefreshShown
  <1>4. PICK pc \in {"none", "asked"} : refresh' = [NoRefresh EXCEPT !.pc = pc]
    BY DEF RefreshShown
  <1>5. refresh' \in RefreshRow /\ refresh'.pc # "read"
    BY <1>4, EmptyRows DEF RefreshRow
  <1>6. /\ local' \in LocalRow
        /\ \A q \in Rules : /\ versioned => \/ local'.confirmed[q] = local.confirmed[q]
                                            \/ InResponse(q) <= s[q].version
                            /\ local'.added[q] = local.added[q] \/ s[q].version >= 1
    BY <1>2, <1>3, ReconcileSound
  <1>7. snapshot' \in [rules : [Rules -> ActionRow], may : BOOLEAN] /\ snapshot'.rules = s
    BY <1>2, <1>3
  <1>8. composer' \in ComposerRow /\ (composer'.pending = "accepted" => composer' = composer)
    <2>1. Closed.pending = "none" /\ composer \in ComposerRow
      BY DEF Closed, CardInv, CardTyped
    <2> QED
      BY <1>3, <2>1, EmptyRows
  <1>9. ASSUME NEW q \in Rules
        PROVE  /\ told'[q] \in Nat /\ told'[q] \in {told[q], s[q].version} /\ told[q] <= told'[q]
               /\ s[q].version <= told'[q]
    <2>1. told[q] \in Nat /\ s[q].version \in Nat
      BY <1>2, Versions DEF CardInv, ActionRow
    <2>2. told'[q] = Newest(told[q], s[q].version)
      BY <1>3
    <2> QED
      BY <2>1, <2>2, NewestBound
  <1>10. told' \in [Rules -> Nat]
    <2>1. told' = [q \in Rules |-> told'[q]]
      BY <1>3
    <2> QED
      BY <1>9, <2>1
  <1>11. CardTyped'
    BY <1>3, <1>5, <1>6, <1>7, <1>8, <1>10 DEF CardInv, CardTyped
  <1>12. CreatedInv'
    BY <1>3, <1>8 DEF CardInv, CreatedInv
  <1>13. ASSUME NEW q \in Rules PROVE RuleInv(q)'
    <2>1. RuleInv(q) /\ AtService(q) \in Nat /\ InSnapshot(q) \in Nat /\ InResponse(q) \in Nat /\ AsCreated(q) \in Nat
          /\ told[q] \in Nat /\ writes[q].answer.version \in Nat /\ s[q].version \in Nat
      BY <1>1, Versions DEF CardInv
    <2>2. AtService(q)' = AtService(q) /\ InSnapshot(q)' = s[q].version /\ writes'[q] = writes[q]
      BY <1>3, <1>7 DEF AtService, InSnapshot
    <2>3. InSnapshot(q) <= s[q].version /\ s[q].version <= AtService(q) /\ told[q] <= AtService(q)
      BY <1>1, <1>2, <2>1 DEF RuleInv, RefreshInv
    <2>4. told'[q] <= AtService(q)
      BY <1>9, <2>3
    <2>5. RefreshInv(q)'
      BY <1>5 DEF RefreshInv
    <2>6. AnswerInv(q)'
      BY <1>9, <2>1, <2>2, <2>3 DEF RuleInv, AnswerInv
    <2>7. ToldInv(q)'
      <3>1. CASE told'[q] <= s[q].version
        BY <2>2, <3>1 DEF ToldInv
      <3>2. CASE ~(told'[q] <= s[q].version) /\ versioned
        <4>1. told'[q] = told[q] /\ ~(told[q] <= InSnapshot(q))
          BY <1>9, <2>1, <2>3, <3>2
        <4>2. CASE told[q] <= InResponse(q)
          <5>1. local'.confirmed[q] = local.confirmed[q]
            BY <1>6, <2>1, <3>2, <4>1, <4>2
          <5> QED
            BY <4>1, <4>2, <5>1 DEF ToldInv, InResponse
        <4>3. CASE told[q] <= 1 /\ AsCreated(q) >= 1
          <5>1. local'.added[q] = local.added[q]
            BY <1>6, <2>1, <3>2, <4>1, <4>3
          <5> QED
            BY <4>1, <4>3, <5>1 DEF ToldInv, AsCreated
        <4> QED
          BY <2>1, <3>2, <4>1, <4>2, <4>3 DEF RuleInv, ToldInv
      <3>3. CASE ~versioned
        BY <1>3, <3>3 DEF ToldInv
      <3> QED
        BY <3>1, <3>2, <3>3
    <2> QED
      BY <2>2, <2>3, <2>4, <2>5, <2>6, <2>7 DEF RuleInv
  <1> QED
    BY <1>11, <1>12, <1>13 DEF CardInv

LEMMA ConfirmSettledStep ==
  ASSUME CardInv, ConfirmSettled
  PROVE  CardInv'
  <1>1. UNCHANGED <<rules, operator, versioned, snapshot, writes, adrift, refresh>>
    BY DEF ConfirmSettled
  <1>2. composer \in ComposerRow /\ local \in LocalRow /\ told \in [Rules -> Nat] /\ NewRule \in Rules
    BY RuleCardAssumption DEF CardInv, CardTyped
  <1>3. CASE /\ UNCHANGED <<local, told>>
             /\ \/ composer' = [composer EXCEPT !.pending = "none", !.proposal = "none"]
                \/ composer' = [composer EXCEPT !.pending = "none", !.answer = NoRule]
    <2>1. composer' \in ComposerRow /\ composer'.pending # "accepted"
      BY <1>2, <1>3, EmptyRows DEF ComposerRow
    <2> QED
      BY <1>1, <1>3, <2>1, ComposerStep
  <1>4. CASE /\ composer.pending = "accepted" /\ composer' = Closed
             /\ local' = WithAdded(local, NewRule, composer.answer)
             /\ told' = [told EXCEPT ![NewRule] = Newest(@, 1)]
    <2>1. composer.answer \in ActionRow /\ composer.answer.version # 0 /\ AtService(NewRule) # 0
      BY <1>2, <1>4 DEF CardInv, CreatedInv, ComposerRow, Exists, AtService
    <2>2. PICK n : n = Newest(told[NewRule], 1)
      OBVIOUS
    <2>3. n \in Nat /\ n \in {told[NewRule], 1} /\ told[NewRule] <= n
      BY <1>2, <2>2, NewestBound
    <2>4. told' = [told EXCEPT ![NewRule] = n]
      BY <1>4, <2>2
    <2>5. local' \in LocalRow /\ local'.confirmed = local.confirmed
          /\ local'.added = [local.added EXCEPT ![NewRule] = composer.answer]
      BY <1>2, <1>4, <2>1 DEF WithAdded, LocalRow
    <2>6. CardTyped'
      BY <1>1, <1>2, <1>4, <2>3, <2>4, <2>5, EmptyRows DEF CardInv, CardTyped
    <2>7. CreatedInv'
      BY <1>4 DEF CreatedInv, Closed
    <2>8. ASSUME NEW q \in Rules PROVE RuleInv(q)'
      <3>1. RuleInv(q) /\ AtService(q) \in Nat /\ InSnapshot(q) \in Nat /\ told[q] \in Nat
            /\ writes[q].answer.version \in Nat /\ AsCreated(q) \in Nat /\ InResponse(q) \in Nat
        BY Versions DEF CardInv
      <3>2. AtService(q)' = AtService(q) /\ InSnapshot(q)' = InSnapshot(q) /\ InResponse(q)' = InResponse(q)
            /\ writes'[q] = writes[q]
        BY <1>1, <2>5 DEF AtService, InSnapshot, InResponse
      <3>3. RefreshInv(q)'
        BY <1>1, <3>1, <3>2 DEF RuleInv, RefreshInv
      <3>4. CASE q # NewRule
        <4>1. told'[q] = told[q] /\ AsCreated(q)' = AsCreated(q)
          BY <1>2, <2>4, <2>5, <3>4 DEF AsCreated, LocalRow
        <4>2. AnswerInv(q)' /\ ToldInv(q)'
          BY <1>1, <3>1, <3>2, <4>1 DEF RuleInv, AnswerInv, ToldInv
        <4> QED
          BY <3>1, <3>2, <3>3, <4>1, <4>2 DEF RuleInv
      <3>5. CASE q = NewRule
        <4>1. told'[q] = n
          BY <1>2, <2>4, <3>5
        <4>2. AsCreated(q)' = composer.answer.version
          BY <1>2, <2>5, <3>5 DEF AsCreated, LocalRow
        <4>3. composer.answer.version >= 1 /\ AtService(q) >= 1
          <5>1. composer.answer.version \in Nat
            BY <2>1 DEF ActionRow
          <5> QED
            BY <2>1, <3>1, <3>5, <5>1
        <4>4. n <= AtService(q)
          BY <2>3, <3>1, <3>5, <4>3 DEF RuleInv
        <4>5. n = told[q] \/ (told[q] = 0 /\ n = 1)
          <5>1. told[NewRule] \in Nat
            BY <3>1, <3>5
          <5>2. n = told[NewRule] \/ (told[NewRule] = 0 /\ n = 1)
            BY <2>3, <5>1
          <5> QED
            BY <3>5, <5>2
        <4>6. AnswerInv(q)'
          BY <3>1, <3>2, <4>1, <4>5 DEF RuleInv, AnswerInv
        <4>7. ToldInv(q)'
          BY <1>1, <3>1, <3>2, <4>1, <4>2, <4>3, <4>5 DEF RuleInv, ToldInv
        <4> QED
          BY <3>1, <3>2, <3>3, <4>1, <4>4, <4>6, <4>7 DEF RuleInv
      <3> QED
        BY <3>4, <3>5
    <2> QED
      BY <2>6, <2>7, <2>8 DEF CardInv
  <1> QED
    BY <1>3, <1>4 DEF ConfirmSettled

LEMMA CardStep ==
  ASSUME CardInv, CardNext \/ UNCHANGED cardVars
  PROVE  CardInv'
  <1>1. CASE UNCHANGED cardVars
    <2>1. UNCHANGED <<rules, operator, versioned, snapshot, local, writes, adrift, refresh, composer, told>>
      BY <1>1 DEF cardVars
    <2>2. CardTyped' /\ CreatedInv'
      BY <2>1 DEF CardInv, CardTyped, CreatedInv
    <2> QED
      BY <2>1, <2>2, ServiceRests, CardMoves
  <1>2. CASE CardNext
    BY <1>2, ElsewhereWrittenStep, ToggleStep, ToggleHandledStep, ToggleSettledStep, RoleLostStep, LateWriteStep,
       RefreshingStep, RefreshShownStep, ComposingStep, ConfirmHandledStep, ConfirmSettledStep DEF CardNext
  <1> QED
    BY <1>1, <1>2

LEMMA NewestSound ==
  ASSUME CardInv
  PROVE  NewestShown
  <1> SUFFICES ASSUME versioned, NEW r \in Rules, Row(r).state # "writing", told[r] > 0
               PROVE  Row(r).action.version >= told[r]
    BY DEF NewestShown
  <1>1. local.attempt[r].state # "writing"
    BY DEF Row
  <1>2. Row(r).action = Base(snapshot.rules[r], local, r)
    BY <1>1 DEF Row
  <1>3. InSnapshot(r) \in Nat /\ InResponse(r) \in Nat /\ AsCreated(r) \in Nat /\ told[r] \in Nat /\ ToldInv(r)
    BY Versions DEF CardInv, RuleInv
  <1>4. CASE Exists(local.confirmed[r].action) /\ ~Supersedes(snapshot.rules[r], local.confirmed[r], local.generation)
    <2>1. Row(r).action.version = InResponse(r)
      BY <1>2, <1>4 DEF Base, InResponse
    <2>2. InResponse(r) >= 1 /\ InResponse(r) >= InSnapshot(r)
      BY <1>3, <1>4 DEF Exists, Supersedes, InResponse, InSnapshot
    <2> QED
      BY <1>3, <2>1, <2>2 DEF ToldInv
  <1>5. CASE /\ ~(Exists(local.confirmed[r].action)
                  /\ ~Supersedes(snapshot.rules[r], local.confirmed[r], local.generation))
             /\ Exists(snapshot.rules[r])
    <2>1. Row(r).action.version = InSnapshot(r)
      BY <1>2, <1>5 DEF Base, InSnapshot
    <2>2. InSnapshot(r) >= 1 /\ InSnapshot(r) >= InResponse(r)
      BY <1>3, <1>5 DEF Exists, Supersedes, InResponse, InSnapshot
    <2> QED
      BY <1>3, <2>1, <2>2 DEF ToldInv
  <1>6. CASE ~Exists(local.confirmed[r].action) /\ ~Exists(snapshot.rules[r])
    <2>1. Row(r).action.version = AsCreated(r)
      BY <1>2, <1>6 DEF Base, AsCreated
    <2>2. InSnapshot(r) = 0 /\ InResponse(r) = 0
      BY <1>6 DEF Exists, InSnapshot, InResponse
    <2> QED
      BY <1>3, <2>1, <2>2 DEF ToldInv
  <1> QED
    BY <1>4, <1>5, <1>6 DEF Supersedes

(***************************************************************************)
(* Finite sets of numbers.                                                 *)
(***************************************************************************)
\* Each rank below the cardinality is the rank of one member.
LEMMA Ranks ==
  ASSUME NEW A \in SUBSET Nat, IsFiniteSet(A)
  PROVE  /\ Cardinality(A) \in Nat
         /\ \A m \in A : Cardinality({l \in A : l < m}) \in 0 .. Cardinality(A) - 1
         /\ \A m, n \in A : m < n => Cardinality({l \in A : l < m}) < Cardinality({l \in A : l < n})
         /\ \A i \in 0 .. Cardinality(A) - 1 : \E m \in A : Cardinality({l \in A : l < m}) = i
  <1> DEFINE c == Cardinality(A)
             Below(m) == {l \in A : l < m}
             rank == [m \in A |-> Cardinality(Below(m))]
  <1>1. c \in Nat
    BY FS_CardinalityType
  <1>2. \A m \in A : IsFiniteSet(Below(m)) /\ Cardinality(Below(m)) \in Nat
    <2> TAKE m \in A
    <2>1. Below(m) \in SUBSET A
      OBVIOUS
    <2>2. IsFiniteSet(Below(m))
      BY <2>1, FS_Subset
    <2> QED
      BY <2>2, FS_CardinalityType
  <1>3. ASSUME NEW m \in A PROVE Cardinality(Below(m)) \in 0 .. c - 1
    <2>1. m \notin Below(m) /\ Below(m) \cup {m} \in SUBSET A
      OBVIOUS
    <2>2. Cardinality(Below(m) \cup {m}) = Cardinality(Below(m)) + 1
      BY <1>2, <2>1, FS_AddElement
    <2>3. Cardinality(Below(m) \cup {m}) <= c
      BY <2>1, FS_Subset
    <2> QED
      BY <1>1, <1>2, <2>2, <2>3
  <1>4. ASSUME NEW m \in A, NEW n \in A, m < n
        PROVE  Cardinality(Below(m)) < Cardinality(Below(n))
    <2>0. m \in Nat /\ n \in Nat /\ \A l \in A : l \in Nat /\ (l < m => l < n)
      BY <1>4
    <2>3. m \notin Below(m) /\ m \in Below(n)
      BY <1>4, <2>0
    <2>4. \A l \in Below(m) : l \in Below(n)
      BY <2>0
    <2>1. m \notin Below(m) /\ Below(m) \cup {m} \in SUBSET Below(n)
      BY <2>3, <2>4
    <2>2. Cardinality(Below(m) \cup {m}) = Cardinality(Below(m)) + 1
      BY <1>2, <2>1, FS_AddElement
    <2>5. Cardinality(Below(m) \cup {m}) <= Cardinality(Below(n))
      BY <1>2, <2>1, FS_Subset
    <2> QED
      BY <1>2, <2>2, <2>5
  <1>5. rank \in [A -> 0 .. c - 1] /\ \A m \in A : rank[m] = Cardinality(Below(m))
    BY <1>3
  <1>6. \A m, n \in A : rank[m] = rank[n] => m = n
    <2> SUFFICES ASSUME NEW m \in A, NEW n \in A, m # n PROVE rank[m] # rank[n]
      OBVIOUS
    <2>1. m < n \/ n < m
      OBVIOUS
    <2> QED
      BY <1>2, <1>4, <1>5, <2>1
  <1> HIDE DEF rank
  <1>7. rank \in Injection(A, 0 .. c - 1)
    BY <1>5, <1>6, Fun_IsInj
  <1>8. IsFiniteSet(0 .. c - 1) /\ Cardinality(0 .. c - 1) = c
    <2> DEFINE d == c - 1
    <2>1. d \in Int /\ 0 \in Int
      BY <1>1
    <2> HIDE DEF d
    <2>2. IsFiniteSet(0 .. d) /\ Cardinality(0 .. d) = IF 0 > d THEN 0 ELSE d - 0 + 1
      BY <2>1, FS_Interval
    <2> QED
      BY <1>1, <2>2 DEF d
  <1>9. \A i \in 0 .. c - 1 : \E m \in A : rank[m] = i
    <2> DEFINE T == 0 .. c - 1
    <2>1. rank \in Injection(A, T) /\ IsFiniteSet(T) /\ Cardinality(A) = Cardinality(T)
      BY <1>1, <1>7, <1>8
    <2> HIDE DEF T, c
    <2>2. rank \in Surjection(A, T)
      BY <2>1, FS_Injection
    <2>3. \A i \in T : \E m \in A : rank[m] = i
      BY <2>2 DEF Surjection
    <2> QED
      BY <2>3 DEF T
  <1> QED
    BY <1>1, <1>3, <1>4, <1>5, <1>9

LEMMA Latest ==
  ASSUME NEW S \in SUBSET Nat, IsFiniteSet(S), S # {}
  PROVE  Max(S) \in S /\ \A m \in S : m <= Max(S)
  <1>1. /\ Cardinality(S) \in Nat
        /\ \A m \in S : Cardinality({l \in S : l < m}) \in 0 .. Cardinality(S) - 1
        /\ \A m, n \in S : m < n => Cardinality({l \in S : l < m}) < Cardinality({l \in S : l < n})
        /\ \A i \in 0 .. Cardinality(S) - 1 : \E m \in S : Cardinality({l \in S : l < m}) = i
    BY Ranks
  <1>2. Cardinality(S) # 0
    BY FS_EmptySet
  <1>3. PICK c \in Nat : c = Cardinality(S) /\ c # 0
    BY <1>1, <1>2
  <1>4. PICK m \in S : Cardinality({l \in S : l < m}) = c - 1
    BY <1>1, <1>3
  <1>5. \A n \in S : m >= n
    <2> SUFFICES ASSUME NEW n \in S, m < n PROVE FALSE
      OBVIOUS
    <2>1. PICK k \in 0 .. c - 1 : k = Cardinality({l \in S : l < n})
      BY <1>1, <1>3
    <2>2. c - 1 < k
      BY <1>1, <1>4, <2>1
    <2> QED
      BY <1>3, <2>1, <2>2
  <1>6. \E x \in S : \A y \in S : x >= y
    BY <1>5
  <1>7. Max(S) \in S /\ \A n \in S : Max(S) >= n
    BY <1>6 DEF Max
  <1> QED
    BY <1>7

(***************************************************************************)
(* The live views: what a bounded series keeps.                            *)
(***************************************************************************)
Times == 1 .. MaxTime
Inside(S) == {t \in S : t + Window >= NewestOf(S)}
Above(S, t) == {u \in Inside(S) : u > t}

LEMMA TimesFinite ==
  ASSUME NEW S \in SUBSET Times
  PROVE  S \in SUBSET Nat /\ IsFiniteSet(S) /\ 0 \notin S
  <1>1. MaxTime \in Nat
    BY LiveViewAssumption
  <1>2. IsFiniteSet(1 .. MaxTime)
    BY <1>1, FS_Interval
  <1>3. S \in SUBSET (1 .. MaxTime)
    BY DEF Times
  <1>4. IsFiniteSet(S)
    BY <1>2, <1>3, FS_Subset
  <1> QED
    BY <1>3, <1>4

LEMMA NewestIs ==
  ASSUME NEW S \in SUBSET Times
  PROVE  NewestOf(S) \in S \cup {0} /\ NewestOf(S) \in Nat /\ \A t \in S : t <= NewestOf(S)
  <1>1. S \in SUBSET Nat /\ IsFiniteSet(S)
    BY TimesFinite
  <1>2. CASE S = {}
    BY <1>2 DEF NewestOf
  <1>3. CASE S # {}
    BY <1>1, <1>3, Latest DEF NewestOf
  <1> QED
    BY <1>2, <1>3

LEMMA BoundedIs ==
  ASSUME NEW S \in SUBSET Times
  PROVE  /\ Bounded(S) = {t \in Inside(S) : Cardinality(Above(S, t)) < RAW_CAP}
         /\ Bounded(S) \subseteq Inside(S) /\ Inside(S) \subseteq S
         /\ \A t \in S : IsFiniteSet(Above(S, t)) /\ Cardinality(Above(S, t)) \in Nat
  <1>1. Bounded(S) = {t \in Inside(S) : Cardinality(Above(S, t)) < RAW_CAP}
    BY DEF Bounded, Inside, Above
  <1>2. Inside(S) \subseteq S
    BY DEF Inside
  <1>3. ASSUME NEW t \in S PROVE IsFiniteSet(Above(S, t)) /\ Cardinality(Above(S, t)) \in Nat
    <2>1. Above(S, t) \in SUBSET Times
      BY <1>2 DEF Above
    <2> QED
      BY <2>1, TimesFinite, FS_CardinalityType
  <1> QED
    BY <1>1, <1>2, <1>3

\* A point the whole series keeps is kept by any part of it.
LEMMA StillKept ==
  ASSUME NEW S \in SUBSET Times, NEW X \in SUBSET S, NEW u \in X, u \in Bounded(S)
  PROVE  u \in Bounded(X)
  <1>1. X \in SUBSET Times /\ X \in SUBSET Nat /\ S \in SUBSET Nat /\ Window \in Nat /\ RAW_CAP \in Nat
    BY TimesFinite, LiveViewAssumption
  <1>2. PICK m \in Nat, n \in Nat : m = NewestOf(X) /\ n = NewestOf(S)
    BY <1>1, NewestIs
  <1>3. m <= n
    <2>1. m = 0 \/ m \in S
      BY <1>1, <1>2, NewestIs
    <2> QED
      BY <1>2, <2>1, NewestIs
  <1>4. u \in Nat /\ u + Window >= n /\ Cardinality(Above(S, u)) < RAW_CAP
    BY <1>1, <1>2, BoundedIs DEF Inside
  <1>5. u \in Inside(X)
    BY <1>1, <1>2, <1>3, <1>4 DEF Inside
  <1>6. Above(X, u) \subseteq Above(S, u)
    <2> SUFFICES ASSUME NEW v \in X, v > u PROVE v \in S /\ v + Window >= n
      BY <1>2 DEF Above, Inside
    <2> QED
      BY <1>1, <1>2, <1>4
  <1>7. Cardinality(Above(X, u)) <= Cardinality(Above(S, u))
    BY <1>6, BoundedIs, FS_Subset
  <1>8. Cardinality(Above(X, u)) \in Nat /\ Cardinality(Above(S, u)) \in Nat
    BY <1>1, BoundedIs
  <1>9. Cardinality(Above(X, u)) < RAW_CAP
    BY <1>1, <1>4, <1>7, <1>8
  <1> QED
    BY <1>1, <1>5, <1>9, BoundedIs

\* The newest points of a series are enough to know which ones it keeps.
LEMMA KeptIsEnough ==
  ASSUME NEW S \in SUBSET Times, NEW X \in SUBSET S, Bounded(S) \subseteq X
  PROVE  Bounded(X) = Bounded(S)
  <1>1. X \in SUBSET Times /\ X \in SUBSET Nat /\ S \in SUBSET Nat /\ Window \in Nat /\ RAW_CAP \in Nat /\ RAW_CAP > 0
    BY TimesFinite, LiveViewAssumption
  <1>2. PICK m \in Nat, n \in Nat : m = NewestOf(X) /\ n = NewestOf(S)
    BY <1>1, NewestIs
  <1>3. m = n
    <2>1. m <= n
      <3>1. m = 0 \/ m \in S
        BY <1>1, <1>2, NewestIs
      <3> QED
        BY <1>2, <3>1, NewestIs
    <2>2. CASE n = 0
      BY <2>1, <2>2
    <2>3. CASE n # 0
      <3>1. n \in S
        BY <1>2, <2>3, NewestIs
      <3>2. n \in Inside(S)
        BY <1>1, <1>2, <3>1 DEF Inside
      <3>3. \A u \in S : u <= n
        BY <1>2, NewestIs
      <3>4. Above(S, n) = {}
        <4>1. \A u \in S : ~(u > n)
          BY <1>1, <1>2, <3>3
        <4> QED
          BY <4>1 DEF Above, Inside
      <3>5. Cardinality(Above(S, n)) = 0
        BY <3>4, FS_EmptySet
      <3>6. n \in Bounded(S)
        BY <1>1, <3>2, <3>5, BoundedIs
      <3>7. n <= m
        BY <1>1, <1>2, <3>6, NewestIs
      <3> QED
        BY <2>1, <3>7
    <2> QED
      BY <2>2, <2>3
  <1>4. Bounded(S) \subseteq Bounded(X)
    BY StillKept
  <1>5. ASSUME NEW u \in Bounded(X), u \notin Bounded(S) PROVE FALSE
    <2> DEFINE G == Above(S, u)
               B == Bounded(S)
    <2>1. u \in X /\ u \in S /\ u \in Inside(S)
      BY <1>1, <1>2, <1>3, BoundedIs DEF Inside
    <2>2. IsFiniteSet(G) /\ Cardinality(G) \in Nat /\ ~(Cardinality(G) < RAW_CAP)
      BY <1>5, <2>1, BoundedIs
    <2>3. G \in SUBSET S /\ G \in SUBSET Times
      BY BoundedIs DEF Above
    <2>4. G \cap B \subseteq Above(X, u)
      BY <1>2, <1>3 DEF Above, Inside
    <2>5. Cardinality(Above(X, u)) < RAW_CAP /\ Cardinality(Above(X, u)) \in Nat /\ IsFiniteSet(Above(X, u))
      BY <1>1, <2>1, BoundedIs
    <2>6. IsFiniteSet(G \cap B) /\ Cardinality(G \cap B) \in Nat /\ Cardinality(G \cap B) <= Cardinality(Above(X, u))
      BY <2>4, <2>5, FS_Subset, FS_CardinalityType
    <2>7. Cardinality(G \cap B) < RAW_CAP
      BY <1>1, <2>5, <2>6
    <2>8. CASE G \subseteq B
      <3>1. G \cap B = G
        BY <2>8
      <3> QED
        BY <2>2, <2>7, <3>1
    <2>9. CASE ~(G \subseteq B)
      <3> DEFINE L == G \ B
      <3>1. L \in SUBSET Nat /\ IsFiniteSet(L) /\ L # {} /\ L \in SUBSET Times
        BY <2>3, <2>9, TimesFinite
      <3>2. PICK v \in L : \A w \in L : w <= v
        <4> HIDE DEF L
        <4> QED
          BY <3>1, Latest
      <3>3. v \in S /\ v \in Inside(S) /\ v \notin B /\ v > u
        BY <2>3, <3>2 DEF Above
      <3>4. Above(S, v) \subseteq G \cap B
        <4> SUFFICES ASSUME NEW w \in Above(S, v) PROVE w \in G \cap B
          OBVIOUS
        <4>1. w \in Inside(S) /\ w > v /\ w \in Nat /\ v \in Nat /\ u \in Nat
          BY <1>1, <2>1, <3>3, BoundedIs DEF Above
        <4>2. w \in G
          BY <3>3, <4>1 DEF Above
        <4>3. w \notin L
          BY <3>2, <4>1
        <4> QED
          BY <4>2, <4>3
      <3>5. IsFiniteSet(Above(S, v)) /\ Cardinality(Above(S, v)) \in Nat /\ ~(Cardinality(Above(S, v)) < RAW_CAP)
        BY <3>3, BoundedIs
      <3>6. Cardinality(Above(S, v)) <= Cardinality(G \cap B)
        BY <2>6, <3>4, FS_Subset
      <3> QED
        BY <1>1, <2>6, <2>7, <3>5, <3>6
    <2> QED
      BY <2>8, <2>9
  <1> QED
    BY <1>4, <1>5

LEMMA BoundedTwice ==
  ASSUME NEW S \in SUBSET Times
  PROVE  Bounded(S) \in SUBSET S /\ Bounded(Bounded(S)) = Bounded(S)
  <1>1. Bounded(S) \in SUBSET S
    BY BoundedIs
  <1> QED
    BY <1>1, KeptIsEnough

\* Points appended to a bounded series: nothing but points of the two, all of them that a
\* series with both would keep.
LEMMA Appended ==
  ASSUME NEW S \in SUBSET Times, NEW P \in SUBSET S, Bounded(P) = P, NEW Q \in SUBSET S
  PROVE  /\ AppendPoints(P, Q) \in SUBSET S
         /\ AppendPoints(P, Q) = Bounded(P \cup Q)
         /\ Bounded(AppendPoints(P, Q)) = AppendPoints(P, Q)
         /\ \A t \in P \cup Q : t \in Bounded(S) => t \in AppendPoints(P, Q)
  <1>1. P \cup Q \in SUBSET S /\ P \cup Q \in SUBSET Times
    OBVIOUS
  <1>2. AppendPoints(P, Q) = Bounded(P \cup Q)
    <2>1. CASE Q \subseteq P
      <3>1. P \cup Q = P
        BY <2>1
      <3> QED
        BY <2>1, <3>1 DEF AppendPoints
    <2>2. CASE ~(Q \subseteq P)
      BY <2>2 DEF AppendPoints
    <2> QED
      BY <2>1, <2>2
  <1>3. Bounded(P \cup Q) \in SUBSET (P \cup Q) /\ Bounded(Bounded(P \cup Q)) = Bounded(P \cup Q)
    BY <1>1, BoundedTwice
  <1>4. \A t \in P \cup Q : t \in Bounded(S) => t \in Bounded(P \cup Q)
    <2> DEFINE X == P \cup Q
    <2>1. X \in SUBSET S
      OBVIOUS
    <2> HIDE DEF X
    <2>2. \A t \in X : t \in Bounded(S) => t \in Bounded(X)
      BY <2>1, StillKept
    <2> QED
      BY <2>2 DEF X
  <1> QED
    BY <1>2, <1>3, <1>4

\* Appending points one by one, as appendPoint does, or all at once is the same.
LEMMA OneByOne ==
  ASSUME NEW P \in SUBSET Times, Bounded(P) = P, NEW Q \in SUBSET Times, NEW t \in Times
  PROVE  AppendPoints(AppendPoints(P, Q), {t}) = AppendPoints(P, Q \cup {t})
  <1> DEFINE A == AppendPoints(P, Q)
             U == P \cup Q
             V == P \cup (Q \cup {t})
  <1>1. A = Bounded(U) /\ Bounded(A) = A /\ A \in SUBSET Times /\ AppendPoints(P, Q \cup {t}) = Bounded(V)
    <2> DEFINE T == Times
    <2>1. P \in SUBSET T /\ Q \in SUBSET T /\ Q \cup {t} \in SUBSET T /\ T \in SUBSET Times
      OBVIOUS
    <2> HIDE DEF T
    <2> QED
      BY <2>1, Appended
  <1>2. U \in SUBSET Times /\ V \in SUBSET Times /\ U \in SUBSET V /\ V = U \cup {t}
    OBVIOUS
  <1> HIDE DEF A, U, V
  <1>3. AppendPoints(A, {t}) = Bounded(A \cup {t})
    <2> DEFINE T == Times
    <2>1. A \in SUBSET T /\ {t} \in SUBSET T /\ T \in SUBSET Times
      BY <1>1
    <2> HIDE DEF T
    <2> QED
      BY <1>1, <2>1, Appended
  <1>4. A \cup {t} \in SUBSET V /\ Bounded(V) \subseteq A \cup {t}
    <2>1. A \in SUBSET U
      BY <1>1, <1>2, BoundedTwice
    <2>2. Bounded(V) \in SUBSET V
      BY <1>2, BoundedTwice
    <2>3. \A u \in U : u \in Bounded(V) => u \in Bounded(U)
      BY <1>2, StillKept
    <2> QED
      BY <1>1, <1>2, <2>1, <2>2, <2>3
  <1>5. Bounded(A \cup {t}) = Bounded(V)
    BY <1>2, <1>4, KeptIsEnough
  <1> QED
    BY <1>1, <1>3, <1>5 DEF A

(***************************************************************************)
(* The live views: what a view may show, and what each change of it adds.  *)
(***************************************************************************)
DeviceStatuses == {"never_seen", "online", "offline"}
Dashboards == [latest : [Channels -> Nat], series : [Channels -> SUBSET Times], status : DeviceStatuses,
               statusAt : Nat, lastReadingAt : Nat]
Tiles == [valueAt : Nat, status : DeviceStatuses, statusAt : Nat, lastReadingAt : Nat]
AllOf(S) == UNION {S[c] : c \in Channels}

\* What the service has: no reading is newer than the presence, and one as new made it.
Has(S, p) ==
  /\ S \in [Channels -> SUBSET Times] /\ p \in [status : DeviceStatuses, at : Nat]
  /\ \A t \in AllOf(S) : t <= p.at /\ (t = p.at => p.status = "online")

\* Nothing is shown that the service does not have, and nothing newer than the status is.
DashboardSound(d, S, p) ==
  /\ d \in Dashboards
  /\ \A c \in Channels : /\ d.latest[c] \in S[c] \cup {0} /\ d.series[c] \subseteq S[c]
                         /\ Bounded(d.series[c]) = d.series[c]
                         /\ d.latest[c] <= d.statusAt /\ d.latest[c] <= d.lastReadingAt
  /\ d.statusAt <= p.at /\ (d.statusAt = p.at => d.status = p.status)
  /\ d.lastReadingAt \in AllOf(S) \cup {0}

TileSound(x, S, p) ==
  /\ x \in Tiles
  /\ x.valueAt \in S[TileChannel] \cup {0}
  /\ x.lastReadingAt \in AllOf(S) \cup {0} /\ x.lastReadingAt <= x.statusAt
  /\ x.statusAt <= p.at /\ (x.statusAt = p.at => x.status = p.status)

\* Nothing the service would still show is given up.
DashboardGrows(d, e, S) ==
  /\ d.statusAt <= e.statusAt
  /\ \A c \in Channels : /\ d.latest[c] <= e.latest[c]
                         /\ \A t \in d.series[c] : t \in Bounded(S[c]) => t \in e.series[c]
TileGrows(x, y) ==
  x.valueAt <= y.valueAt /\ x.lastReadingAt <= y.lastReadingAt /\ x.statusAt <= y.statusAt

\* What an event tells.
ReadingEvents == [kind : {"reading"}, channel : Channels, at : Times, status : {"online"}, lastReadingAt : Times]
StatusEvents == [kind : {"status"}, channel : Channels, at : Times, status : {"online", "offline"}, lastReadingAt : Nat]
EventSound(e, S, p) ==
  /\ e.at <= p.at /\ (e.at = p.at => e.status = p.status)
  /\ \/ e \in ReadingEvents /\ e.at \in S[e.channel]
     \/ e \in StatusEvents /\ e.lastReadingAt \in AllOf(S) \cup {0} /\ e.lastReadingAt <= e.at

LEMMA LaterIs ==
  ASSUME NEW a \in Nat, NEW b \in Nat
  PROVE  Later(a, b) \in {a, b} /\ Later(a, b) \in Nat /\ a <= Later(a, b) /\ b <= Later(a, b)
  BY DEF Later

LEMMA AllTimes ==
  ASSUME NEW S \in [Channels -> SUBSET Times]
  PROVE  AllOf(S) \in SUBSET Times /\ \A c \in Channels : S[c] \subseteq AllOf(S) /\ S[c] \in SUBSET Times
  BY DEF AllOf

\* A snapshot is sound and lacks nothing.
LEMMA SnapshotSound ==
  ASSUME NEW S, NEW p, Has(S, p)
  PROVE  /\ DashboardSound(Dashboard(S, p), S, p) /\ TileSound(Tile(S, p), S, p)
         /\ \A c \in Channels : Dashboard(S, p).series[c] = Bounded(S[c])
         /\ \A c \in Channels : \A t \in S[c] : t <= Dashboard(S, p).latest[c]
         /\ \A t \in AllOf(S) : t <= Tile(S, p).lastReadingAt
         /\ \A t \in S[TileChannel] : t <= Tile(S, p).valueAt
         /\ Dashboard(S, p).statusAt = p.at /\ Tile(S, p).statusAt = p.at
  <1> DEFINE d == Dashboard(S, p)
             x == Tile(S, p)
             n == NewestOf(AllOf(S))
  <1>0. S \in [Channels -> SUBSET Times] /\ p \in [status : DeviceStatuses, at : Nat] /\ TileChannel \in Channels
    BY LiveViewAssumption DEF Has
  <1>1. AllOf(S) \in SUBSET Times /\ \A c \in Channels : S[c] \subseteq AllOf(S) /\ S[c] \in SUBSET Times
    BY <1>0, AllTimes
  <1>2. n \in AllOf(S) \cup {0} /\ n \in Nat /\ \A t \in AllOf(S) : t <= n
    BY <1>1, NewestIs
  <1>3. \A c \in Channels : /\ NewestOf(S[c]) \in S[c] \cup {0} /\ NewestOf(S[c]) \in Nat
                            /\ \A t \in S[c] : t <= NewestOf(S[c])
    BY <1>1, NewestIs
  <1>4. \A c \in Channels : Bounded(S[c]) \in SUBSET S[c] /\ Bounded(Bounded(S[c])) = Bounded(S[c])
    BY <1>1, BoundedTwice
  <1>5. n <= p.at /\ \A c \in Channels : NewestOf(S[c]) <= n
    <2>1. n <= p.at
      BY <1>0, <1>2 DEF Has
    <2>2. ASSUME NEW c \in Channels PROVE NewestOf(S[c]) <= n
      <3>1. NewestOf(S[c]) \in AllOf(S) \/ NewestOf(S[c]) = 0
        BY <1>1, <1>3
      <3> QED
        BY <1>2, <3>1
    <2> QED
      BY <2>1, <2>2
  <1>6. d = [latest |-> [c \in Channels |-> NewestOf(S[c])], series |-> [c \in Channels |-> Bounded(S[c])],
             status |-> p.status, statusAt |-> p.at, lastReadingAt |-> n]
    BY DEF Dashboard, AllOf
  <1>7. x = [valueAt |-> NewestOf(S[TileChannel]), status |-> p.status, statusAt |-> p.at, lastReadingAt |-> n]
    BY DEF Tile, AllOf
  <1> HIDE DEF d, x, n
  <1>8. \A c \in Channels : d.latest[c] = NewestOf(S[c]) /\ d.series[c] = Bounded(S[c])
    BY <1>6
  <1>9. d \in Dashboards /\ x \in Tiles
    <2>1. [c \in Channels |-> NewestOf(S[c])] \in [Channels -> Nat]
      BY <1>3
    <2>2. [c \in Channels |-> Bounded(S[c])] \in [Channels -> SUBSET Times]
      <3>1. \A c \in Channels : Bounded(S[c]) \in SUBSET Times
        BY <1>1, <1>4
      <3> QED
        BY <3>1
    <2>3. d \in Dashboards
      BY <1>0, <1>2, <1>6, <2>1, <2>2 DEF Dashboards
    <2>4. x \in Tiles
      BY <1>0, <1>2, <1>3, <1>7 DEF Tiles
    <2> QED
      BY <2>3, <2>4
  <1>10. DashboardSound(d, S, p)
    <2>1. \A c \in Channels : /\ d.latest[c] \in S[c] \cup {0} /\ d.series[c] \subseteq S[c]
                              /\ Bounded(d.series[c]) = d.series[c]
      BY <1>3, <1>4, <1>8
    <2>2. \A c \in Channels : d.latest[c] <= d.statusAt /\ d.latest[c] <= d.lastReadingAt
      <3> TAKE c \in Channels
      <3>1. d.latest[c] = NewestOf(S[c]) /\ d.statusAt = p.at /\ d.lastReadingAt = n /\ p.at \in Nat
        BY <1>0, <1>6, <1>8
      <3> QED
        BY <1>2, <1>3, <1>5, <3>1
    <2>3. d.statusAt <= p.at /\ d.status = p.status /\ d.lastReadingAt \in AllOf(S) \cup {0}
      BY <1>0, <1>2, <1>6
    <2> QED
      BY <1>9, <2>1, <2>2, <2>3 DEF DashboardSound
  <1>11. TileSound(x, S, p)
    <2>1. x.statusAt <= p.at /\ x.status = p.status /\ x.lastReadingAt \in AllOf(S) \cup {0} /\ x.lastReadingAt <= x.statusAt
      BY <1>0, <1>2, <1>5, <1>7
    <2>2. x.valueAt \in S[TileChannel] \cup {0}
      BY <1>0, <1>3, <1>7
    <2> QED
      BY <1>9, <2>1, <2>2 DEF TileSound
  <1>12. /\ \A c \in Channels : \A t \in S[c] : t <= d.latest[c]
         /\ \A t \in AllOf(S) : t <= x.lastReadingAt
         /\ \A t \in S[TileChannel] : t <= x.valueAt
         /\ d.statusAt = p.at /\ x.statusAt = p.at
    BY <1>0, <1>2, <1>3, <1>6, <1>7, <1>8
  <1> QED
    BY <1>8, <1>10, <1>11, <1>12 DEF d, x

\* A reading the service has arrives.
LEMMA ReadingOnDashboard ==
  ASSUME NEW S, NEW p, Has(S, p), NEW d, DashboardSound(d, S, p), NEW c \in Channels, NEW t \in S[c]
  PROVE  LET e == ApplyReadingToDashboard(d, c, t) IN
         /\ DashboardSound(e, S, p) /\ DashboardGrows(d, e, S)
         /\ t <= e.latest[c] /\ (t \in Bounded(S[c]) => t \in e.series[c])
  <1> DEFINE e == ApplyReadingToDashboard(d, c, t)
             later == t > d.latest[c]
             A == AppendPoints(d.series[c], {t})
  <1>0. /\ S \in [Channels -> SUBSET Times] /\ p \in [status : DeviceStatuses, at : Nat] /\ d \in Dashboards
        /\ t \in Nat /\ t \in AllOf(S) /\ t <= p.at /\ (t = p.at => p.status = "online") /\ S[c] \in SUBSET Times
    <2>1. S \in [Channels -> SUBSET Times] /\ p \in [status : DeviceStatuses, at : Nat] /\ d \in Dashboards
      BY DEF Has, DashboardSound
    <2>2. t \in AllOf(S) /\ S[c] \in SUBSET Times
      BY <2>1, AllTimes
    <2>3. t \in Nat
      BY <2>2, TimesFinite
    <2> QED
      BY <2>1, <2>2, <2>3 DEF Has
  <1>1. /\ d.latest \in [Channels -> Nat] /\ d.series \in [Channels -> SUBSET Times] /\ d.status \in DeviceStatuses
        /\ d.statusAt \in Nat /\ d.lastReadingAt \in Nat
    BY <1>0 DEF Dashboards
  <1>2. /\ A \in SUBSET S[c] /\ Bounded(A) = A /\ A \in SUBSET Times
        /\ \A u \in d.series[c] \cup {t} : u \in Bounded(S[c]) => u \in A
    <2>1. d.series[c] \in SUBSET S[c] /\ Bounded(d.series[c]) = d.series[c] /\ {t} \in SUBSET S[c]
      BY DEF DashboardSound
    <2>2. A \in SUBSET S[c] /\ Bounded(A) = A /\ \A u \in d.series[c] \cup {t} : u \in Bounded(S[c]) => u \in A
      <3> DEFINE R == S[c]
                 P == d.series[c]
                 Q == {t}
      <3>1. R \in SUBSET Times /\ P \in SUBSET R /\ Bounded(P) = P /\ Q \in SUBSET R
        BY <1>0, <2>1
      <3> HIDE DEF R, P, Q
      <3>2. /\ AppendPoints(P, Q) \in SUBSET R /\ Bounded(AppendPoints(P, Q)) = AppendPoints(P, Q)
            /\ \A u \in P \cup Q : u \in Bounded(R) => u \in AppendPoints(P, Q)
        BY <3>1, Appended
      <3> QED
        BY <3>2 DEF R, P, Q
    <2> QED
      BY <1>0, <2>2
  <1> HIDE DEF A
  <1>3. /\ e.latest = IF later THEN [d.latest EXCEPT ![c] = t] ELSE d.latest
        /\ e.series = [d.series EXCEPT ![c] = A]
        /\ e.status = IF later /\ t > d.statusAt THEN "online" ELSE d.status
        /\ e.statusAt = IF later THEN Later(t, d.statusAt) ELSE d.statusAt
        /\ e.lastReadingAt = IF later THEN Later(d.lastReadingAt, t) ELSE d.lastReadingAt
        /\ e = [latest |-> e.latest, series |-> e.series, status |-> e.status, statusAt |-> e.statusAt,
                lastReadingAt |-> e.lastReadingAt]
    <2>2. CASE later
      <3>1. e.latest = [d.latest EXCEPT ![c] = t] /\ e.series = [d.series EXCEPT ![c] = A]
        BY <1>0, <1>1, <2>2 DEF ApplyReadingToDashboard, A, Dashboards
      <3>2. e.status = IF t > d.statusAt THEN "online" ELSE d.status
        BY <1>0, <1>1, <2>2 DEF ApplyReadingToDashboard, Dashboards
      <3>3. e.statusAt = Later(t, d.statusAt) /\ e.lastReadingAt = Later(d.lastReadingAt, t)
        BY <1>0, <1>1, <2>2 DEF ApplyReadingToDashboard, Dashboards
      <3>4. e = [latest |-> e.latest, series |-> e.series, status |-> e.status, statusAt |-> e.statusAt,
                 lastReadingAt |-> e.lastReadingAt]
        BY <1>0, <1>1, <2>2 DEF ApplyReadingToDashboard, Dashboards
      <3> QED
        BY <2>2, <3>1, <3>2, <3>3, <3>4
    <2>3. CASE ~later
      BY <1>0, <1>1, <2>3 DEF ApplyReadingToDashboard, A, Dashboards
    <2> QED
      BY <2>2, <2>3
  <1> HIDE DEF e
  <1>4. \A a, b \in Nat : Later(a, b) \in {a, b} /\ Later(a, b) \in Nat /\ a <= Later(a, b) /\ b <= Later(a, b)
    BY LaterIs
  <1>5. e \in Dashboards
    <2>1. e.latest \in [Channels -> Nat] /\ e.series \in [Channels -> SUBSET Times]
      BY <1>0, <1>1, <1>2, <1>3
    <2>2. e.statusAt \in Nat /\ e.lastReadingAt \in Nat /\ e.status \in DeviceStatuses
      BY <1>0, <1>1, <1>3, <1>4 DEF DeviceStatuses
    <2> QED
      BY <1>3, <2>1, <2>2 DEF Dashboards
  <1>6. d.statusAt <= e.statusAt /\ d.lastReadingAt <= e.lastReadingAt
        /\ (later => t <= e.statusAt /\ t <= e.lastReadingAt)
    BY <1>0, <1>1, <1>3, <1>4
  <1>7. ASSUME NEW k \in Channels
        PROVE  /\ e.latest[k] \in S[k] \cup {0} /\ e.latest[k] <= e.statusAt /\ e.latest[k] <= e.lastReadingAt
               /\ d.latest[k] <= e.latest[k]
    <2>1. d.latest[k] \in S[k] \cup {0} /\ d.latest[k] <= d.statusAt /\ d.latest[k] <= d.lastReadingAt /\ d.latest[k] \in Nat
      BY <1>1 DEF DashboardSound
    <2>2. CASE later /\ k = c
      <3>1. e.latest[k] = t
        BY <1>1, <1>3, <2>2
      <3> QED
        BY <1>0, <1>6, <2>1, <2>2, <3>1
    <2>3. CASE ~(later /\ k = c)
      <3>1. e.latest[k] = d.latest[k]
        BY <1>1, <1>3, <2>3
      <3>2. d.latest[k] <= e.statusAt /\ d.latest[k] <= e.lastReadingAt
        BY <1>1, <1>5, <1>6, <2>1 DEF Dashboards
      <3> QED
        BY <2>1, <3>1, <3>2
    <2> QED
      BY <2>2, <2>3
  <1>8. ASSUME NEW k \in Channels
        PROVE  /\ e.series[k] \subseteq S[k] /\ Bounded(e.series[k]) = e.series[k]
               /\ \A u \in d.series[k] : u \in Bounded(S[k]) => u \in e.series[k]
    <2>1. CASE k = c
      <3>1. e.series[k] = A
        BY <1>1, <1>3, <2>1
      <3> QED
        BY <1>2, <2>1, <3>1
    <2>2. CASE k # c
      <3>1. e.series[k] = d.series[k]
        BY <1>1, <1>3, <2>2
      <3>2. d.series[k] \subseteq S[k] /\ Bounded(d.series[k]) = d.series[k]
        BY DEF DashboardSound
      <3> QED
        BY <3>1, <3>2
    <2> QED
      BY <2>1, <2>2
  <1>9. e.statusAt <= p.at /\ (e.statusAt = p.at => e.status = p.status)
    <2>1. d.statusAt <= p.at /\ (d.statusAt = p.at => d.status = p.status) /\ p.at \in Nat
      BY <1>0 DEF DashboardSound
    <2>2. CASE later /\ t > d.statusAt
      <3>1. e.statusAt = t /\ e.status = "online"
        BY <1>0, <1>1, <1>3, <2>2 DEF Later
      <3> QED
        BY <1>0, <3>1
    <2>3. CASE ~(later /\ t > d.statusAt)
      <3>1. e.statusAt = d.statusAt /\ e.status = d.status
        BY <1>0, <1>1, <1>3, <2>3 DEF Later
      <3> QED
        BY <2>1, <3>1
    <2> QED
      BY <2>2, <2>3
  <1>10. e.lastReadingAt \in AllOf(S) \cup {0}
    <2>1. d.lastReadingAt \in AllOf(S) \cup {0}
      BY DEF DashboardSound
    <2>2. e.lastReadingAt \in {d.lastReadingAt, t}
      BY <1>0, <1>1, <1>3, <1>4
    <2> QED
      BY <1>0, <2>1, <2>2
  <1>11. DashboardSound(e, S, p)
    BY <1>5, <1>7, <1>8, <1>9, <1>10 DEF DashboardSound
  <1>12. DashboardGrows(d, e, S)
    BY <1>6, <1>7, <1>8 DEF DashboardGrows
  <1>13. t <= e.latest[c]
    BY <1>0, <1>1, <1>3
  <1>14. e.series[c] = A
    BY <1>1, <1>3
  <1> QED
    BY <1>2, <1>11, <1>12, <1>13, <1>14 DEF e

LEMMA ReadingOnTile ==
  ASSUME NEW S, NEW p, Has(S, p), NEW x, TileSound(x, S, p), NEW c \in Channels, NEW t \in S[c]
  PROVE  LET y == ApplyReadingToFleet(x, c, t) IN
         /\ TileSound(y, S, p) /\ TileGrows(x, y)
         /\ t <= y.lastReadingAt /\ (c = TileChannel => t <= y.valueAt)
  <1> DEFINE y == ApplyReadingToFleet(x, c, t)
             newerDevice == t > x.lastReadingAt
             newerValue == c = TileChannel /\ t > x.valueAt
  <1>0. /\ S \in [Channels -> SUBSET Times] /\ p \in [status : DeviceStatuses, at : Nat] /\ x \in Tiles
        /\ t \in Nat /\ t \in AllOf(S) /\ t <= p.at /\ (t = p.at => p.status = "online")
    <2>1. S \in [Channels -> SUBSET Times] /\ p \in [status : DeviceStatuses, at : Nat] /\ x \in Tiles
      BY DEF Has, TileSound
    <2>2. t \in AllOf(S) /\ S[c] \in SUBSET Times
      BY <2>1, AllTimes
    <2>3. t \in Nat
      BY <2>2, TimesFinite
    <2> QED
      BY <2>1, <2>2, <2>3 DEF Has
  <1>1. x.valueAt \in Nat /\ x.status \in DeviceStatuses /\ x.statusAt \in Nat /\ x.lastReadingAt \in Nat
    BY <1>0 DEF Tiles
  <1>2. /\ y.valueAt = IF newerValue THEN t ELSE x.valueAt
        /\ y.status = IF newerDevice /\ t > x.statusAt THEN "online" ELSE x.status
        /\ y.statusAt = IF newerDevice THEN Later(x.statusAt, t) ELSE x.statusAt
        /\ y.lastReadingAt = Later(x.lastReadingAt, t)
        /\ y \in Tiles
    <2>1. y.valueAt = IF newerValue THEN t ELSE x.valueAt
      BY <1>0 DEF ApplyReadingToFleet, Tiles
    <2>2. y.status = IF newerDevice /\ t > x.statusAt THEN "online" ELSE x.status
      BY <1>0 DEF ApplyReadingToFleet, Tiles
    <2>3. y.statusAt = IF newerDevice THEN Later(x.statusAt, t) ELSE x.statusAt
      BY <1>0 DEF ApplyReadingToFleet, Tiles
    <2>4. y.lastReadingAt = Later(x.lastReadingAt, t)
      BY <1>0 DEF ApplyReadingToFleet, Tiles
    <2>5. y \in Tiles
      <3>1. x \in Tiles /\ t \in Nat /\ "online" \in DeviceStatuses
        BY <1>0 DEF DeviceStatuses
      <3> QED
        BY <3>1 DEF ApplyReadingToFleet, Tiles, Later
    <2> QED
      BY <2>1, <2>2, <2>3, <2>4, <2>5
  <1> HIDE DEF y
  <1>3. \A a, b \in Nat : Later(a, b) \in {a, b} /\ Later(a, b) \in Nat /\ a <= Later(a, b) /\ b <= Later(a, b)
    BY LaterIs
  <1>6. TileGrows(x, y) /\ t <= y.lastReadingAt /\ (c = TileChannel => t <= y.valueAt)
    <2>1. x.lastReadingAt <= y.lastReadingAt /\ t <= y.lastReadingAt
      BY <1>0, <1>1, <1>2 DEF Later
    <2>2. x.statusAt <= y.statusAt
      BY <1>0, <1>1, <1>2 DEF Later
    <2>3. x.valueAt <= y.valueAt /\ (c = TileChannel => t <= y.valueAt)
      BY <1>0, <1>1, <1>2
    <2> QED
      BY <2>1, <2>2, <2>3 DEF TileGrows
  <1>7. y.valueAt \in S[TileChannel] \cup {0}
    BY <1>2 DEF TileSound
  <1>8. y.lastReadingAt \in AllOf(S) \cup {0} /\ y.lastReadingAt <= y.statusAt
    <2>1. x.lastReadingAt \in AllOf(S) \cup {0} /\ x.lastReadingAt <= x.statusAt
      BY DEF TileSound
    <2>2. CASE newerDevice
      <3>1. y.lastReadingAt = t /\ t <= y.statusAt
        BY <1>0, <1>1, <1>2, <1>3, <2>2 DEF Later
      <3> QED
        BY <1>0, <3>1
    <2>3. CASE ~newerDevice
      <3>1. y.lastReadingAt = x.lastReadingAt /\ y.statusAt = x.statusAt
        BY <1>0, <1>1, <1>2, <2>3 DEF Later
      <3> QED
        BY <2>1, <3>1
    <2> QED
      BY <2>2, <2>3
  <1>9. y.statusAt <= p.at /\ (y.statusAt = p.at => y.status = p.status)
    <2>1. x.statusAt <= p.at /\ (x.statusAt = p.at => x.status = p.status) /\ p.at \in Nat
      BY <1>0 DEF TileSound
    <2>2. CASE newerDevice /\ t > x.statusAt
      <3>1. y.statusAt = t /\ y.status = "online"
        BY <1>0, <1>1, <1>2, <2>2 DEF Later
      <3> QED
        BY <1>0, <3>1
    <2>3. CASE ~(newerDevice /\ t > x.statusAt)
      <3>1. y.statusAt = x.statusAt /\ y.status = x.status
        BY <1>0, <1>1, <1>2, <2>3 DEF Later
      <3> QED
        BY <2>1, <3>1
    <2> QED
      BY <2>2, <2>3
  <1> QED
    BY <1>2, <1>6, <1>7, <1>8, <1>9 DEF TileSound, y

\* A status observed by the service arrives.
LEMMA StatusOnDashboard ==
  ASSUME NEW S, NEW p, Has(S, p), NEW d, DashboardSound(d, S, p), NEW e \in StatusEvents, EventSound(e, S, p)
  PROVE  LET f == ApplyStatusToDashboard(d, e) IN
         DashboardSound(f, S, p) /\ DashboardGrows(d, f, S) /\ e.at <= f.statusAt
  <1> DEFINE f == ApplyStatusToDashboard(d, e)
  <1>1. /\ S \in [Channels -> SUBSET Times] /\ p.at \in Nat /\ d \in Dashboards
        /\ e.at \in Nat /\ e.lastReadingAt \in Nat /\ e.status \in DeviceStatuses
    <2>1. S \in [Channels -> SUBSET Times] /\ p.at \in Nat /\ d \in Dashboards
      BY DEF Has, DashboardSound
    <2>2. e.at \in Times /\ e.lastReadingAt \in Nat /\ e.status \in DeviceStatuses
      BY DEF StatusEvents, DeviceStatuses
    <2> QED
      BY <2>1, <2>2, TimesFinite
  <1>2. /\ d.latest \in [Channels -> Nat] /\ d.series \in [Channels -> SUBSET Times] /\ d.status \in DeviceStatuses
        /\ d.statusAt \in Nat /\ d.lastReadingAt \in Nat
    BY <1>1 DEF Dashboards
  <1>3. e.at <= p.at /\ (e.at = p.at => e.status = p.status) /\ e.lastReadingAt \in AllOf(S) \cup {0}
    <2>1. e \notin ReadingEvents
      BY DEF ReadingEvents, StatusEvents
    <2> QED
      BY <2>1 DEF EventSound
  <1>4. CASE e.at <= d.statusAt
    <2>1. f = d
      BY <1>4 DEF ApplyStatusToDashboard
    <2>2. DashboardGrows(d, d, S)
      BY <1>2 DEF DashboardGrows
    <2> QED
      BY <1>4, <2>1, <2>2
  <1>5. CASE ~(e.at <= d.statusAt)
    <2>1. f.latest = d.latest /\ f.series = d.series /\ f.status = e.status /\ f.statusAt = e.at
      BY <1>1, <1>5 DEF ApplyStatusToDashboard, Dashboards
    <2>2. f.lastReadingAt = Later(d.lastReadingAt, e.lastReadingAt)
      BY <1>1, <1>5 DEF ApplyStatusToDashboard, Dashboards
    <2>3. f \in Dashboards
      BY <1>1, <1>2, <1>5 DEF ApplyStatusToDashboard, Dashboards, Later
    <2> HIDE DEF f
    <2>4. f.lastReadingAt \in {d.lastReadingAt, e.lastReadingAt} /\ d.lastReadingAt <= f.lastReadingAt
      BY <1>1, <1>2, <2>2 DEF Later
    <2>5. \A c \in Channels : /\ f.latest[c] \in S[c] \cup {0} /\ f.series[c] \subseteq S[c]
                              /\ Bounded(f.series[c]) = f.series[c]
      BY <2>1 DEF DashboardSound
    <2>6. ASSUME NEW c \in Channels PROVE f.latest[c] <= f.statusAt /\ f.latest[c] <= f.lastReadingAt
      <3>1. d.latest[c] <= d.statusAt /\ d.latest[c] <= d.lastReadingAt /\ d.latest[c] \in Nat /\ f.lastReadingAt \in Nat
        BY <1>2, <2>3 DEF DashboardSound, Dashboards
      <3> QED
        BY <1>1, <1>2, <1>5, <2>1, <2>4, <3>1
    <2>7. f.lastReadingAt \in AllOf(S) \cup {0}
      BY <1>3, <2>4 DEF DashboardSound
    <2>8. DashboardSound(f, S, p)
      BY <1>3, <2>1, <2>3, <2>5, <2>6, <2>7 DEF DashboardSound
    <2>9. DashboardGrows(d, f, S) /\ e.at <= f.statusAt
      BY <1>1, <1>2, <1>5, <2>1 DEF DashboardGrows
    <2> QED
      BY <2>8, <2>9 DEF f
  <1> QED
    BY <1>4, <1>5

LEMMA StatusOnTile ==
  ASSUME NEW S, NEW p, Has(S, p), NEW x, TileSound(x, S, p), NEW e \in StatusEvents, EventSound(e, S, p)
  PROVE  LET y == ApplyStatusToFleet(x, e) IN
         TileSound(y, S, p) /\ TileGrows(x, y) /\ e.at <= y.statusAt
  <1> DEFINE y == ApplyStatusToFleet(x, e)
  <1>1. p.at \in Nat /\ x \in Tiles /\ e.at \in Nat /\ e.lastReadingAt \in Nat /\ e.status \in DeviceStatuses
    <2>1. p.at \in Nat /\ x \in Tiles
      BY DEF Has, TileSound
    <2>2. e.at \in Times /\ e.lastReadingAt \in Nat /\ e.status \in DeviceStatuses
      BY DEF StatusEvents, DeviceStatuses
    <2> QED
      BY <2>1, <2>2, TimesFinite
  <1>2. x.valueAt \in Nat /\ x.status \in DeviceStatuses /\ x.statusAt \in Nat /\ x.lastReadingAt \in Nat
    BY <1>1 DEF Tiles
  <1>3. /\ e.at <= p.at /\ (e.at = p.at => e.status = p.status)
        /\ e.lastReadingAt \in AllOf(S) \cup {0} /\ e.lastReadingAt <= e.at
    <2>1. e \notin ReadingEvents
      BY DEF ReadingEvents, StatusEvents
    <2> QED
      BY <2>1 DEF EventSound
  <1>4. CASE e.at <= x.statusAt
    <2>1. y = x
      BY <1>4 DEF ApplyStatusToFleet
    <2>2. TileGrows(x, x)
      BY <1>2 DEF TileGrows
    <2> QED
      BY <1>4, <2>1, <2>2
  <1>5. CASE ~(e.at <= x.statusAt)
    <2>1. y.valueAt = x.valueAt /\ y.status = e.status /\ y.statusAt = e.at
      BY <1>1, <1>5 DEF ApplyStatusToFleet, Tiles
    <2>2. y.lastReadingAt = Later(x.lastReadingAt, e.lastReadingAt)
      BY <1>1, <1>5 DEF ApplyStatusToFleet, Tiles
    <2>3. y \in Tiles
      BY <1>1, <1>2, <1>5 DEF ApplyStatusToFleet, Tiles, Later
    <2> HIDE DEF y
    <2>4. y.lastReadingAt \in {x.lastReadingAt, e.lastReadingAt} /\ x.lastReadingAt <= y.lastReadingAt
      BY <1>1, <1>2, <2>2 DEF Later
    <2>5. x.lastReadingAt \in AllOf(S) \cup {0} /\ x.lastReadingAt <= x.statusAt
      BY DEF TileSound
    <2>6. y.lastReadingAt \in AllOf(S) \cup {0}
      BY <1>3, <2>4, <2>5
    <2>7. y.lastReadingAt <= y.statusAt
      BY <1>1, <1>2, <1>3, <1>5, <2>1, <2>4, <2>5
    <2>8. TileSound(y, S, p)
      BY <1>3, <2>1, <2>3, <2>6, <2>7 DEF TileSound
    <2>9. TileGrows(x, y) /\ e.at <= y.statusAt
      BY <1>1, <1>2, <1>5, <2>1, <2>4 DEF TileGrows
    <2> QED
      BY <2>8, <2>9 DEF y
  <1> QED
    BY <1>4, <1>5

\* A snapshot a is merged into what is shown, b.
LEMMA MergedDashboards ==
  ASSUME NEW S, NEW p, Has(S, p), NEW a, DashboardSound(a, S, p), NEW b, DashboardSound(b, S, p)
  PROVE  LET f == MergeDashboardSnapshot(a, b) IN
         DashboardSound(f, S, p) /\ DashboardGrows(a, f, S) /\ DashboardGrows(b, f, S)
  <1> DEFINE f == MergeDashboardSnapshot(a, b)
             newer == {c \in Channels : b.latest[c] > a.latest[c]}
             times == {b.latest[c] : c \in newer}
             n == NewestOf(times)
             s == Later(a.statusAt, n)
             Drawn(c) == IF c \in newer THEN AppendPoints(a.series[c], {b.latest[c]}) ELSE a.series[c]
             Both(c) == AppendPoints(Drawn(c), b.series[c])
  <1>1. S \in [Channels -> SUBSET Times] /\ p.at \in Nat /\ a \in Dashboards /\ b \in Dashboards
    BY DEF Has, DashboardSound
  <1>2. /\ a.latest \in [Channels -> Nat] /\ a.status \in DeviceStatuses /\ a.statusAt \in Nat /\ a.lastReadingAt \in Nat
        /\ b.latest \in [Channels -> Nat] /\ b.status \in DeviceStatuses /\ b.statusAt \in Nat /\ b.lastReadingAt \in Nat
    BY <1>1 DEF Dashboards
  <1>3. \A c \in newer : b.latest[c] \in S[c]
    <2> TAKE c \in newer
    <2>1. a.latest[c] \in Nat /\ b.latest[c] \in Nat /\ b.latest[c] > a.latest[c]
      BY <1>2
    <2>2. b.latest[c] \in S[c] \cup {0}
      BY DEF DashboardSound
    <2> QED
      BY <2>1, <2>2
  <1>4. times \in SUBSET AllOf(S) /\ AllOf(S) \in SUBSET Times
    <2>1. AllOf(S) \in SUBSET Times /\ \A c \in Channels : S[c] \subseteq AllOf(S)
      BY <1>1, AllTimes
    <2> QED
      BY <1>3, <2>1
  <1>5. n \in AllOf(S) \cup {0} /\ n \in Nat
    BY <1>4, NewestIs
  <1>6. /\ f.latest = [c \in Channels |-> Later(a.latest[c], b.latest[c])]
        /\ f.series = [c \in Channels |-> Both(c)]
        /\ f.status = IF b.statusAt > s THEN b.status ELSE IF n > a.statusAt THEN "online" ELSE a.status
        /\ f.statusAt = Later(s, b.statusAt)
        /\ f.lastReadingAt = Later(Later(a.lastReadingAt, n), b.lastReadingAt)
        /\ f = [latest |-> f.latest, series |-> f.series, status |-> f.status, statusAt |-> f.statusAt,
                lastReadingAt |-> f.lastReadingAt]
    BY DEF MergeDashboardSnapshot
  <1>7. ASSUME NEW c \in Channels
        PROVE  /\ Both(c) \in SUBSET S[c] /\ Bounded(Both(c)) = Both(c)
               /\ \A t \in a.series[c] \cup b.series[c] : t \in Bounded(S[c]) => t \in Both(c)
    <2> DEFINE R == S[c]
               P == a.series[c]
               Q == b.series[c]
               N == IF c \in newer THEN {b.latest[c]} ELSE {}
               D == Drawn(c)
    <2>1. R \in SUBSET Times /\ P \in SUBSET R /\ Bounded(P) = P /\ Q \in SUBSET R /\ N \in SUBSET R
      <3>1. R \in SUBSET Times
        BY <1>1
      <3>2. P \in SUBSET R /\ Bounded(P) = P /\ Q \in SUBSET R
        BY DEF DashboardSound
      <3>3. N \in SUBSET R
        BY <1>3
      <3> QED
        BY <3>1, <3>2, <3>3
    <2>2. D = AppendPoints(P, N)
      <3>1. CASE c \in newer
        BY <3>1
      <3>2. CASE c \notin newer
        BY <3>2 DEF AppendPoints
      <3> QED
        BY <3>1, <3>2
    <2> HIDE DEF R, P, Q, N, D
    <2>3. D \in SUBSET R /\ Bounded(D) = D /\ \A t \in P : t \in Bounded(R) => t \in D
      BY <2>1, <2>2, Appended
    <2>4. /\ AppendPoints(D, Q) \in SUBSET R /\ Bounded(AppendPoints(D, Q)) = AppendPoints(D, Q)
          /\ \A t \in D \cup Q : t \in Bounded(R) => t \in AppendPoints(D, Q)
      BY <2>1, <2>3, Appended
    <2>5. \A t \in P \cup Q : t \in Bounded(R) => t \in AppendPoints(D, Q)
      BY <2>3, <2>4
    <2> QED
      BY <2>4, <2>5 DEF R, P, Q, D
  <1> HIDE DEF f, n, Both
  <1>8. s \in Nat /\ s \in {a.statusAt, n} /\ a.statusAt <= s /\ n <= s
    BY <1>2, <1>5, LaterIs
  <1>9. f.statusAt \in Nat /\ a.statusAt <= f.statusAt /\ b.statusAt <= f.statusAt
    <2> HIDE DEF s
    <2> QED
      BY <1>2, <1>6, <1>8 DEF Later
  <1>10. /\ f.lastReadingAt \in {a.lastReadingAt, n, b.lastReadingAt} /\ f.lastReadingAt \in Nat
         /\ a.lastReadingAt <= f.lastReadingAt /\ b.lastReadingAt <= f.lastReadingAt
    BY <1>2, <1>5, <1>6 DEF Later
  <1>11. ASSUME NEW c \in Channels
         PROVE  /\ f.latest[c] \in {a.latest[c], b.latest[c]} /\ a.latest[c] <= f.latest[c] /\ b.latest[c] <= f.latest[c]
                /\ f.latest[c] \in Nat
    BY <1>2, <1>6, LaterIs
  <1>12. f \in Dashboards
    <2>1. f.latest \in [Channels -> Nat]
      BY <1>6, <1>11
    <2>2. f.series \in [Channels -> SUBSET Times]
      <3>1. \A c \in Channels : Both(c) \in SUBSET Times
        BY <1>1, <1>7
      <3> QED
        BY <1>6, <3>1
    <2>3. f.status \in DeviceStatuses
      <3>1. f.status \in {a.status, b.status, "online"}
        BY <1>6
      <3> QED
        BY <1>2, <3>1 DEF DeviceStatuses
    <2> QED
      BY <1>6, <1>9, <1>10, <2>1, <2>2, <2>3 DEF Dashboards
  <1>13. \A c \in Channels : f.series[c] = Both(c)
    BY <1>6
  <1>14. ASSUME NEW c \in Channels
         PROVE  f.latest[c] \in S[c] \cup {0} /\ f.latest[c] <= f.statusAt /\ f.latest[c] <= f.lastReadingAt
    <2>1. /\ a.latest[c] \in S[c] \cup {0} /\ a.latest[c] <= a.statusAt /\ a.latest[c] <= a.lastReadingAt
          /\ b.latest[c] \in S[c] \cup {0} /\ b.latest[c] <= b.statusAt /\ b.latest[c] <= b.lastReadingAt
          /\ a.latest[c] \in Nat /\ b.latest[c] \in Nat
      BY <1>2 DEF DashboardSound
    <2>2. CASE f.latest[c] = a.latest[c]
      BY <1>2, <1>9, <1>10, <2>1, <2>2
    <2>3. CASE f.latest[c] = b.latest[c]
      BY <1>2, <1>9, <1>10, <2>1, <2>3
    <2> QED
      BY <1>11, <2>2, <2>3
  <1>15. f.statusAt <= p.at /\ (f.statusAt = p.at => f.status = p.status)
    <2>1. /\ a.statusAt <= p.at /\ (a.statusAt = p.at => a.status = p.status)
          /\ b.statusAt <= p.at /\ (b.statusAt = p.at => b.status = p.status)
      BY DEF DashboardSound
    <2>2. n <= p.at /\ (n = p.at /\ n # 0 => p.status = "online")
      <3>1. CASE n = 0
        BY <1>1, <3>1
      <3>2. CASE n \in AllOf(S)
        BY <3>2 DEF Has
      <3> QED
        BY <1>5, <3>1, <3>2
    <2>3. CASE b.statusAt > s
      <3>1. f.statusAt = b.statusAt /\ f.status = b.status
        <4> HIDE DEF s
        <4> QED
          BY <1>2, <1>6, <1>8, <2>3 DEF Later
      <3> QED
        BY <2>1, <3>1
    <2>4. CASE ~(b.statusAt > s) /\ n > a.statusAt
      <3>1. f.status = "online"
        BY <1>6, <2>4
      <3>2. f.statusAt = s
        <4> HIDE DEF s
        <4> QED
          BY <1>2, <1>6, <1>8, <2>4 DEF Later
      <3>3. s = n /\ n # 0
        BY <1>2, <1>5, <2>4 DEF Later
      <3> QED
        BY <2>2, <3>1, <3>2, <3>3
    <2>5. CASE ~(b.statusAt > s) /\ ~(n > a.statusAt)
      <3>1. f.status = a.status
        BY <1>6, <2>5
      <3>2. f.statusAt = s
        <4> HIDE DEF s
        <4> QED
          BY <1>2, <1>6, <1>8, <2>5 DEF Later
      <3>3. s = a.statusAt
        BY <1>2, <1>5, <2>5 DEF Later
      <3> QED
        BY <2>1, <3>1, <3>2, <3>3
    <2> QED
      BY <2>3, <2>4, <2>5
  <1>16. f.lastReadingAt \in AllOf(S) \cup {0}
    BY <1>5, <1>10 DEF DashboardSound
  <1>17. DashboardSound(f, S, p)
    BY <1>7, <1>12, <1>13, <1>14, <1>15, <1>16 DEF DashboardSound
  <1>18. DashboardGrows(a, f, S) /\ DashboardGrows(b, f, S)
    BY <1>7, <1>9, <1>11, <1>13 DEF DashboardGrows
  <1> QED
    BY <1>17, <1>18 DEF f

LEMMA MergedTiles ==
  ASSUME NEW S, NEW p, Has(S, p), NEW a, TileSound(a, S, p), NEW b, TileSound(b, S, p)
  PROVE  LET y == MergeFleetSnapshot(a, b) IN TileSound(y, S, p) /\ TileGrows(a, y) /\ TileGrows(b, y)
  <1> DEFINE y == MergeFleetSnapshot(a, b)
  <1>1. a \in Tiles /\ b \in Tiles /\ p.at \in Nat
    BY DEF Has, TileSound
  <1>2. /\ a.valueAt \in Nat /\ a.status \in DeviceStatuses /\ a.statusAt \in Nat /\ a.lastReadingAt \in Nat
        /\ b.valueAt \in Nat /\ b.status \in DeviceStatuses /\ b.statusAt \in Nat /\ b.lastReadingAt \in Nat
    BY <1>1 DEF Tiles
  <1>3. /\ y.lastReadingAt = Later(a.lastReadingAt, b.lastReadingAt)
        /\ y.status = IF b.statusAt > a.statusAt THEN b.status ELSE a.status
        /\ y.statusAt = Later(a.statusAt, b.statusAt)
        /\ y.valueAt = Later(a.valueAt, b.valueAt)
        /\ y = [valueAt |-> y.valueAt, status |-> y.status, statusAt |-> y.statusAt, lastReadingAt |-> y.lastReadingAt]
    BY DEF MergeFleetSnapshot
  <1> HIDE DEF y
  <1>4. /\ y.lastReadingAt \in {a.lastReadingAt, b.lastReadingAt}
        /\ a.lastReadingAt <= y.lastReadingAt /\ b.lastReadingAt <= y.lastReadingAt /\ y.lastReadingAt \in Nat
    BY <1>2, <1>3, LaterIs
  <1>5. a.statusAt <= y.statusAt /\ b.statusAt <= y.statusAt /\ y.statusAt \in Nat
    BY <1>2, <1>3, LaterIs
  <1>6. /\ y.valueAt \in {a.valueAt, b.valueAt} /\ a.valueAt <= y.valueAt /\ b.valueAt <= y.valueAt
        /\ y.valueAt \in Nat
    BY <1>2, <1>3, LaterIs
  <1>7. TileGrows(a, y) /\ TileGrows(b, y)
    BY <1>4, <1>5, <1>6 DEF TileGrows
  <1>8. y \in Tiles
    BY <1>2, <1>3, <1>4, <1>5, <1>6 DEF Tiles
  <1>9. y.valueAt \in S[TileChannel] \cup {0} /\ y.lastReadingAt \in AllOf(S) \cup {0}
    BY <1>4, <1>6 DEF TileSound
  <1>10. y.lastReadingAt <= y.statusAt
    <2>1. a.lastReadingAt <= a.statusAt /\ b.lastReadingAt <= b.statusAt
      BY DEF TileSound
    <2> QED
      BY <1>2, <1>4, <1>5, <2>1
  <1>11. y.statusAt <= p.at /\ (y.statusAt = p.at => y.status = p.status)
    <2>1. /\ a.statusAt <= p.at /\ (a.statusAt = p.at => a.status = p.status)
          /\ b.statusAt <= p.at /\ (b.statusAt = p.at => b.status = p.status)
      BY DEF TileSound
    <2>2. CASE b.statusAt > a.statusAt
      <3>1. y.statusAt = b.statusAt /\ y.status = b.status
        BY <1>2, <1>3, <2>2 DEF Later
      <3> QED
        BY <2>1, <3>1
    <2>3. CASE ~(b.statusAt > a.statusAt)
      <3>1. y.statusAt = a.statusAt /\ y.status = a.status
        BY <1>2, <1>3, <2>3 DEF Later
      <3> QED
        BY <2>1, <3>1
    <2> QED
      BY <2>2, <2>3
  <1> QED
    BY <1>7, <1>8, <1>9, <1>10, <1>11 DEF TileSound, y

(***************************************************************************)
(* The live views: everything the service has is shown, on its way, or in  *)
(* the snapshot of a refresh that is still due.                            *)
(***************************************************************************)
Seen(d, x, c, t) == t <= d.latest[c] /\ t <= x.lastReadingAt /\ (c = TileChannel => t <= x.valueAt)
StatusSeen(d, x, p) == p.at <= d.statusAt /\ p.at <= x.statusAt
Told(E, c, t) == \E e \in E : e.kind = "reading" /\ e.channel = c /\ e.at = t

Covered(S, p, E, r, d, x) ==
  /\ \A c \in Channels : \A t \in S[c] :
       Seen(d, x, c, t) \/ (r.pc = "read" /\ Seen(r.dashboard, r.tile, c, t)) \/ Told(E, c, t)
  /\ \A c \in Channels : \A t \in Bounded(S[c]) :
       t \in d.series[c] \/ (r.pc = "read" /\ t \in r.dashboard.series[c]) \/ Told(E, c, t)
  /\ StatusSeen(d, x, p) \/ (r.pc = "read" /\ StatusSeen(r.dashboard, r.tile, p)) \/ \E e \in E : e.at = p.at

RenderSound(r, S, p) ==
  /\ r = [pc |-> r.pc, dashboard |-> r.dashboard, tile |-> r.tile, again |-> r.again]
  /\ r.pc \in {"none", "asked", "read"} /\ r.again \in BOOLEAN /\ (r.again => r.pc # "none")
  /\ r.pc = "read" => DashboardSound(r.dashboard, S, p) /\ TileSound(r.tile, S, p)

\* Another snapshot will be read.
RefreshDue(r) == r.pc = "asked" \/ r.again

LiveHolds(S, p, st, E, r, d, x) ==
  /\ Has(S, p) /\ (\A e \in E : EventSound(e, S, p))
  /\ st \in {"open", "closed"} /\ (st = "closed" => E = {})
  /\ RenderSound(r, S, p) /\ DashboardSound(d, S, p) /\ TileSound(x, S, p)
  /\ st = "open" /\ ~RefreshDue(r) => Covered(S, p, E, r, d, x)

LiveInv == LiveHolds(samples, presence, stream, events, render, dashboard, tile)

\* What was sound stays so when the service has more.
LEMMA StaysSound ==
  ASSUME NEW S \in [Channels -> SUBSET Times], NEW T \in [Channels -> SUBSET Times],
         \A c \in Channels : S[c] \subseteq T[c],
         NEW p, NEW q, p.at \in Nat, q.at \in Nat, q = p \/ q.at > p.at
  PROVE  /\ \A d : DashboardSound(d, S, p) => DashboardSound(d, T, q)
         /\ \A x : TileSound(x, S, p) => TileSound(x, T, q)
         /\ \A e : EventSound(e, S, p) => EventSound(e, T, q)
         /\ \A r : RenderSound(r, S, p) => RenderSound(r, T, q)
  <1>1. AllOf(S) \subseteq AllOf(T) /\ TileChannel \in Channels
    BY LiveViewAssumption DEF AllOf
  <1>2. \A a \in Nat : /\ a <= p.at => a <= q.at
                       /\ a <= p.at /\ a = q.at => q = p
    OBVIOUS
  <1>3. ASSUME NEW d, DashboardSound(d, S, p) PROVE DashboardSound(d, T, q)
    <2>1. d.statusAt \in Nat
      BY <1>3 DEF DashboardSound, Dashboards
    <2>2. d.statusAt <= q.at /\ (d.statusAt = q.at => d.status = q.status)
      BY <1>2, <1>3, <2>1 DEF DashboardSound
    <2> QED
      BY <1>1, <1>3, <2>2 DEF DashboardSound
  <1>4. ASSUME NEW x, TileSound(x, S, p) PROVE TileSound(x, T, q)
    <2>1. x.statusAt \in Nat
      BY <1>4 DEF TileSound, Tiles
    <2>2. x.statusAt <= q.at /\ (x.statusAt = q.at => x.status = q.status)
      BY <1>2, <1>4, <2>1 DEF TileSound
    <2> QED
      BY <1>1, <1>4, <2>2 DEF TileSound
  <1>5. ASSUME NEW e, EventSound(e, S, p) PROVE EventSound(e, T, q)
    <2>1. e.at \in Nat
      <3>1. e.at \in Times
        BY <1>5 DEF EventSound, ReadingEvents, StatusEvents
      <3> QED
        BY <3>1, TimesFinite
    <2>2. e.at <= q.at /\ (e.at = q.at => e.status = q.status)
      BY <1>2, <1>5, <2>1 DEF EventSound
    <2>3. CASE e \in ReadingEvents /\ e.at \in S[e.channel]
      <3>1. e.channel \in Channels
        BY <2>3 DEF ReadingEvents
      <3> QED
        BY <2>2, <2>3, <3>1 DEF EventSound
    <2>4. CASE e \in StatusEvents /\ e.lastReadingAt \in AllOf(S) \cup {0} /\ e.lastReadingAt <= e.at
      BY <1>1, <2>2, <2>4 DEF EventSound
    <2> QED
      BY <1>5, <2>3, <2>4 DEF EventSound
  <1>6. ASSUME NEW r, RenderSound(r, S, p) PROVE RenderSound(r, T, q)
    BY <1>3, <1>4, <1>6 DEF RenderSound
  <1> QED
    BY <1>3, <1>4, <1>5, <1>6

LEMMA LiveInitially == LiveInit => LiveInv
  <1> SUFFICES ASSUME LiveInit PROVE LiveInv
    OBVIOUS
  <1>1. Has(samples, presence)
    <2>1. samples \in [Channels -> SUBSET Times] /\ AllOf(samples) = {}
      BY DEF LiveInit, AllOf
    <2>2. presence \in [status : DeviceStatuses, at : Nat]
      BY DEF LiveInit, DeviceStatuses
    <2> QED
      BY <2>1, <2>2 DEF Has
  <1>2. DashboardSound(dashboard, samples, presence) /\ TileSound(tile, samples, presence)
    BY <1>1, SnapshotSound DEF LiveInit
  <1>3. RenderSound(render, samples, presence)
    BY DEF LiveInit, NoRender, RenderSound
  <1>4. stream = "closed" /\ events = {}
    BY DEF LiveInit
  <1> QED
    BY <1>1, <1>2, <1>3, <1>4 DEF LiveInv, LiveHolds

LEMMA ReadingStoredStep ==
  ASSUME LiveInv, NEW c \in Channels, NEW t \in Times, ReadingStored(c, t)
  PROVE  LiveInv'
  <1> DEFINE S == samples
             T == samples'
             p == presence
             q == presence'
             new == [kind |-> "reading", channel |-> c, at |-> t, status |-> "online", lastReadingAt |-> t]
  <1>1. /\ Has(S, p) /\ (\A e \in events : EventSound(e, S, p))
        /\ stream \in {"open", "closed"} /\ (stream = "closed" => events = {})
        /\ RenderSound(render, S, p) /\ DashboardSound(dashboard, S, p) /\ TileSound(tile, S, p)
        /\ stream = "open" /\ ~RefreshDue(render) => Covered(S, p, events, render, dashboard, tile)
    BY DEF LiveInv, LiveHolds
  <1>2. /\ S \in [Channels -> SUBSET Times] /\ p \in [status : DeviceStatuses, at : Nat] /\ p.at \in Nat
        /\ \A u \in AllOf(S) : u <= p.at /\ (u = p.at => p.status = "online")
    BY <1>1 DEF Has
  <1>3. t \in Nat /\ t # p.at
    BY TimesFinite DEF ReadingStored
  <1>4. T = [S EXCEPT ![c] = S[c] \cup {t}]
    BY DEF ReadingStored
  <1>5. q = IF t > p.at THEN [status |-> "online", at |-> t] ELSE p
    BY DEF ReadingStored
  <1>6. events' = IF stream = "open" THEN events \cup {new} ELSE events
    BY DEF ReadingStored, Published
  <1>7. stream' = stream /\ render' = render /\ dashboard' = dashboard /\ tile' = tile
    BY DEF ReadingStored
  <1> HIDE DEF S, T, p, q
  <1>8. T \in [Channels -> SUBSET Times] /\ T[c] = S[c] \cup {t} /\ \A k \in Channels : k # c => T[k] = S[k]
    BY <1>2, <1>4
  <1>9. /\ q \in [status : DeviceStatuses, at : Nat] /\ q.at \in Nat /\ (q = p \/ q.at > p.at)
        /\ t <= q.at /\ (t = q.at => q.status = "online") /\ (q # p => t = q.at)
    <2>1. CASE t > p.at
      BY <1>3, <1>5, <2>1 DEF DeviceStatuses
    <2>2. CASE ~(t > p.at)
      BY <1>2, <1>3, <1>5, <2>2
    <2> QED
      BY <2>1, <2>2
  <1>10. AllOf(T) = AllOf(S) \cup {t}
    BY <1>8 DEF AllOf
  <1>11. Has(T, q)
    <2> SUFFICES ASSUME NEW u \in AllOf(T) PROVE u <= q.at /\ (u = q.at => q.status = "online")
      BY <1>8, <1>9 DEF Has
    <2>1. CASE u = t
      BY <1>9, <2>1
    <2>2. CASE u \in AllOf(S)
      <3>1. u \in Nat
        <4>1. AllOf(S) \in SUBSET Times
          BY <1>2, AllTimes
        <4> QED
          BY <2>2, <4>1, TimesFinite
      <3> QED
        BY <1>2, <1>9, <2>2, <3>1
    <2> QED
      BY <1>10, <2>1, <2>2
  <1>12. /\ \A e \in events : EventSound(e, T, q)
         /\ RenderSound(render, T, q) /\ DashboardSound(dashboard, T, q) /\ TileSound(tile, T, q)
    <2>1. \A k \in Channels : S[k] \subseteq T[k]
      BY <1>8
    <2> QED
      BY <1>1, <1>2, <1>8, <1>9, <2>1, StaysSound
  <1>13. EventSound(new, T, q)
    <2>1. new \in ReadingEvents /\ new.at = t /\ new.channel = c /\ new.status = "online"
      BY DEF ReadingEvents
    <2> QED
      BY <1>8, <1>9, <2>1 DEF EventSound
  <1>14. ASSUME stream = "open", ~RefreshDue(render)
         PROVE  Covered(T, q, events \cup {new}, render, dashboard, tile)
    <2> DEFINE E == events \cup {new}
    <2>1. Covered(S, p, events, render, dashboard, tile)
      BY <1>1, <1>14
    <2>2. \A k \in Channels : \A u : Told(events, k, u) => Told(E, k, u)
      BY DEF Told
    <2>3. Told(E, c, t) /\ \E e \in E : e.at = t
      <3>1. new \in E /\ new.kind = "reading" /\ new.channel = c /\ new.at = t
        OBVIOUS
      <3> HIDE DEF new, E
      <3> QED
        BY <3>1 DEF Told
    <2>4. ASSUME NEW k \in Channels, NEW u \in T[k]
          PROVE  \/ Seen(dashboard, tile, k, u) \/ Told(E, k, u)
                 \/ render.pc = "read" /\ Seen(render.dashboard, render.tile, k, u)
      <3>1. u \in S[k] \/ (k = c /\ u = t)
        BY <1>8
      <3>2. CASE k = c /\ u = t
        BY <2>3, <3>2
      <3>3. CASE u \in S[k]
        BY <2>1, <2>2, <3>3 DEF Covered
      <3> QED
        BY <3>1, <3>2, <3>3
    <2>5. ASSUME NEW k \in Channels, NEW u \in Bounded(T[k])
          PROVE  \/ u \in dashboard.series[k] \/ Told(E, k, u)
                 \/ render.pc = "read" /\ u \in render.dashboard.series[k]
      <3>1. CASE k = c /\ u = t
        BY <2>3, <3>1
      <3>2. CASE ~(k = c /\ u = t)
        <4> DEFINE X == S[k]
                   Y == T[k]
        <4>1. Y \in SUBSET Times /\ X \in SUBSET Y /\ u \in Bounded(Y)
          BY <1>8
        <4>2. Bounded(Y) \in SUBSET Y
          <5> HIDE DEF Y
          <5> QED
            BY <4>1, BoundedTwice
        <4>3. u \in X
          BY <1>8, <3>2, <4>1, <4>2
        <4> HIDE DEF X, Y
        <4>4. u \in Bounded(X)
          BY <4>1, <4>3, StillKept
        <4> QED
          BY <2>1, <2>2, <4>4 DEF Covered, X
      <3> QED
        BY <3>1, <3>2
    <2>6. \/ StatusSeen(dashboard, tile, q) \/ \E e \in E : e.at = q.at
          \/ render.pc = "read" /\ StatusSeen(render.dashboard, render.tile, q)
      <3>1. CASE q = p
        BY <2>1, <3>1 DEF Covered
      <3>2. CASE q # p
        BY <1>9, <2>3, <3>2
      <3> QED
        BY <3>1, <3>2
    <2> HIDE DEF E
    <2>7. Covered(T, q, E, render, dashboard, tile)
      BY <2>4, <2>5, <2>6 DEF Covered
    <2> QED
      BY <2>7 DEF E
  <1>15. \A e \in events' : EventSound(e, T, q)
    BY <1>6, <1>12, <1>13
  <1>16. stream = "open" /\ ~RefreshDue(render) => Covered(T, q, events', render, dashboard, tile)
    <2> SUFFICES ASSUME stream = "open", ~RefreshDue(render) PROVE Covered(T, q, events', render, dashboard, tile)
      OBVIOUS
    <2>1. events' = events \cup {new}
      BY <1>6
    <2> HIDE DEF new
    <2> QED
      BY <1>14, <2>1
  <1>17. stream = "closed" => events' = {}
    BY <1>1, <1>6
  <1>18. LiveHolds(T, q, stream, events', render, dashboard, tile)
    BY <1>1, <1>11, <1>12, <1>15, <1>16, <1>17 DEF LiveHolds
  <1> QED
    BY <1>7, <1>18 DEF LiveInv, T, q

LEMMA StatusObservedStep ==
  ASSUME LiveInv, NEW s \in {"online", "offline"}, NEW t \in Times, StatusObserved(s, t)
  PROVE  LiveInv'
  <1> DEFINE S == samples
             p == presence
             q == presence'
             new == [kind |-> "status", channel |-> TileChannel, at |-> t, status |-> s,
                     lastReadingAt |-> NewestOf(Taken)]
  <1>1. /\ Has(S, p) /\ (\A e \in events : EventSound(e, S, p))
        /\ stream \in {"open", "closed"} /\ (stream = "closed" => events = {})
        /\ RenderSound(render, S, p) /\ DashboardSound(dashboard, S, p) /\ TileSound(tile, S, p)
        /\ stream = "open" /\ ~RefreshDue(render) => Covered(S, p, events, render, dashboard, tile)
    BY DEF LiveInv, LiveHolds
  <1>2. S \in [Channels -> SUBSET Times] /\ p.at \in Nat /\ TileChannel \in Channels
    BY <1>1, LiveViewAssumption DEF Has
  <1>3. Taken = AllOf(S)
    BY DEF Taken, AllOf
  <1>4. t \in Nat /\ p.at < t /\ \A u \in AllOf(S) : u < t
    <2>1. t \in Nat /\ \A u \in Taken \cup {presence.at} : t > u
      BY TimesFinite DEF StatusObserved
    <2>2. AllOf(S) \in SUBSET Nat
      BY <1>2, AllTimes, TimesFinite
    <2> QED
      BY <1>2, <1>3, <2>1, <2>2
  <1>5. q = [status |-> s, at |-> t]
    BY DEF StatusObserved
  <1>6. events' = IF stream = "open" THEN events \cup {new} ELSE events
    BY DEF StatusObserved, Published
  <1>7. samples' = S /\ stream' = stream /\ render' = render /\ dashboard' = dashboard /\ tile' = tile
    BY DEF StatusObserved
  <1>8. NewestOf(Taken) \in AllOf(S) \cup {0} /\ NewestOf(Taken) \in Nat
    <2>1. AllOf(S) \in SUBSET Times
      BY <1>2, AllTimes
    <2> QED
      BY <1>3, <2>1, NewestIs
  <1> HIDE DEF S, p, q
  <1>9. q \in [status : DeviceStatuses, at : Nat] /\ q.at = t /\ q.status = s /\ q.at > p.at /\ q.at \in Nat
    BY <1>2, <1>4, <1>5 DEF DeviceStatuses
  <1>10. Has(S, q)
    <2>1. AllOf(S) \in SUBSET Nat
      BY <1>2, AllTimes, TimesFinite
    <2> QED
      BY <1>2, <1>4, <1>9, <2>1 DEF Has
  <1>11. /\ \A e \in events : EventSound(e, S, q)
         /\ RenderSound(render, S, q) /\ DashboardSound(dashboard, S, q) /\ TileSound(tile, S, q)
    BY <1>1, <1>2, <1>9, StaysSound
  <1>12. EventSound(new, S, q)
    <2>1. /\ new \in StatusEvents /\ new.at = t /\ new.status = s /\ new.lastReadingAt = NewestOf(Taken)
      BY <1>2, <1>8 DEF StatusEvents
    <2>2. NewestOf(Taken) <= t
      BY <1>4, <1>8
    <2> HIDE DEF new
    <2> QED
      BY <1>4, <1>8, <1>9, <2>1, <2>2 DEF EventSound
  <1>13. ASSUME stream = "open", ~RefreshDue(render)
         PROVE  Covered(S, q, events \cup {new}, render, dashboard, tile)
    <2> DEFINE E == events \cup {new}
    <2>1. Covered(S, p, events, render, dashboard, tile)
      BY <1>1, <1>13
    <2>2. \A k \in Channels : \A u : Told(events, k, u) => Told(E, k, u)
      BY DEF Told
    <2>3. \E e \in E : e.at = q.at
      <3>1. new \in E /\ new.at = q.at
        BY <1>9
      <3> HIDE DEF new, E
      <3> QED
        BY <3>1
    <2> HIDE DEF E
    <2>4. Covered(S, q, E, render, dashboard, tile)
      BY <2>1, <2>2, <2>3 DEF Covered
    <2> QED
      BY <2>4 DEF E
  <1>14. \A e \in events' : EventSound(e, S, q)
    BY <1>6, <1>11, <1>12
  <1>15. stream = "open" /\ ~RefreshDue(render) => Covered(S, q, events', render, dashboard, tile)
    <2> SUFFICES ASSUME stream = "open", ~RefreshDue(render) PROVE Covered(S, q, events', render, dashboard, tile)
      OBVIOUS
    <2>1. events' = events \cup {new}
      BY <1>6
    <2> HIDE DEF new
    <2> QED
      BY <1>13, <2>1
  <1>16. stream = "closed" => events' = {}
    BY <1>1, <1>6
  <1>17. LiveHolds(S, q, stream, events', render, dashboard, tile)
    BY <1>1, <1>10, <1>11, <1>14, <1>15, <1>16 DEF LiveHolds
  <1> QED
    BY <1>7, <1>17 DEF LiveInv, q

\* Coverage is kept by views that grow, for what an event that leaves the queue has told.
LEMMA StaysCovered ==
  ASSUME NEW S, NEW p, Has(S, p), NEW E, NEW F, NEW r,
         NEW d \in Dashboards, NEW e \in Dashboards, NEW x \in Tiles, NEW y \in Tiles,
         Covered(S, p, E, r, d, x), DashboardGrows(d, e, S), TileGrows(x, y),
         \A c \in Channels : \A t \in S[c] :
           Told(E, c, t) => Told(F, c, t) \/ (Seen(e, y, c, t) /\ (t \in Bounded(S[c]) => t \in e.series[c])),
         (\E v \in E : v.at = p.at) => (\E v \in F : v.at = p.at) \/ StatusSeen(e, y, p)
  PROVE  Covered(S, p, F, r, e, y)
  <1>1. /\ S \in [Channels -> SUBSET Times] /\ p.at \in Nat
        /\ d.latest \in [Channels -> Nat] /\ e.latest \in [Channels -> Nat] /\ d.statusAt \in Nat /\ e.statusAt \in Nat
        /\ x.valueAt \in Nat /\ x.statusAt \in Nat /\ x.lastReadingAt \in Nat
        /\ y.valueAt \in Nat /\ y.statusAt \in Nat /\ y.lastReadingAt \in Nat
    BY DEF Has, Dashboards, Tiles
  <1>2. \A c \in Channels : \A t \in S[c] : Seen(d, x, c, t) => Seen(e, y, c, t)
    <2> SUFFICES ASSUME NEW c \in Channels, NEW t \in S[c], Seen(d, x, c, t) PROVE Seen(e, y, c, t)
      OBVIOUS
    <2>1. t \in Nat /\ d.latest[c] \in Nat /\ e.latest[c] \in Nat
      <3>1. S[c] \in SUBSET Times
        BY <1>1
      <3> QED
        BY <1>1, <3>1, TimesFinite
    <2>2. t <= d.latest[c] /\ d.latest[c] <= e.latest[c]
      BY DEF Seen, DashboardGrows
    <2>3. t <= x.lastReadingAt /\ x.lastReadingAt <= y.lastReadingAt /\ x.valueAt <= y.valueAt
      BY DEF Seen, TileGrows
    <2>4. c = TileChannel => t <= x.valueAt
      BY DEF Seen
    <2> QED
      BY <1>1, <2>1, <2>2, <2>3, <2>4 DEF Seen
  <1>3. StatusSeen(d, x, p) => StatusSeen(e, y, p)
    BY <1>1 DEF StatusSeen, DashboardGrows, TileGrows
  <1>4. ASSUME NEW c \in Channels, NEW t \in S[c]
        PROVE  Seen(e, y, c, t) \/ (r.pc = "read" /\ Seen(r.dashboard, r.tile, c, t)) \/ Told(F, c, t)
    BY <1>2 DEF Covered
  <1>5. ASSUME NEW c \in Channels, NEW t \in Bounded(S[c])
        PROVE  t \in e.series[c] \/ (r.pc = "read" /\ t \in r.dashboard.series[c]) \/ Told(F, c, t)
    <2>1. t \in S[c]
      <3>1. S[c] \in SUBSET Times
        BY <1>1
      <3> QED
        BY <3>1, BoundedTwice
    <2> QED
      BY <2>1 DEF Covered, DashboardGrows
  <1>6. \/ StatusSeen(e, y, p) \/ (r.pc = "read" /\ StatusSeen(r.dashboard, r.tile, p))
        \/ \E v \in F : v.at = p.at
    BY <1>3 DEF Covered
  <1> QED
    BY <1>4, <1>5, <1>6 DEF Covered

LEMMA EventArrivesStep ==
  ASSUME LiveInv, NEW v, EventArrives(v)
  PROVE  LiveInv'
  <1> DEFINE S == samples
             p == presence
             d == dashboard
             x == tile
             e == dashboard'
             y == tile'
             F == events \ {v}
  <1>1. /\ Has(S, p) /\ (\A u \in events : EventSound(u, S, p))
        /\ stream \in {"open", "closed"} /\ (stream = "closed" => events = {})
        /\ RenderSound(render, S, p) /\ DashboardSound(d, S, p) /\ TileSound(x, S, p)
        /\ stream = "open" /\ ~RefreshDue(render) => Covered(S, p, events, render, d, x)
    BY DEF LiveInv, LiveHolds
  <1>2. v \in events /\ events' = F /\ EventSound(v, S, p)
    BY <1>1 DEF EventArrives
  <1>3. samples' = S /\ presence' = p /\ stream' = stream /\ render' = render
    BY DEF EventArrives
  <1>4. /\ v.kind = "reading" => /\ e = ApplyReadingToDashboard(d, v.channel, v.at)
                                 /\ y = ApplyReadingToFleet(x, v.channel, v.at)
        /\ v.kind # "reading" => e = ApplyStatusToDashboard(d, v) /\ y = ApplyStatusToFleet(x, v)
    BY DEF EventArrives
  <1> HIDE DEF S, p, d, x, e, y
  <1>5. p.at \in Nat /\ S \in [Channels -> SUBSET Times] /\ TileChannel \in Channels
    BY <1>1, LiveViewAssumption DEF Has
  <1>6. /\ DashboardSound(e, S, p) /\ DashboardGrows(d, e, S) /\ TileSound(y, S, p) /\ TileGrows(x, y)
        /\ v.at = p.at => StatusSeen(e, y, p)
        /\ v.kind = "reading" => /\ Seen(e, y, v.channel, v.at)
                                 /\ v.at \in Bounded(S[v.channel]) => v.at \in e.series[v.channel]
    <2>1. CASE v \in ReadingEvents /\ v.at \in S[v.channel]
      <3>1. v.kind = "reading" /\ v.channel \in Channels
        BY <2>1 DEF ReadingEvents
      <3> DEFINE c == v.channel
                 t == v.at
      <3>2. c \in Channels /\ t \in S[c]
        BY <2>1, <3>1
      <3> HIDE DEF c, t
      <3>3. e = ApplyReadingToDashboard(d, c, t) /\ y = ApplyReadingToFleet(x, c, t)
        BY <1>4, <3>1 DEF c, t
      <3>4. /\ DashboardSound(e, S, p) /\ DashboardGrows(d, e, S)
            /\ t <= e.latest[c] /\ (t \in Bounded(S[c]) => t \in e.series[c])
        BY <1>1, <3>2, <3>3, ReadingOnDashboard
      <3>5. /\ TileSound(y, S, p) /\ TileGrows(x, y)
            /\ t <= y.lastReadingAt /\ (c = TileChannel => t <= y.valueAt)
        BY <1>1, <3>2, <3>3, ReadingOnTile
      <3>6. Seen(e, y, c, t)
        BY <3>4, <3>5 DEF Seen
      <3>7. t <= e.statusAt /\ t <= y.statusAt
        <4>1. t \in Nat
          <5>1. S[c] \in SUBSET Times
            BY <1>5, <3>2
          <5> QED
            BY <3>2, <5>1, TimesFinite
        <4>2. e.latest[c] <= e.statusAt /\ e.latest[c] \in Nat /\ e.statusAt \in Nat
          BY <3>2, <3>4 DEF DashboardSound, Dashboards
        <4>3. y.lastReadingAt <= y.statusAt /\ y.lastReadingAt \in Nat /\ y.statusAt \in Nat
          BY <3>5 DEF TileSound, Tiles
        <4> QED
          BY <3>4, <3>5, <4>1, <4>2, <4>3
      <3> QED
        BY <3>2, <3>4, <3>5, <3>6, <3>7 DEF StatusSeen, c, t
    <2>2. CASE v \in StatusEvents
      <3>1. v.kind # "reading"
        BY <2>2 DEF StatusEvents
      <3>2. e = ApplyStatusToDashboard(d, v) /\ y = ApplyStatusToFleet(x, v)
        BY <1>4, <3>1
      <3>3. DashboardSound(e, S, p) /\ DashboardGrows(d, e, S) /\ v.at <= e.statusAt
        BY <1>1, <1>2, <2>2, <3>2, StatusOnDashboard
      <3>4. TileSound(y, S, p) /\ TileGrows(x, y) /\ v.at <= y.statusAt
        BY <1>1, <1>2, <2>2, <3>2, StatusOnTile
      <3> QED
        BY <3>1, <3>3, <3>4 DEF StatusSeen
    <2> QED
      BY <1>2, <2>1, <2>2 DEF EventSound
  <1>7. stream = "open" /\ ~RefreshDue(render) => Covered(S, p, F, render, e, y)
    <2> SUFFICES ASSUME stream = "open", ~RefreshDue(render) PROVE Covered(S, p, F, render, e, y)
      OBVIOUS
    <2>1. Covered(S, p, events, render, d, x)
      BY <1>1
    <2>2. d \in Dashboards /\ e \in Dashboards /\ x \in Tiles /\ y \in Tiles
      BY <1>1, <1>6 DEF DashboardSound, TileSound
    <2>3. \A c \in Channels : \A t \in S[c] :
            Told(events, c, t) => Told(F, c, t) \/ (Seen(e, y, c, t) /\ (t \in Bounded(S[c]) => t \in e.series[c]))
      <3> SUFFICES ASSUME NEW c \in Channels, NEW t \in S[c], Told(events, c, t), ~Told(F, c, t)
                   PROVE  Seen(e, y, c, t) /\ (t \in Bounded(S[c]) => t \in e.series[c])
        OBVIOUS
      <3>1. v.kind = "reading" /\ v.channel = c /\ v.at = t
        BY DEF Told
      <3> QED
        BY <1>6, <3>1
    <2>4. (\E u \in events : u.at = p.at) => (\E u \in F : u.at = p.at) \/ StatusSeen(e, y, p)
      BY <1>6
    <2> HIDE DEF F
    <2> QED
      BY <1>1, <1>6, <2>1, <2>2, <2>3, <2>4, StaysCovered
  <1>8. LiveHolds(S, p, stream, F, render, e, y)
    BY <1>1, <1>6, <1>7 DEF LiveHolds
  <1> QED
    BY <1>2, <1>3, <1>8 DEF LiveInv, S, p, e, y

LEMMA StreamOpensStep ==
  ASSUME LiveInv, StreamOpens
  PROVE  LiveInv'
  <1>1. /\ Has(samples, presence) /\ (\A e \in events : EventSound(e, samples, presence))
        /\ RenderSound(render, samples, presence)
        /\ DashboardSound(dashboard, samples, presence) /\ TileSound(tile, samples, presence)
    BY DEF LiveInv, LiveHolds
  <1>2. /\ samples' = samples /\ presence' = presence /\ events' = events /\ dashboard' = dashboard /\ tile' = tile
        /\ stream' = "open" /\ render' = AskedAgain
    BY DEF StreamOpens
  <1>3. RenderSound(AskedAgain, samples, presence) /\ RefreshDue(AskedAgain)
    <2>1. /\ render = [pc |-> render.pc, dashboard |-> render.dashboard, tile |-> render.tile, again |-> render.again]
          /\ render.pc \in {"none", "asked", "read"} /\ render.again \in BOOLEAN /\ (render.again => render.pc # "none")
          /\ render.pc = "read" => /\ DashboardSound(render.dashboard, samples, presence)
                                   /\ TileSound(render.tile, samples, presence)
      BY <1>1 DEF RenderSound
    <2>2. CASE render.pc = "none"
      <3>1. AskedAgain = [pc |-> "asked", dashboard |-> render.dashboard, tile |-> render.tile, again |-> FALSE]
        BY <2>1, <2>2 DEF AskedAgain
      <3> QED
        BY <3>1 DEF RenderSound, RefreshDue
    <2>3. CASE render.pc # "none"
      <3>1. AskedAgain = [pc |-> render.pc, dashboard |-> render.dashboard, tile |-> render.tile, again |-> TRUE]
        BY <2>1, <2>3 DEF AskedAgain
      <3> QED
        BY <2>1, <2>3, <3>1 DEF RenderSound, RefreshDue
    <2> QED
      BY <2>2, <2>3
  <1>4. LiveHolds(samples, presence, "open", events, AskedAgain, dashboard, tile)
    BY <1>1, <1>3 DEF LiveHolds
  <1> QED
    BY <1>2, <1>4 DEF LiveInv

LEMMA StreamBreaksStep ==
  ASSUME LiveInv, StreamBreaks
  PROVE  LiveInv'
  <1>1. /\ Has(samples, presence) /\ RenderSound(render, samples, presence)
        /\ DashboardSound(dashboard, samples, presence) /\ TileSound(tile, samples, presence)
    BY DEF LiveInv, LiveHolds
  <1>2. LiveHolds(samples, presence, "closed", {}, render, dashboard, tile)
    BY <1>1 DEF LiveHolds
  <1> QED
    BY <1>2 DEF LiveInv, StreamBreaks

LEMMA SnapshotReadStep ==
  ASSUME LiveInv, SnapshotRead
  PROVE  LiveInv'
  <1> DEFINE S == samples
             p == presence
             r == render'
  <1>1. /\ Has(S, p) /\ (\A e \in events : EventSound(e, S, p))
        /\ stream \in {"open", "closed"} /\ (stream = "closed" => events = {})
        /\ RenderSound(render, S, p) /\ DashboardSound(dashboard, S, p) /\ TileSound(tile, S, p)
    BY DEF LiveInv, LiveHolds
  <1>2. r = [pc |-> "read", dashboard |-> Dashboard(S, p), tile |-> Tile(S, p), again |-> render.again]
    <2>1. /\ render = [pc |-> render.pc, dashboard |-> render.dashboard, tile |-> render.tile, again |-> render.again]
      BY <1>1 DEF RenderSound
    <2>2. r = [render EXCEPT !.pc = "read", !.dashboard = Dashboard(samples, presence), !.tile = Tile(samples, presence)]
      BY DEF SnapshotRead
    <2> QED
      BY <2>1, <2>2
  <1>3. /\ samples' = S /\ presence' = p /\ stream' = stream /\ events' = events
        /\ dashboard' = dashboard /\ tile' = tile
    BY DEF SnapshotRead
  <1> HIDE DEF S, p, r
  <1>4. render.again \in BOOLEAN
    BY <1>1 DEF RenderSound
  <1>5. /\ DashboardSound(Dashboard(S, p), S, p) /\ TileSound(Tile(S, p), S, p)
        /\ \A c \in Channels : Dashboard(S, p).series[c] = Bounded(S[c])
        /\ \A c \in Channels : \A t \in S[c] : t <= Dashboard(S, p).latest[c]
        /\ \A t \in AllOf(S) : t <= Tile(S, p).lastReadingAt
        /\ \A t \in S[TileChannel] : t <= Tile(S, p).valueAt
        /\ Dashboard(S, p).statusAt = p.at /\ Tile(S, p).statusAt = p.at
    BY <1>1, SnapshotSound
  <1>6. r.pc = "read" /\ r.dashboard = Dashboard(S, p) /\ r.tile = Tile(S, p) /\ r.again = render.again
    BY <1>2
  <1>7. RenderSound(r, S, p)
    BY <1>2, <1>4, <1>5, <1>6 DEF RenderSound
  <1>8. Covered(S, p, events, r, dashboard, tile)
    <2>1. \A c \in Channels : \A t \in S[c] : Seen(r.dashboard, r.tile, c, t)
      BY <1>5, <1>6 DEF Seen, AllOf
    <2>2. p.at \in Nat
      BY <1>1 DEF Has
    <2>3. StatusSeen(r.dashboard, r.tile, p)
      BY <1>5, <1>6, <2>2 DEF StatusSeen
    <2> QED
      BY <1>5, <1>6, <2>1, <2>3 DEF Covered
  <1>9. LiveHolds(S, p, stream, events, r, dashboard, tile)
    BY <1>1, <1>7, <1>8 DEF LiveHolds
  <1> QED
    BY <1>3, <1>9 DEF LiveInv, r

LEMMA SnapshotShownStep ==
  ASSUME LiveInv, SnapshotShown
  PROVE  LiveInv'
  <1> DEFINE S == samples
             p == presence
             r == render'
             a == render.dashboard
             b == render.tile
             d == dashboard
             x == tile
             e == dashboard'
             y == tile'
  <1>1. /\ Has(S, p) /\ (\A v \in events : EventSound(v, S, p))
        /\ stream \in {"open", "closed"} /\ (stream = "closed" => events = {})
        /\ RenderSound(render, S, p) /\ DashboardSound(d, S, p) /\ TileSound(x, S, p)
        /\ stream = "open" /\ ~RefreshDue(render) => Covered(S, p, events, render, d, x)
    BY DEF LiveInv, LiveHolds
  <1>2. /\ render.pc = "read" /\ e = MergeDashboardSnapshot(a, d) /\ y = MergeFleetSnapshot(b, x)
        /\ r = [NoRender EXCEPT !.pc = IF render.again THEN "asked" ELSE "none"]
    BY DEF SnapshotShown
  <1>3. samples' = S /\ presence' = p /\ stream' = stream /\ events' = events
    BY DEF SnapshotShown
  <1>4. DashboardSound(a, S, p) /\ TileSound(b, S, p)
    BY <1>1, <1>2 DEF RenderSound
  <1> HIDE DEF S, p, r, a, b, d, x, e, y
  <1>5. r = [pc |-> IF render.again THEN "asked" ELSE "none", dashboard |-> <<>>, tile |-> <<>>, again |-> FALSE]
    BY <1>2 DEF NoRender
  <1>6. RenderSound(r, S, p)
    BY <1>5 DEF RenderSound
  <1>7. DashboardSound(e, S, p) /\ DashboardGrows(a, e, S) /\ DashboardGrows(d, e, S)
    BY <1>1, <1>2, <1>4, MergedDashboards
  <1>8. TileSound(y, S, p) /\ TileGrows(b, y) /\ TileGrows(x, y)
    BY <1>1, <1>2, <1>4, MergedTiles
  <1>9. ASSUME stream = "open", ~RefreshDue(r) PROVE Covered(S, p, events, r, e, y)
    <2> DEFINE E == events
    <2>1. ~RefreshDue(render) /\ r.pc = "none"
      <3>1. ~render.again
        BY <1>5, <1>9 DEF RefreshDue
      <3> QED
        BY <1>2, <1>5, <3>1 DEF RefreshDue
    <2>2. Covered(S, p, E, render, d, x)
      BY <1>1, <1>9, <2>1
    <2>3. a \in Dashboards /\ d \in Dashboards /\ e \in Dashboards /\ b \in Tiles /\ x \in Tiles /\ y \in Tiles
      BY <1>1, <1>4, <1>7, <1>8 DEF DashboardSound, TileSound
    <2>4. Covered(S, p, E, render, e, y)
      <3>1. \A c \in Channels : \A t \in S[c] :
              Told(E, c, t) => Told(E, c, t) \/ (Seen(e, y, c, t) /\ (t \in Bounded(S[c]) => t \in e.series[c]))
        OBVIOUS
      <3>2. (\E v \in E : v.at = p.at) => (\E v \in E : v.at = p.at) \/ StatusSeen(e, y, p)
        OBVIOUS
      <3> HIDE DEF E
      <3> QED
        BY <1>1, <1>7, <1>8, <2>2, <2>3, <3>1, <3>2, StaysCovered
    <2>5. \A c \in Channels : \A t \in S[c] : Seen(a, b, c, t) => Seen(e, y, c, t)
      <3> SUFFICES ASSUME NEW c \in Channels, NEW t \in S[c], Seen(a, b, c, t) PROVE Seen(e, y, c, t)
        OBVIOUS
      <3>1. t \in Nat
        <4>1. S[c] \in SUBSET Times
          BY <1>1 DEF Has
        <4> QED
          BY <4>1, TimesFinite
      <3>2. a.latest[c] \in Nat /\ e.latest[c] \in Nat /\ t <= a.latest[c] /\ a.latest[c] <= e.latest[c]
        BY <1>7, <2>3 DEF Seen, DashboardGrows, Dashboards
      <3>3. /\ b.lastReadingAt \in Nat /\ y.lastReadingAt \in Nat /\ t <= b.lastReadingAt
            /\ b.lastReadingAt <= y.lastReadingAt
            /\ b.valueAt \in Nat /\ y.valueAt \in Nat /\ b.valueAt <= y.valueAt
            /\ (c = TileChannel => t <= b.valueAt)
        BY <1>8, <2>3 DEF Seen, TileGrows, Tiles
      <3> QED
        BY <3>1, <3>2, <3>3 DEF Seen
    <2>6. StatusSeen(a, b, p) => StatusSeen(e, y, p)
      <3>1. p.at \in Nat /\ a.statusAt \in Nat /\ e.statusAt \in Nat /\ b.statusAt \in Nat /\ y.statusAt \in Nat
        BY <1>1, <2>3 DEF Has, Dashboards, Tiles
      <3> QED
        BY <1>7, <1>8, <3>1 DEF StatusSeen, DashboardGrows, TileGrows
    <2>7. \A c \in Channels : \A t \in Bounded(S[c]) : t \in a.series[c] => t \in e.series[c]
      BY <1>7 DEF DashboardGrows
    <2> HIDE DEF E
    <2>8. Covered(S, p, E, r, e, y)
      BY <2>4, <2>5, <2>6, <2>7 DEF Covered, a, b
    <2> QED
      BY <2>8 DEF E
  <1>10. LiveHolds(S, p, stream, events, r, e, y)
    BY <1>1, <1>6, <1>7, <1>8, <1>9 DEF LiveHolds
  <1> QED
    BY <1>3, <1>10 DEF LiveInv, r, e, y

LEMMA LiveStep == LiveInv /\ (LiveNext \/ UNCHANGED liveVars) => LiveInv'
  <1>1. ASSUME LiveInv, LiveNext PROVE LiveInv'
    <2>1. ASSUME NEW t \in 1 .. MaxTime, NEW c \in Channels, ReadingStored(c, t) PROVE LiveInv'
      BY <1>1, <2>1, ReadingStoredStep DEF Times
    <2>2. ASSUME NEW t \in 1 .. MaxTime, NEW s \in {"online", "offline"}, StatusObserved(s, t) PROVE LiveInv'
      BY <1>1, <2>2, StatusObservedStep DEF Times
    <2>3. CASE StreamOpens
      BY <1>1, <2>3, StreamOpensStep
    <2>4. CASE StreamBreaks
      BY <1>1, <2>4, StreamBreaksStep
    <2>5. ASSUME NEW e \in events, EventArrives(e) PROVE LiveInv'
      BY <1>1, <2>5, EventArrivesStep
    <2>6. CASE SnapshotRead
      BY <1>1, <2>6, SnapshotReadStep
    <2>7. CASE SnapshotShown
      BY <1>1, <2>7, SnapshotShownStep
    <2> QED
      BY <1>1, <2>1, <2>2, <2>3, <2>4, <2>5, <2>6, <2>7 DEF LiveNext
  <1>2. ASSUME LiveInv, UNCHANGED liveVars PROVE LiveInv'
    BY <1>2 DEF liveVars, LiveInv
  <1> QED
    BY <1>1, <1>2

\* With nothing on its way and no refresh under way, the views are the service's answers.
LEMMA LiveAgrees == LiveInv => ViewsAgree
  <1> SUFFICES ASSUME LiveInv, stream = "open", events = {}, render.pc = "none"
               PROVE  dashboard = Dashboard(samples, presence) /\ tile = Tile(samples, presence)
    BY DEF ViewsAgree
  <1> DEFINE S == samples
             p == presence
             d == dashboard
             x == tile
             n == NewestOf(AllOf(S))
  <1>1. Has(S, p) /\ DashboardSound(d, S, p) /\ TileSound(x, S, p) /\ Covered(S, p, {}, render, d, x)
    <2>1. ~RefreshDue(render)
      BY DEF LiveInv, LiveHolds, RenderSound, RefreshDue
    <2> QED
      BY <2>1 DEF LiveInv, LiveHolds
  <1> HIDE DEF S, p, d, x
  <1>2. /\ S \in [Channels -> SUBSET Times] /\ p.at \in Nat /\ d \in Dashboards /\ x \in Tiles
        /\ TileChannel \in Channels
    BY <1>1, LiveViewAssumption DEF Has, DashboardSound, TileSound
  <1>3. /\ \A c \in Channels : \A t \in S[c] : Seen(d, x, c, t)
        /\ \A c \in Channels : \A t \in Bounded(S[c]) : t \in d.series[c]
        /\ StatusSeen(d, x, p)
    BY <1>1 DEF Covered, Told
  <1>4. /\ d.latest \in [Channels -> Nat] /\ d.series \in [Channels -> SUBSET Times]
        /\ d.statusAt \in Nat /\ d.lastReadingAt \in Nat
        /\ x.valueAt \in Nat /\ x.statusAt \in Nat /\ x.lastReadingAt \in Nat
    BY <1>2 DEF Dashboards, Tiles
  <1>5. d.statusAt = p.at /\ x.statusAt = p.at /\ d.status = p.status /\ x.status = p.status
    <2>1. d.statusAt = p.at /\ x.statusAt = p.at
      BY <1>1, <1>2, <1>3, <1>4 DEF StatusSeen, DashboardSound, TileSound
    <2> QED
      BY <1>1, <2>1 DEF DashboardSound, TileSound
  <1>6. \A c \in Channels : /\ NewestOf(S[c]) \in S[c] \cup {0} /\ NewestOf(S[c]) \in Nat
                            /\ \A t \in S[c] : t <= NewestOf(S[c])
    <2>1. \A c \in Channels : S[c] \in SUBSET Times
      BY <1>2
    <2> QED
      BY <2>1, NewestIs
  <1>7. AllOf(S) \in SUBSET Times /\ n \in AllOf(S) \cup {0} /\ n \in Nat /\ \A t \in AllOf(S) : t <= n
    <2>1. AllOf(S) \in SUBSET Times
      BY <1>2, AllTimes
    <2> QED
      BY <2>1, NewestIs
  <1> HIDE DEF n
  <1>8. ASSUME NEW c \in Channels PROVE d.latest[c] = NewestOf(S[c])
    <2>1. d.latest[c] \in S[c] \cup {0} /\ d.latest[c] \in Nat
      BY <1>1, <1>4 DEF DashboardSound
    <2>2. NewestOf(S[c]) <= d.latest[c]
      BY <1>3, <1>6, <2>1 DEF Seen
    <2>3. d.latest[c] <= NewestOf(S[c])
      BY <1>6, <2>1
    <2> QED
      BY <1>6, <2>1, <2>2, <2>3
  <1>9. ASSUME NEW c \in Channels PROVE d.series[c] = Bounded(S[c])
    <2> DEFINE R == S[c]
               P == d.series[c]
    <2>1. R \in SUBSET Times /\ P \in SUBSET R /\ Bounded(P) = P /\ Bounded(R) \subseteq P
      BY <1>1, <1>2, <1>3 DEF DashboardSound
    <2> HIDE DEF R, P
    <2>2. P = Bounded(R)
      BY <2>1, KeptIsEnough
    <2> QED
      BY <2>2 DEF R, P
  <1>10. \A c \in Channels : \A t \in S[c] : t <= d.latest[c] /\ t <= x.lastReadingAt
    BY <1>3 DEF Seen
  <1>11. d.lastReadingAt = n /\ x.lastReadingAt = n
    <2>1. d.lastReadingAt \in AllOf(S) \cup {0} /\ x.lastReadingAt \in AllOf(S) \cup {0}
      BY <1>1 DEF DashboardSound, TileSound
    <2>2. d.lastReadingAt <= n /\ x.lastReadingAt <= n
      <3>1. \A a \in AllOf(S) \cup {0} : a <= n
        BY <1>7
      <3> QED
        BY <2>1, <3>1
    <2>3. n <= d.lastReadingAt /\ n <= x.lastReadingAt
      <3>1. CASE n = 0
        BY <1>4, <3>1
      <3>2. CASE n \in AllOf(S)
        <4>1. PICK c \in Channels : n \in S[c]
          BY <3>2 DEF AllOf
        <4>2. n <= d.latest[c] /\ n <= x.lastReadingAt
          BY <1>10, <4>1
        <4>3. d.latest[c] <= d.lastReadingAt /\ d.latest[c] \in Nat
          BY <1>1, <1>4 DEF DashboardSound
        <4> QED
          BY <1>4, <1>7, <4>2, <4>3
      <3> QED
        BY <1>7, <3>1, <3>2
    <2> QED
      BY <1>4, <1>7, <2>2, <2>3
  <1>12. x.valueAt = NewestOf(S[TileChannel])
    <2>1. x.valueAt \in S[TileChannel] \cup {0}
      BY <1>1 DEF TileSound
    <2>2. \A t \in S[TileChannel] : t <= x.valueAt
      BY <1>2, <1>3 DEF Seen
    <2>3. x.valueAt <= NewestOf(S[TileChannel]) /\ NewestOf(S[TileChannel]) <= x.valueAt
      BY <1>2, <1>4, <1>6, <2>1, <2>2
    <2> QED
      BY <1>2, <1>4, <1>6, <2>3
  <1>13. d = Dashboard(S, p)
    <2>1. d = [latest |-> d.latest, series |-> d.series, status |-> d.status, statusAt |-> d.statusAt,
               lastReadingAt |-> d.lastReadingAt]
      BY <1>2 DEF Dashboards
    <2>2. d.latest = [c \in Channels |-> NewestOf(S[c])]
      BY <1>4, <1>8
    <2>3. d.series = [c \in Channels |-> Bounded(S[c])]
      BY <1>4, <1>9
    <2> QED
      BY <1>5, <1>11, <2>1, <2>2, <2>3 DEF Dashboard, AllOf, n
  <1>14. x = Tile(S, p)
    <2>1. x = [valueAt |-> x.valueAt, status |-> x.status, statusAt |-> x.statusAt, lastReadingAt |-> x.lastReadingAt]
      BY <1>2 DEF Tiles
    <2> QED
      BY <1>5, <1>11, <1>12, <2>1 DEF Tile, AllOf, n
  <1> QED
    BY <1>13, <1>14 DEF S, p, d, x

(***************************************************************************)
(* The portal: one part at work while the others rest.                     *)
(***************************************************************************)

\* No edit of a device's name replaces one its author had not been shown: the lock on the
\* version and the reload after a refusal (DeviceName.tsx, renameDevice).
THEOREM NamesKept == Spec => []NoNameLost
  <1>1. Spec => []NamingInv
    <2>1. PortalInit => NamingInv
      BY NamingInitially DEF PortalInit
    <2>2. NamingInv /\ [PortalNext]_portalVars => NamingInv'
      <3> SUFFICES ASSUME NamingInv, [PortalNext]_portalVars PROVE NamingInv'
        OBVIOUS
      <3>1. DeviceNext \/ UNCHANGED deviceVars
        BY DEF PortalNext, portalVars
      <3> QED
        BY <3>1, NamingStep
    <2> QED
      BY <2>1, <2>2, PTL DEF Spec
  <1>2. NamingInv => NoNameLost
    BY DEF NamingInv
  <1> QED
    BY <1>1, <1>2, PTL

\* A tab acts in the workspace it shows, for the person it shows: the check of the session
\* before anything is shown, and the reload on any other answer (WorkspaceGuard, workspace-sync.ts).
THEOREM ActsAreShown == Spec => []ActsWhereShown
  <1>1. Spec => []WorkspaceInv
    <2>1. PortalInit => WorkspaceInv
      BY WorkspaceInitially DEF PortalInit
    <2>2. WorkspaceInv /\ [PortalNext]_portalVars => WorkspaceInv'
      <3> SUFFICES ASSUME WorkspaceInv, [PortalNext]_portalVars PROVE WorkspaceInv'
        OBVIOUS
      <3>1. WorkspaceNext \/ UNCHANGED workspaceVars
        BY DEF PortalNext, portalVars
      <3> QED
        BY <3>1, WorkspaceStep
    <2> QED
      BY <2>1, <2>2, PTL DEF Spec
  <1>2. WorkspaceInv => ActsWhereShown
    BY ActsSound
  <1> QED
    BY <1>1, <1>2, PTL

\* The rules card never goes back: whatever the order of writes, refusals, lost responses and
\* refreshes, a row shows the newest version the card was told of (closed-loop-flow.ts).
THEOREM RulesNeverGoBack == Spec => []NewestShown
  <1>1. Spec => []CardInv
    <2>1. PortalInit => CardInv
      BY CardInitially DEF PortalInit
    <2>2. CardInv /\ [PortalNext]_portalVars => CardInv'
      <3> SUFFICES ASSUME CardInv, [PortalNext]_portalVars PROVE CardInv'
        OBVIOUS
      <3>1. CardNext \/ UNCHANGED cardVars
        BY DEF PortalNext, portalVars
      <3> QED
        BY <3>1, CardStep
    <2> QED
      BY <2>1, <2>2, PTL DEF Spec
  <1>2. CardInv => NewestShown
    BY NewestSound
  <1> QED
    BY <1>1, <1>2, PTL

\* What the portal shows is what it was told: the rules card as above, and the dashboard and the
\* fleet tile, which show exactly what the service has once a connection is up, the refresh it
\* asked for is shown and no event is on its way, for any number of channels, readings and
\* connections and any window and cap (mergeDashboardSnapshot, mergeFleetSnapshot, useLiveStream.ts).
THEOREM PortalIsCurrent == Spec => []ShownIsCurrent
  <1>1. Spec => []LiveInv
    <2>1. PortalInit => LiveInv
      BY LiveInitially DEF PortalInit
    <2>2. LiveInv /\ [PortalNext]_portalVars => LiveInv'
      <3> SUFFICES ASSUME LiveInv, [PortalNext]_portalVars PROVE LiveInv'
        OBVIOUS
      <3>1. LiveNext \/ UNCHANGED liveVars
        BY DEF PortalNext, portalVars
      <3> QED
        BY <3>1, LiveStep
    <2> QED
      BY <2>1, <2>2, PTL DEF Spec
  <1>2. LiveInv /\ NewestShown => ShownIsCurrent
    BY LiveAgrees DEF ShownIsCurrent
  <1> QED
    BY <1>1, <1>2, RulesNeverGoBack, PTL

(***************************************************************************)
(* The conversation: what the build holds, what the page and the messages  *)
(* on their way to it know of that, and who may still be shown it.         *)
(***************************************************************************)
Questions == {m \in Committed : IsUser(m)}
Shown == ToSet(page.msgs)

\* A reply is never without its question.
Answering(S, R) == \A m \in S : ~IsUser(m) => m - 1 \in R

\* Positions are bounded, the k-th question has the text k, and no two questions share an id.
LogInv ==
  /\ Committed \subseteq 2 .. 2 * MaxUser + 1 /\ nextId \in Nat \ {0}
  /\ Committed # {} => \E m \in Committed : \A n \in Committed : n <= m
  /\ Answering(Committed, Committed)
  /\ \A m \in Questions : log[m].text = Ms(m) /\ log[m].id \in 1 .. nextId - 1
  /\ \A m \in Committed : ~IsUser(m) => log[m].text = 0 /\ log[m].id = 0
  /\ \A m, n \in Questions : log[m].id = log[n].id => m = n
  /\ turn = 0 \/ turn \in Questions

\* A text under an id is the text stored under it, or the next one.
Writes(text, id) ==
  /\ id \in 1 .. nextId - 1
  /\ \A m \in Questions : log[m].id = id => Ms(m) = text
  /\ (\A m \in Questions : log[m].id # id) => text = Ms(NewestMessage) + 1

PostInv ==
  /\ post = NoPost \/ Writes(post.text, post.id)
  /\ page.unsent = <<>> \/ (page.unsent = <<page.unsent[1], page.unsent[2]>>
                            /\ Writes(page.unsent[1], page.unsent[2]))
  /\ post # NoPost /\ page.unsent # <<>> => page.unsent = <<post.text, post.id>>
  /\ post.answer = "accepted" => \E m \in Questions : log[m].id = post.id

ReadInv ==
  \/ read.got = <<>> \/ read.got = <<"detail", read.got[2]>>
  \/ /\ read.got = <<"messages", read.got[2]>> /\ read.got[2] \subseteq Committed
     /\ Answering(read.got[2], read.got[2])

\* Every question up to a position is shown.
UpTo(position, S) == position \in Committed \cup {0} /\ \A n \in Questions : n <= position => n \in S

PageInv ==
  /\ page.msgs \in Seq(Committed) /\ TranscriptInOrder /\ Answering(Shown, Shown)
  /\ UpTo(page.lastId, Shown)

\* The stream the page is connected to has sent no message that is not shown or on its way,
\* and every question up to its cursor.
FollowInv(x) ==
  LET known == Shown \cup x.batch.msgs IN
  /\ x.batch.msgs \subseteq Committed /\ \A m \in x.batch.msgs : m <= x.cursor
  /\ x.sent \subseteq known /\ Answering(x.batch.msgs, known)
  /\ UpTo(x.cursor, known) /\ UpTo(x.batch.id, Shown) /\ x.batch.id <= x.cursor
  /\ x.resume \in Nat /\ x.resume <= x.cursor

SourceInv == page.source = 0 \/ (page.source \in Streams /\ FollowInv(streams[page.source]))

\* Once the build is lost nothing is asked in it, and whatever may still reach the page is old.
AccessInv ==
  ~held =>
    /\ Questions \cup Shown \subseteq cut
    /\ page.source # 0 => streams[page.source].batch.msgs \subseteq cut
    /\ read.got # <<>> /\ read.got[1] = "messages" => read.got[2] \subseteq cut

EventsInv == LogInv /\ PostInv /\ ReadInv /\ PageInv /\ SourceInv /\ AccessInv /\ LeasesExact

(***************************************************************************)
(* Positions, ranks and the merge.                                         *)
(***************************************************************************)
\* A position is its millisecond's question or the reply to it.
LEMMA Positions ==
  /\ \A m \in Nat : /\ Ms(m) \in Nat
                    /\ IsUser(m) => m = 2 * Ms(m)
                    /\ ~IsUser(m) => m = 2 * Ms(m) + 1
  /\ \A k \in Nat : IsUser(2 * k) /\ Ms(2 * k) = k /\ ~IsUser(2 * k + 1) /\ Ms(2 * k + 1) = k
  BY DEF Ms, IsUser

\* What is left of a position when another one shares its millisecond.
LEMMA Neighbours ==
  ASSUME NEW m \in Nat, NEW n \in Nat, m < n, Ms(m) = Ms(n)
  PROVE  IsUser(m) /\ ~IsUser(n) /\ m = n - 1
  <1>1. PICK k \in Nat : k = Ms(m) /\ k = Ms(n)
    BY Positions
  <1>2. (m = 2 * k /\ IsUser(m)) \/ (m = 2 * k + 1 /\ ~IsUser(m))
    BY <1>1, Positions
  <1>3. (n = 2 * k /\ IsUser(n)) \/ (n = 2 * k + 1 /\ ~IsUser(n))
    BY <1>1, Positions
  <1> QED
    BY <1>1, <1>2, <1>3

LEMMA LaterMillisecond ==
  ASSUME NEW m \in Nat, NEW n \in Nat, Ms(m) < Ms(n)
  PROVE  m < n
  <1>1. Ms(m) \in Nat /\ Ms(n) \in Nat
    BY Positions
  <1>2. PICK j \in Nat, k \in Nat : j = Ms(m) /\ k = Ms(n)
    BY <1>1
  <1>3. (m = 2 * j \/ m = 2 * j + 1) /\ (n = 2 * k \/ n = 2 * k + 1)
    BY <1>2, Positions
  <1> QED
    BY <1>2, <1>3

\* A sequence of positions in order, each question before its reply.
InOrder(s) == s \in Seq(Nat) /\ \A i, j \in 1 .. Len(s) : i < j => s[i] < s[j]

LEMMA ShownIn ==
  ASSUME NEW s, s \in Seq(Nat)
  PROVE  /\ ToSet(s) \subseteq Nat /\ IsFiniteSet(ToSet(s))
         /\ \A i \in 1 .. Len(s) : s[i] \in ToSet(s)
         /\ \A m \in ToSet(s) : \E i \in 1 .. Len(s) : s[i] = m
  <1>1. Len(s) \in Nat /\ DOMAIN s = 1 .. Len(s) /\ \A i \in 1 .. Len(s) : s[i] \in Nat
    BY LenProperties, ElementOfSeq
  <1>2. s \in Surjection(1 .. Len(s), ToSet(s))
    <2>1. s \in [1 .. Len(s) -> ToSet(s)]
      BY <1>1, LenProperties DEF ToSet
    <2> QED
      BY <1>1, <2>1 DEF Surjection, ToSet
  <1>3. IsFiniteSet(1 .. Len(s))
    BY <1>1, FS_Interval
  <1>4. IsFiniteSet(ToSet(s))
    BY <1>2, <1>3, FS_Surjection
  <1> QED
    BY <1>1, <1>4 DEF ToSet

\* Where a question and its reply are both shown or arrive, the question's place is first.
LEMMA QuestionFirst ==
  ASSUME NEW cur, InOrder(cur), NEW S \in SUBSET Nat, Answering(ToSet(cur), ToSet(cur)),
         NEW m \in ToSet(cur) \cup S, NEW n \in ToSet(cur) \cup S, m < n, Ms(m) = Ms(n)
  PROVE  Place(cur, m) < Place(cur, n)
  <1>1. cur \in Seq(Nat) /\ Len(cur) \in Nat /\ DOMAIN cur = 1 .. Len(cur)
    BY LenProperties DEF InOrder
  <1>2. m \in Nat /\ n \in Nat
    BY <1>1, ShownIn
  <1>3. ~IsUser(n) /\ m = n - 1
    BY <1>2, Neighbours
  <1>4. ASSUME NEW l \in ToSet(cur)
        PROVE  Place(cur, l) \in 1 .. Len(cur) /\ cur[Place(cur, l)] = l
    <2>1. \E i \in DOMAIN cur : cur[i] = l
      BY <1>1, ShownIn
    <2> QED
      BY <1>1, <2>1 DEF Place
  <1>5. ASSUME NEW l \in Nat, l \notin ToSet(cur)
        PROVE  Place(cur, l) = Len(cur) + l
    BY <1>5 DEF Place
  <1>6. CASE n \in ToSet(cur)
    <2>1. m \in ToSet(cur)
      BY <1>3, <1>6 DEF Answering
    <2>2. PICK i \in 1 .. Len(cur), j \in 1 .. Len(cur) : i = Place(cur, m) /\ j = Place(cur, n)
      BY <1>4, <1>6, <2>1
    <2>3. cur[i] = m /\ cur[j] = n
      BY <1>4, <1>6, <2>1, <2>2
    <2>4. j < i => cur[j] < cur[i]
      BY DEF InOrder
    <2> QED
      BY <1>1, <1>2, <2>2, <2>3, <2>4
  <1>7. CASE n \notin ToSet(cur)
    <2>1. Place(cur, n) = Len(cur) + n
      BY <1>2, <1>5, <1>7
    <2>2. CASE m \in ToSet(cur)
      BY <1>1, <1>2, <1>3, <1>4, <2>1, <2>2
    <2>3. CASE m \notin ToSet(cur)
      BY <1>1, <1>2, <1>3, <1>5, <2>1, <2>3
    <2> QED
      BY <2>2, <2>3
  <1> QED
    BY <1>6, <1>7

\* The stable sort by milliseconds puts them in the database's order.
LEMMA BeforeIsOrder ==
  ASSUME NEW cur, InOrder(cur), NEW S \in SUBSET Nat, Answering(ToSet(cur), ToSet(cur)),
         NEW m \in ToSet(cur) \cup S, NEW n \in ToSet(cur) \cup S
  PROVE  Before(cur, m, n) <=> m < n
  <1>1. cur \in Seq(Nat) /\ m \in Nat /\ n \in Nat
    BY ShownIn DEF InOrder
  <1>2. Ms(m) \in Nat /\ Ms(n) \in Nat
    BY <1>1, Positions
  <1>3. CASE Ms(m) < Ms(n)
    BY <1>1, <1>3, LaterMillisecond DEF Before
  <1>4. CASE Ms(n) < Ms(m)
    <2>1. n < m
      BY <1>1, <1>4, LaterMillisecond
    <2> QED
      BY <1>1, <1>2, <1>4, <2>1 DEF Before
  <1>5. CASE Ms(m) = Ms(n)
    <2>1. Before(cur, m, n) <=> Place(cur, m) < Place(cur, n)
      BY <1>2, <1>5 DEF Before
    <2>2. Place(cur, m) \in Nat /\ Place(cur, n) \in Nat
      <3>1. Len(cur) \in Nat /\ DOMAIN cur = 1 .. Len(cur)
        BY <1>1, LenProperties
      <3>2. ASSUME NEW l \in Nat PROVE Place(cur, l) \in Nat
        <4>1. l \in ToSet(cur) => \E i \in DOMAIN cur : cur[i] = l
          BY <1>1, <3>1, ShownIn
        <4> QED
          BY <3>1, <4>1 DEF Place
      <3> QED
        BY <1>1, <3>2
    <2>3. CASE m < n
      <3>1. Place(cur, m) < Place(cur, n)
        BY <1>5, <2>3, QuestionFirst
      <3> QED
        BY <2>1, <2>3, <3>1
    <2>4. CASE n < m
      <3>1. Place(cur, n) < Place(cur, m)
        BY <1>5, <2>4, QuestionFirst
      <3> QED
        BY <1>1, <2>1, <2>2, <2>4, <3>1
    <2>5. CASE m = n
      BY <1>1, <2>1, <2>2, <2>5
    <2> QED
      BY <1>1, <2>3, <2>4, <2>5
  <1> QED
    BY <1>2, <1>3, <1>4, <1>5

\* What is merged is in order, and is what was shown and what arrived.
LEMMA MergedInOrder ==
  ASSUME NEW cur, InOrder(cur), NEW S \in SUBSET Nat, IsFiniteSet(S), Answering(ToSet(cur), ToSet(cur))
  PROVE  InOrder(Merged(cur, S)) /\ ToSet(Merged(cur, S)) = ToSet(cur) \cup S
  <1> DEFINE all == ToSet(cur) \cup S
             t == Merged(cur, S)
             c == Cardinality(all)
             Rank(m) == Cardinality({n \in all : n < m})
  <1>1. all \in SUBSET Nat /\ IsFiniteSet(all)
    <2>1. cur \in Seq(Nat)
      BY DEF InOrder
    <2>2. IsFiniteSet(ToSet(cur)) /\ ToSet(cur) \subseteq Nat
      BY <2>1, ShownIn
    <2> QED
      BY <2>2, FS_Union
  <1>2. /\ c \in Nat
        /\ \A m \in all : Rank(m) \in 0 .. c - 1
        /\ \A m, n \in all : m < n => Rank(m) < Rank(n)
        /\ \A i \in 0 .. c - 1 : \E m \in all : Rank(m) = i
    <2> HIDE DEF all
    <2> QED
      BY <1>1, Ranks
  <1>3. \A m \in all : {n \in all : Before(cur, n, m)} = {n \in all : n < m}
    BY BeforeIsOrder
  <1>4. t = [k \in 1 .. c |-> CHOOSE m \in all : Cardinality({n \in all : Before(cur, n, m)}) = k - 1]
    BY DEF Merged
  <1>5. \A m \in all : Cardinality({n \in all : Before(cur, n, m)}) = Rank(m)
    BY <1>3
  <1> HIDE DEF t, all, Rank, c
  <1>6. ASSUME NEW k \in 1 .. c PROVE t[k] \in all /\ Rank(t[k]) = k - 1
    <2>1. \E m \in all : Cardinality({n \in all : Before(cur, n, m)}) = k - 1
      <3>1. k - 1 \in 0 .. c - 1
        BY <1>2
      <3>2. PICK m \in all : Rank(m) = k - 1
        BY <1>2, <3>1
      <3> QED
        BY <1>5, <3>2
    <2>2. t[k] \in all /\ Cardinality({n \in all : Before(cur, n, t[k])}) = k - 1
      BY <1>4, <2>1
    <2> QED
      BY <1>5, <2>2
  <1>7. t \in [1 .. c -> all] /\ t \in Seq(Nat) /\ Len(t) = c /\ DOMAIN t = 1 .. c
    <2>1. t \in [1 .. c -> all]
      BY <1>4, <1>6
    <2>2. t \in [1 .. c -> Nat]
      BY <1>1, <2>1
    <2>3. t \in Seq(Nat)
      BY <1>2, <2>2, SeqDef
    <2>4. Len(t) \in Nat /\ DOMAIN t = 1 .. Len(t)
      BY <2>3, LenProperties
    <2>5. DOMAIN t = 1 .. c
      BY <2>1
    <2>6. Len(t) = c
      <3>1. \A n \in Nat : n \in 1 .. Len(t) <=> n \in 1 .. c
        BY <2>4, <2>5, Zenon
      <3>2. PICK l \in Nat : l = Len(t)
        BY <2>4, Zenon
      <3>3. ~(l < c) /\ ~(c < l)
        BY <1>2, <3>1, <3>2
      <3> QED
        BY <1>2, <3>2, <3>3
    <2> QED
      BY <2>1, <2>3, <2>5, <2>6
  <1>8. ASSUME NEW i \in 1 .. Len(t), NEW j \in 1 .. Len(t), i < j PROVE t[i] < t[j]
    <2>1. t[i] \in all /\ t[j] \in all /\ Rank(t[i]) = i - 1 /\ Rank(t[j]) = j - 1
      BY <1>6, <1>7
    <2>2. t[i] \in Nat /\ t[j] \in Nat
      BY <1>1, <2>1
    <2>3. t[j] < t[i] => Rank(t[j]) < Rank(t[i])
      BY <1>2, <2>1
    <2>4. i \in Nat /\ j \in Nat
      BY <1>2, <1>7
    <2> QED
      BY <1>8, <2>1, <2>2, <2>3, <2>4
  <1>9. ASSUME NEW m \in all PROVE \E k \in 1 .. c : t[k] = m
    <2>1. PICK r \in 0 .. c - 1 : r = Rank(m)
      BY <1>2
    <2>2. r + 1 \in 1 .. c
      BY <1>2, <2>1
    <2>3. t[r + 1] \in all /\ Rank(t[r + 1]) = (r + 1) - 1
      BY <1>6, <2>2
    <2>4. Rank(t[r + 1]) = r
      BY <1>2, <2>1, <2>3
    <2>5. t[r + 1] = m
      <3>1. t[r + 1] < m => Rank(t[r + 1]) < Rank(m)
        BY <1>2, <2>3
      <3>2. m < t[r + 1] => Rank(m) < Rank(t[r + 1])
        BY <1>2, <2>3
      <3>3. t[r + 1] \in Nat /\ m \in Nat
        BY <1>1, <2>3
      <3>4. ~(t[r + 1] < m) /\ ~(m < t[r + 1])
        BY <2>1, <2>4, <3>1, <3>2
      <3> QED
        BY <3>3, <3>4
    <2> QED
      BY <2>2, <2>5
  <1>10. ToSet(t) = all
    BY <1>6, <1>7, <1>9 DEF ToSet
  <1> QED
    BY <1>7, <1>8, <1>10 DEF t, all, InOrder

\* A finite set of positions has a last one.
(***************************************************************************)
(* The page's operators: which of them touch what is shown.                *)
(***************************************************************************)
PageFields == {"build", "msgs", "mine", "status", "spec", "observed", "refErr", "overdue", "unsent",
               "attempt", "source", "lastId", "state"}
StreamFields == {"st", "resume", "cursor", "told", "sent", "batch"}

IsPage(p) == p = [f \in PageFields |-> p[f]]
IsStream(x) == x = [f \in StreamFields |-> x[f]]

\* The messages, the connection and what is to be sent again stay as they are.
Kept(p, q) ==
  IsPage(q) /\ q.msgs = p.msgs /\ q.source = p.source /\ q.lastId = p.lastId /\ q.unsent = p.unsent

\* Messages arrive.
Takes(p, q, S) ==
  /\ IsPage(q) /\ q.msgs = Merged(p.msgs, S)
  /\ q.source = p.source /\ q.lastId = p.lastId /\ q.unsent = p.unsent

Shapes ==
  /\ IsPage(page) /\ streams = [s \in Streams |-> streams[s]] /\ \A s \in Streams : IsStream(streams[s])
  /\ post = [text |-> post.text, id |-> post.id, answer |-> post.answer]
  /\ read = [on |-> read.on, min |-> read.min, retry |-> read.retry, got |-> read.got]

LEMMA KeepingOperators ==
  ASSUME NEW p, IsPage(p)
  PROVE  /\ Kept(p, p) /\ Kept(p, Clocked(p)) /\ Kept(p, SettleOverdue(p)) /\ Kept(p, RefreshFailed(p))
         /\ Kept(p, Overdue(p)) /\ Kept(p, ReplyChecked(p))
         /\ \A status, spec : Kept(p, BuildUpdated(p, status, spec))
         /\ \A id : Kept(p, SentLocally(p, id))
         /\ Kept(p, [p EXCEPT !.refErr = FALSE]) /\ \A n : Kept(p, [p EXCEPT !.attempt = n])
         /\ \A st : Kept(p, [p EXCEPT !.state = st])
  <1>1. Kept(p, p) /\ \A n : Kept(p, [p EXCEPT !.attempt = n])
    BY DEF IsPage, PageFields, Kept
  <1>2. Kept(p, Clocked(p))
    BY <1>1 DEF Clocked
  <1>3. Kept(p, SettleOverdue(p))
    BY DEF IsPage, PageFields, Kept, SettleOverdue
  <1>4. Kept(p, RefreshFailed(p))
    BY DEF IsPage, PageFields, Kept, RefreshFailed
  <1>5. Kept(p, Overdue(p)) /\ Kept(p, ReplyChecked(p))
    BY DEF IsPage, PageFields, Kept, Overdue, ReplyChecked
  <1>6. \A status, spec : Kept(p, BuildUpdated(p, status, spec))
    BY ZenonT(60) DEF IsPage, PageFields, Kept, BuildUpdated
  <1>7. \A id : Kept(p, SentLocally(p, id))
    BY DEF IsPage, PageFields, Kept, SentLocally
  <1>8. Kept(p, [p EXCEPT !.refErr = FALSE]) /\ \A st : Kept(p, [p EXCEPT !.state = st])
    BY DEF IsPage, PageFields, Kept
  <1> QED
    BY <1>1, <1>2, <1>3, <1>4, <1>5, <1>6, <1>7, <1>8

LEMMA KeptOn ==
  /\ \A p, q, r : Kept(p, q) /\ Kept(q, r) => Kept(p, r)
  /\ \A p, q, r, S : Kept(p, q) /\ Takes(q, r, S) => Takes(p, r, S)
  /\ \A p, q, r, S : Takes(p, q, S) /\ Kept(q, r) => Takes(p, r, S)
  BY DEF Kept, Takes

LEMMA TakingOperators ==
  ASSUME NEW p, IsPage(p), NEW S
  PROVE  /\ Takes(p, Merge(p, S), S)
         /\ \A d : Takes(p, WithTranscript(p, d, S), S)
         /\ Takes(p, MessagesCreated(p, S), S)
  <1>1. Takes(p, Merge(p, S), S)
    BY DEF IsPage, PageFields, Takes, Merge
  <1> DEFINE q == Merge(p, S)
  <1>2. IsPage(q)
    BY <1>1 DEF Takes
  <1>3. \A d : Takes(p, WithTranscript(p, d, S), S)
    <2> TAKE d
    <2> DEFINE r == [q EXCEPT !.build = TRUE]
    <2>1. WithTranscript(p, d, S) = IF d.spec < p.observed THEN r
             ELSE [r EXCEPT !.status = d.status, !.spec = d.spec, !.observed = d.spec, !.refErr = FALSE]
      BY DEF WithTranscript
    <2> HIDE DEF q
    <2>2. Kept(q, r)
      BY <1>2 DEF IsPage, PageFields, Kept
    <2>3. IsPage(r)
      BY <2>2 DEF Kept
    <2> HIDE DEF r
    <2>4. Kept(r, [r EXCEPT !.status = d.status, !.spec = d.spec, !.observed = d.spec, !.refErr = FALSE])
      BY <2>3 DEF IsPage, PageFields, Kept
    <2>5. Kept(q, WithTranscript(p, d, S))
      BY <2>1, <2>2, <2>4, KeptOn
    <2> QED
      BY <1>1, <2>5, KeptOn DEF q
  <1>4. Takes(p, MessagesCreated(p, S), S)
    <2>1. Kept(q, SettleOverdue(q))
      BY <1>2, KeepingOperators
    <2> QED
      BY <1>1, <2>1, KeptOn DEF MessagesCreated
  <1> QED
    BY <1>1, <1>3, <1>4

(***************************************************************************)
(* What each action does to the page.                                      *)
(***************************************************************************)
\* Messages arrive with the answer to a send, and nothing is left to send again.
Settles(S) ==
  /\ IsPage(page') /\ page'.msgs = Merged(page.msgs, S) /\ page'.unsent = <<>>
  /\ page'.source = page.source /\ page'.lastId = page.lastId

\* The text of the post comes back.
Returns ==
  /\ IsPage(page') /\ page'.msgs = page.msgs /\ page'.unsent = <<post.text, post.id>>
  /\ page'.source = page.source /\ page'.lastId = page.lastId

\* The connection is lost or another one opens.
Switches(source) ==
  /\ IsPage(page') /\ page'.msgs = page.msgs /\ page'.unsent = page.unsent
  /\ page'.source = source /\ page'.lastId = page.lastId

LEMMA SendEffect ==
  ASSUME Shapes, NEW text, Send(text)
  PROVE  Kept(page, page')
  <1> DEFINE q == SentLocally(page, IdFor(page.unsent, text))
  <1>1. Kept(page, q)
    BY KeepingOperators DEF Shapes
  <1>2. Kept(q, Clocked(q))
    BY <1>1, KeepingOperators DEF Kept
  <1>3. page' = Clocked(q)
    BY DEF Send
  <1> QED
    BY <1>1, <1>2, <1>3, KeptOn

LEMMA SettlingEffect ==
  ASSUME Shapes
  PROVE  /\ \A m : page' = Clocked(MessageAccepted(page, m)) => Settles({m})
         /\ \A d, S : page' = Clocked(BuildCreated(page, d, S)) => Settles(S)
  <1> DEFINE p == [page EXCEPT !.unsent = <<>>]
  <1>1. /\ IsPage(p) /\ p.msgs = page.msgs /\ p.unsent = <<>>
        /\ p.source = page.source /\ p.lastId = page.lastId
    BY DEF Shapes, IsPage, PageFields
  <1>2. ASSUME NEW q, NEW S, Takes(p, q, S), page' = Clocked(SettleOverdue(q))
        PROVE  Settles(S)
    <2>1. IsPage(q)
      BY <1>2 DEF Takes
    <2>2. Kept(q, SettleOverdue(q))
      BY <2>1, KeepingOperators
    <2>3. Kept(SettleOverdue(q), page')
      BY <1>2, <2>2, KeepingOperators DEF Kept
    <2>4. Takes(p, page', S)
      BY <1>2, <2>2, <2>3, KeptOn
    <2> QED
      BY <1>1, <2>4 DEF Takes, Settles
  <1>3. ASSUME NEW m, page' = Clocked(MessageAccepted(page, m)) PROVE Settles({m})
    <2>1. Takes(p, Merge(p, {m}), {m})
      BY <1>1, TakingOperators
    <2>2. page' = Clocked(SettleOverdue(Merge(p, {m})))
      BY <1>3 DEF MessageAccepted
    <2> QED
      BY <1>2, <2>1, <2>2
  <1>4. ASSUME NEW d, NEW S, page' = Clocked(BuildCreated(page, d, S)) PROVE Settles(S)
    <2>1. Takes(p, WithTranscript(p, d, S), S)
      BY <1>1, TakingOperators
    <2>2. page' = Clocked(SettleOverdue(WithTranscript(p, d, S)))
      BY <1>4 DEF BuildCreated
    <2> QED
      BY <1>2, <2>1, <2>2
  <1> QED
    BY <1>3, <1>4

LEMMA UnsentEffect ==
  ASSUME Shapes, Unsent
  PROVE  Returns
  <1> DEFINE q == [page EXCEPT !.mine = page.mine \ {post.id}, !.unsent = <<post.text, post.id>>]
  <1>1. /\ IsPage(q) /\ q.msgs = page.msgs /\ q.unsent = <<post.text, post.id>>
        /\ q.source = page.source /\ q.lastId = page.lastId
    BY DEF Shapes, IsPage, PageFields
  <1>2. page' = Clocked(q)
    BY DEF Unsent
  <1>3. Kept(q, page')
    BY <1>1, <1>2, KeepingOperators
  <1> QED
    BY <1>1, <1>3 DEF Kept, Returns

LEMMA DroppedEffect ==
  ASSUME Shapes, NEW s, page' = Dropped(s)
  PROVE  Switches(IF page.source = s THEN 0 ELSE page.source)
  BY DEF Shapes, IsPage, PageFields, Dropped, Switches

LEMMA RequestEffect ==
  ASSUME NEW p, IsPage(p), NEW min, Request(p, min)
  PROVE  Kept(p, page') /\ read' = [on |-> TRUE, min |-> min, retry |-> 0, got |-> <<>>]
  <1>1. Kept(p, [p EXCEPT !.refErr = FALSE])
    BY KeepingOperators
  <1>2. Kept([p EXCEPT !.refErr = FALSE], page')
    BY <1>1, KeepingOperators DEF Kept, Request
  <1> QED
    BY <1>1, <1>2, KeptOn DEF Request, NoRead

LEMMA ConnectEffect ==
  ASSUME Shapes, NEW s \in Streams, Connect(s)
  PROVE  Switches(s) /\ read'.got = <<>> /\ read' = [on |-> read'.on, min |-> read'.min, retry |-> read'.retry, got |-> read'.got]
  <1> DEFINE p == [page EXCEPT !.source = s, !.state = "open"]
  <1>1. IsPage(p) /\ p.msgs = page.msgs /\ p.unsent = page.unsent /\ p.source = s /\ p.lastId = page.lastId
    BY DEF Shapes, IsPage, PageFields
  <1>2. Request(p, p.observed)
    BY DEF Connect, OnOpen
  <1>3. Kept(p, page') /\ read' = [on |-> TRUE, min |-> p.observed, retry |-> 0, got |-> <<>>]
    BY <1>1, <1>2, RequestEffect
  <1> QED
    BY <1>1, <1>3 DEF Kept, Switches

LEMMA VisibilityEffect ==
  ASSUME Shapes, Visibility
  PROVE  \/ Switches(0)
         \/ /\ IsPage(page') /\ page'.msgs = page.msgs /\ page'.unsent = page.unsent
            /\ page'.source = page.source /\ page'.lastId = 0
  BY DEF Shapes, IsPage, PageFields, Visibility, Switches

\* The events of a poll are shown, and the browser remembers the last id.
LEMMA DeliverEffect ==
  ASSUME Shapes, NEW s \in Streams, Deliver(s)
  PROVE  LET e == streams[s].batch IN
         /\ IsPage(page') /\ page'.msgs = Merged(page.msgs, e.msgs) /\ page'.unsent = page.unsent
         /\ page'.source = page.source
         /\ page'.lastId = IF e.msgs # {} THEN Max(e.msgs) ELSE Max({page.lastId, e.id})
         /\ read'.got = read.got \/ read'.got = <<>>
         /\ read' = [on |-> read'.on, min |-> read'.min, retry |-> read'.retry, got |-> read'.got]
  <1> DEFINE e == streams[s].batch
             updated == IF e.update = <<>> THEN page ELSE BuildUpdated(page, e.update[1], e.update[2])
             q == MessagesCreated(updated, e.msgs)
             last == IF e.msgs # {} THEN Max(e.msgs) ELSE Max({page.lastId, e.id})
             p == [q EXCEPT !.lastId = last]
  <1>1. Kept(page, updated)
    BY KeepingOperators DEF Shapes
  <1>2. Takes(updated, q, e.msgs)
    BY <1>1, TakingOperators DEF Kept
  <1>3. Takes(page, q, e.msgs)
    BY <1>1, <1>2, KeptOn
  <1>4. \/ Request(p, e.update[2])
        \/ page' = Clocked(p) /\ read' = read
    BY DEF Deliver
  <1> HIDE DEF q, last, e
  <1>5. /\ IsPage(p) /\ p.msgs = q.msgs /\ p.unsent = q.unsent /\ p.source = q.source /\ p.lastId = last
    BY <1>3 DEF Takes, IsPage, PageFields
  <1> HIDE DEF p
  <1>6. Kept(p, page') /\ (read' = read \/ read' = [on |-> TRUE, min |-> e.update[2], retry |-> 0, got |-> <<>>])
    BY <1>4, <1>5, RequestEffect, KeepingOperators
  <1>7. /\ read'.got = read.got \/ read'.got = <<>>
        /\ read' = [on |-> read'.on, min |-> read'.min, retry |-> read'.retry, got |-> read'.got]
    BY <1>6 DEF Shapes
  <1>8. /\ IsPage(page') /\ page'.msgs = Merged(page.msgs, e.msgs) /\ page'.unsent = page.unsent
        /\ page'.source = page.source /\ page'.lastId = last
    BY <1>3, <1>5, <1>6 DEF Kept, Takes
  <1> QED
    BY <1>7, <1>8 DEF e, last

LEMMA ReadAgainEffect ==
  ASSUME Shapes, ReadAgain
  PROVE  /\ Kept(page, page') /\ read'.got = <<>>
         /\ read' = [on |-> read'.on, min |-> read'.min, retry |-> read'.retry, got |-> read'.got]
  <1>1. CASE read.retry < Retries
    <2>1. page' = page /\ read' = [read EXCEPT !.retry = @ + 1, !.got = <<>>]
      BY <1>1 DEF ReadAgain
    <2>2. /\ read'.got = <<>>
          /\ read' = [on |-> read'.on, min |-> read'.min, retry |-> read'.retry, got |-> read'.got]
      BY <2>1 DEF Shapes
    <2> QED
      BY <2>1, <2>2, KeepingOperators DEF Shapes
  <1>2. CASE ~(read.retry < Retries)
    <2>1. page' = Clocked(RefreshFailed(page)) /\ read' = NoRead
      BY <1>2 DEF ReadAgain
    <2>2. Kept(page, RefreshFailed(page))
      BY KeepingOperators DEF Shapes
    <2>3. Kept(RefreshFailed(page), page')
      BY <2>1, <2>2, KeepingOperators DEF Kept
    <2> QED
      BY <2>1, <2>2, <2>3, KeptOn DEF NoRead
  <1> QED
    BY <1>1, <1>2

LEMMA RefreshedEffect ==
  ASSUME Shapes, NEW d, NEW S, Refreshed(d, S)
  PROVE  /\ Kept(page, page') \/ Takes(page, page', S)
         /\ read'.got = <<>>
         /\ read' = [on |-> read'.on, min |-> read'.min, retry |-> read'.retry, got |-> read'.got]
  <1>1. CASE d.spec >= read.min
    <2> DEFINE q == WithTranscript(page, d, S)
    <2>1. page' = Clocked(SettleOverdue(q)) /\ read' = NoRead
      BY <1>1 DEF Refreshed
    <2>2. Takes(page, q, S)
      BY TakingOperators DEF Shapes
    <2> HIDE DEF q
    <2>3. Kept(q, SettleOverdue(q))
      BY <2>2, KeepingOperators DEF Takes
    <2>4. Kept(SettleOverdue(q), page')
      BY <2>1, <2>3, KeepingOperators DEF Kept
    <2>5. Takes(page, page', S)
      BY <2>2, <2>3, <2>4, KeptOn
    <2> QED
      BY <2>1, <2>5 DEF NoRead
  <1>2. CASE ~(d.spec >= read.min)
    <2>1. ReadAgain
      BY <1>2 DEF Refreshed
    <2> QED
      BY <2>1, ReadAgainEffect
  <1> QED
    BY <1>1, <1>2

\* The watchdog, a check that is asked for and a failed read show nothing new.
LEMMA CheckEffect ==
  ASSUME Shapes, Watchdog \/ CheckAgain \/ ReadFails
  PROVE  /\ Kept(page, page') /\ (read'.got = read.got \/ read'.got = <<>>)
         /\ read' = [on |-> read'.on, min |-> read'.min, retry |-> read'.retry, got |-> read'.got]
  <1>1. CASE Watchdog
    <2> DEFINE q == ReplyChecked(page)
               n == page.attempt + 1
               checked == [q EXCEPT !.attempt = n]
               p == IF n = Waits THEN Overdue(checked) ELSE checked
    <2>1. Kept(page, q)
      BY KeepingOperators DEF Shapes
    <2> HIDE DEF n
    <2>2. Kept(q, checked)
      <3>1. IsPage(q)
        BY <2>1 DEF Kept
      <3>2. Kept(q, checked)
        BY <3>1, KeepingOperators
      <3> QED
        BY <2>1, <3>2 DEF Kept
    <2>3. Kept(checked, p)
      BY <2>2, KeepingOperators DEF Kept
    <2>4. Request(p, page.observed) \/ (page' = Clocked(p) /\ read' = read)
      BY <1>1 DEF Watchdog, n
    <2> HIDE DEF p, checked, q
    <2>5. Kept(page, p) /\ IsPage(p)
      BY <2>1, <2>2, <2>3, KeptOn DEF Kept
    <2>6. /\ Kept(p, page')
          /\ read' = read \/ read' = [on |-> TRUE, min |-> page.observed, retry |-> 0, got |-> <<>>]
      BY <2>4, <2>5, RequestEffect, KeepingOperators
    <2>7. Kept(page, page')
      BY <2>5, <2>6, KeptOn
    <2> QED
      BY <2>6, <2>7 DEF Shapes
  <1>2. CASE CheckAgain
    <2>1. Kept(page, ReplyChecked(page))
      BY KeepingOperators DEF Shapes
    <2>2. Request(ReplyChecked(page), page.observed)
      BY <1>2 DEF CheckAgain
    <2>3. /\ Kept(ReplyChecked(page), page')
          /\ read' = [on |-> TRUE, min |-> page.observed, retry |-> 0, got |-> <<>>]
      BY <2>1, <2>2, RequestEffect DEF Kept
    <2> QED
      BY <2>1, <2>3, KeptOn
  <1>3. CASE ReadFails
    BY <1>3, ReadAgainEffect DEF ReadFails
  <1> QED
    BY <1>1, <1>2, <1>3

\* What a poll leaves of a stream.
LEMMA PolledStream ==
  ASSUME NEW x, IsStream(x), NEW due
  PROVE  LET y == Polled(x, due) IN
         /\ IsStream(y) /\ y.st = x.st /\ y.sent = x.sent \cup due /\ y.cursor = Max(due \cup {x.cursor})
         /\ y.resume = x.resume /\ y.batch.msgs = due /\ y.batch.id = x.cursor
  <1> DEFINE b == [update |-> IF x.told # <<detail.status, detail.spec>> THEN <<detail.status, detail.spec>>
                              ELSE <<>>, msgs |-> due, id |-> x.cursor]
             y == [x EXCEPT !.told = <<detail.status, detail.spec>>, !.sent = x.sent \cup due,
                            !.cursor = Max(due \cup {x.cursor}), !.batch = b]
  <1>1. Polled(x, due) = y
    BY DEF Polled
  <1>2. b.msgs = due /\ b.id = x.cursor
    OBVIOUS
  <1> HIDE DEF b
  <1>3. /\ IsStream(y) /\ y.st = x.st /\ y.sent = x.sent \cup due /\ y.cursor = Max(due \cup {x.cursor})
        /\ y.resume = x.resume /\ y.batch = b
    BY DEF IsStream, StreamFields
  <1> QED
    BY <1>1, <1>2, <1>3

LEMMA StreamShapes ==
  /\ \A st : IsStream([NoStream EXCEPT !.st = st])
  /\ \A id : IsStream(Opened(id))
  /\ \A x : IsStream(x) => \A due : IsStream(Polled(x, due))
  /\ \A x : IsStream(x) => IsStream([x EXCEPT !.batch = NoEvents])
  <1>1. /\ \A st : IsStream([NoStream EXCEPT !.st = st])
        /\ \A id : IsStream(Opened(id))
    BY Zenon DEF IsStream, StreamFields, NoStream, Opened
  <1>2. \A x : IsStream(x) => IsStream([x EXCEPT !.batch = NoEvents])
    BY DEF IsStream, StreamFields
  <1>3. \A x : IsStream(x) => \A due : IsStream(Polled(x, due))
    BY PolledStream
  <1> QED
    BY <1>1, <1>2, <1>3

LEMMA OneStream ==
  ASSUME Shapes, NEW s \in Streams, NEW x, IsStream(x), streams' = [streams EXCEPT ![s] = x]
  PROVE  /\ streams' = [t \in Streams |-> streams'[t]] /\ streams'[s] = x
         /\ \A t \in Streams : IsStream(streams'[t]) /\ (t # s => streams'[t] = streams[t])
  BY DEF Shapes

StreamsShaped == streams = [s \in Streams |-> streams[s]] /\ \A s \in Streams : IsStream(streams[s])
PostShaped == post = [text |-> post.text, id |-> post.id, answer |-> post.answer]
ReadShaped == read = [on |-> read.on, min |-> read.min, retry |-> read.retry, got |-> read.got]

LEMMA StreamsKeepShape ==
  ASSUME Shapes, [Next]_vars
  PROVE  StreamsShaped'
  <1>1. CASE streams' = streams
    BY <1>1 DEF Shapes, StreamsShaped
  <1>2. ASSUME NEW s \in Streams, NEW x, IsStream(x), streams' = [streams EXCEPT ![s] = x]
        PROVE  StreamsShaped'
    BY <1>2, OneStream DEF StreamsShaped
  <1>3. ASSUME NEW s \in Streams, Connect(s) PROVE StreamsShaped'
    BY <1>2, <1>3, StreamShapes DEF Connect
  <1>4. ASSUME NEW s \in Streams, Poll(s) PROVE StreamsShaped'
    BY <1>2, <1>4, StreamShapes DEF Poll, Shapes
  <1>5. ASSUME NEW s \in Streams, Deliver(s) PROVE StreamsShaped'
    <2>1. streams' = [streams EXCEPT ![s] = [streams[s] EXCEPT !.batch = NoEvents]]
      BY <1>5 DEF Deliver
    <2> QED
      BY <1>2, <2>1, StreamShapes DEF Shapes
  <1>6. ASSUME NEW s \in Streams, NEW st, CloseStream(s, st) PROVE StreamsShaped'
    BY <1>2, <1>6, StreamShapes DEF CloseStream
  <1>7. ASSUME NEW s \in Streams, StreamEnds(s) \/ StreamCut(s) \/ SocketCloses(s) PROVE StreamsShaped'
    BY <1>6, <1>7 DEF StreamEnds, StreamCut, SocketCloses
  <1>8. ASSUME NEW s \in Streams, SocketBreaks(s) PROVE StreamsShaped'
    BY <1>1, <1>8 DEF SocketBreaks
  <1>9. CASE \/ \E text \in 1 .. MaxUser : Send(text)
             \/ GatewayPost \/ PostAnswered \/ BuildStarted \/ PostRefused \/ PostLost
             \/ Reply \/ TurnLost \/ Age \/ Revoke
             \/ ConnectRefused \/ Visibility \/ ReadDetail \/ ReadMessages \/ ReadFails \/ Watchdog \/ CheckAgain
             \/ UNCHANGED vars
    BY <1>1, <1>9 DEF Send, GatewayPost, PostAnswered, BuildStarted, PostRefused, PostLost, Reply, TurnReply,
         TurnLost, Age, Revoke, ConnectRefused, Visibility, ReadDetail, ReadMessages, ReadFails, Watchdog,
         CheckAgain, vars
  <1> QED
    BY <1>3, <1>4, <1>5, <1>7, <1>8, <1>9 DEF Next

LEMMA PostKeepsShape ==
  ASSUME Shapes, [Next]_vars
  PROVE  PostShaped'
  <1>1. CASE post' = post
    BY <1>1 DEF Shapes, PostShaped
  <1>2. CASE post' = NoPost
    BY <1>2 DEF NoPost, PostShaped
  <1>3. ASSUME NEW text, Send(text) PROVE PostShaped'
    BY <1>3 DEF Send, PostShaped
  <1>4. CASE GatewayPost
    BY <1>4 DEF GatewayPost, Shapes, PostShaped
  <1>5. CASE PostAnswered \/ BuildStarted \/ PostRefused \/ PostLost
    <2>1. CASE PostAnswered
      BY <1>2, <2>1 DEF PostAnswered, Unsent
    <2>2. CASE BuildStarted
      BY <1>2, <2>2 DEF BuildStarted, Unsent
    <2>3. CASE PostRefused
      BY <1>2, <2>3 DEF PostRefused, Unsent
    <2>4. CASE PostLost
      BY <1>2, <2>4 DEF PostLost, Unsent
    <2> QED
      BY <1>5, <2>1, <2>2, <2>3, <2>4
  <1>6. CASE \/ Reply \/ TurnLost \/ Age \/ Revoke
             \/ \E s \in Streams : \/ Connect(s) \/ Poll(s) \/ Deliver(s)
                                   \/ StreamEnds(s) \/ StreamCut(s) \/ SocketCloses(s) \/ SocketBreaks(s)
             \/ ConnectRefused \/ Visibility \/ ReadDetail \/ ReadMessages \/ ReadFails \/ Watchdog \/ CheckAgain
             \/ UNCHANGED vars
    BY <1>1, <1>6, Zenon DEF Reply, TurnReply, TurnLost, Age, Revoke, Connect, Poll, Deliver, StreamEnds, StreamCut,
         SocketCloses, SocketBreaks, ConnectRefused, Visibility, ReadDetail, ReadMessages, ReadFails, Watchdog,
         CheckAgain, vars
  <1> QED
    BY <1>3, <1>4, <1>5, <1>6 DEF Next

LEMMA ReadKeepsShape ==
  ASSUME Shapes, [Next]_vars
  PROVE  ReadShaped'
  <1>1. CASE read' = read
    BY <1>1 DEF Shapes, ReadShaped
  <1>2. ASSUME NEW s \in Streams, Connect(s) \/ Deliver(s) PROVE ReadShaped'
    BY <1>2, ConnectEffect, DeliverEffect DEF ReadShaped
  <1>3. CASE Watchdog \/ CheckAgain \/ ReadFails
    BY <1>3, CheckEffect DEF ReadShaped
  <1>4. CASE ReadDetail
    <2>1. CASE read' = [read EXCEPT !.got = <<"detail", detail>>]
      BY <2>1 DEF Shapes, ReadShaped
    <2>2. CASE Refreshed(detail, read.got[2])
      BY <2>2, RefreshedEffect DEF ReadShaped
    <2> QED
      BY <1>4, <2>1, <2>2 DEF ReadDetail
  <1>5. CASE ReadMessages
    <2>1. CASE read' = [read EXCEPT !.got = <<"messages", Committed>>]
      BY <2>1 DEF Shapes, ReadShaped
    <2>2. CASE Refreshed(read.got[2], Committed)
      BY <2>2, RefreshedEffect DEF ReadShaped
    <2> QED
      BY <1>5, <2>1, <2>2 DEF ReadMessages
  <1>6. CASE \/ \E text \in 1 .. MaxUser : Send(text)
             \/ GatewayPost \/ PostAnswered \/ BuildStarted \/ PostRefused \/ PostLost
             \/ Reply \/ TurnLost \/ Age \/ Revoke
             \/ \E s \in Streams : Poll(s) \/ StreamEnds(s) \/ StreamCut(s) \/ SocketCloses(s) \/ SocketBreaks(s)
             \/ ConnectRefused \/ Visibility \/ UNCHANGED vars
    BY <1>1, <1>6 DEF Send, GatewayPost, PostAnswered, BuildStarted, PostRefused, PostLost, Reply, TurnReply,
         TurnLost, Age, Revoke, Poll, StreamEnds, StreamCut, SocketCloses, SocketBreaks, ConnectRefused,
         Visibility, vars
  <1> QED
    BY <1>2, <1>3, <1>4, <1>5, <1>6 DEF Next

LEMMA PageKeepsShape ==
  ASSUME Shapes, [Next]_vars
  PROVE  IsPage(page')
  <1>1. CASE page' = page
    BY <1>1 DEF Shapes
  <1>2. ASSUME NEW text, Send(text) PROVE IsPage(page')
    BY <1>2, SendEffect DEF Kept
  <1>3. CASE PostAnswered
    BY <1>3, SettlingEffect DEF PostAnswered, Settles
  <1>4. CASE BuildStarted
    BY <1>4, SettlingEffect DEF BuildStarted, Settles
  <1>5. CASE PostRefused \/ PostLost
    BY <1>5, UnsentEffect DEF PostRefused, PostLost, Returns
  <1>6. ASSUME NEW s \in Streams, StreamEnds(s) \/ StreamCut(s) \/ SocketCloses(s) \/ SocketBreaks(s)
        PROVE  IsPage(page')
    BY <1>6, DroppedEffect DEF StreamEnds, StreamCut, SocketCloses, SocketBreaks, Switches
  <1>7. ASSUME NEW s \in Streams, Connect(s) \/ Deliver(s) PROVE IsPage(page')
    BY <1>7, ConnectEffect, DeliverEffect DEF Switches
  <1>8. CASE ConnectRefused
    BY <1>8, KeepingOperators DEF ConnectRefused, Shapes, Kept
  <1>9. CASE Visibility
    BY <1>9, VisibilityEffect DEF Switches
  <1>10. CASE Watchdog \/ CheckAgain \/ ReadFails
    BY <1>10, CheckEffect DEF Kept
  <1>11. CASE ReadDetail
    <2>1. page' = page \/ Refreshed(detail, read.got[2])
      BY <1>11 DEF ReadDetail
    <2> QED
      BY <1>1, <2>1, RefreshedEffect DEF Kept, Takes
  <1>12. CASE ReadMessages
    <2>1. page' = page \/ Refreshed(read.got[2], Committed)
      BY <1>12 DEF ReadMessages
    <2> QED
      BY <1>1, <2>1, RefreshedEffect DEF Kept, Takes
  <1>13. CASE \/ GatewayPost \/ Reply \/ TurnLost \/ Age \/ Revoke \/ (\E s \in Streams : Poll(s)) \/ UNCHANGED vars
    BY <1>1, <1>13 DEF GatewayPost, Reply, TurnReply, TurnLost, Age, Revoke, Poll, vars
  <1> QED
    BY <1>2, <1>3, <1>4, <1>5, <1>6, <1>7, <1>8, <1>9, <1>10, <1>11, <1>12, <1>13 DEF Next

LEMMA ShapesKept ==
  ASSUME Shapes, [Next]_vars
  PROVE  Shapes'
  BY StreamsKeepShape, PostKeepsShape, ReadKeepsShape, PageKeepsShape
     DEF Shapes, StreamsShaped, PostShaped, ReadShaped

(***************************************************************************)
(* The log and the texts on their way to it: nothing is stored twice.      *)
(***************************************************************************)
LEMMA NewestAmong ==
  ASSUME NEW S \in SUBSET Nat, S # {} => \E m \in S : \A n \in S : n <= m,
         NEW top, top = IF S = {} THEN 0 ELSE CHOOSE m \in S : \A n \in S : n <= m
  PROVE  /\ top \in Nat /\ \A n \in S : n <= top
         /\ S = {} => top = 0
         /\ S # {} => top \in S
  OBVIOUS

LEMMA OneNewest ==
  ASSUME NEW S \in SUBSET Nat, NEW m \in S, NEW n \in S, \A l \in S : l <= m, \A l \in S : l <= n
  PROVE  m = n
  <1>1. m \in Nat /\ n \in Nat /\ m <= n /\ n <= m
    OBVIOUS
  <1> QED
    BY <1>1

LEMMA NewestKnown ==
  ASSUME LogInv
  PROVE  /\ Committed \subseteq Nat \ {0} /\ IsFiniteSet(Committed)
         /\ NewestMessage \in Nat /\ \A n \in Committed : n <= NewestMessage
         /\ Committed = {} => NewestMessage = 0
         /\ Committed # {} => NewestMessage \in Committed
  <1>1. Committed \subseteq 2 .. 2 * MaxUser + 1 /\ MaxUser \in Nat
    BY EventsAssumption DEF LogInv
  <1>2. IsFiniteSet(2 .. 2 * MaxUser + 1)
    BY <1>1, FS_Interval
  <1>3. Committed \subseteq Nat \ {0} /\ IsFiniteSet(Committed)
    <2>1. IsFiniteSet(Committed)
      BY <1>1, <1>2, FS_Subset
    <2> QED
      BY <1>1, <2>1
  <1>4. Committed # {} => \E m \in Committed : \A n \in Committed : n <= m
    BY DEF LogInv
  <1>5. NewestMessage = IF Committed = {} THEN 0 ELSE CHOOSE m \in Committed : \A n \in Committed : n <= m
    BY DEF NewestMessage
  <1> QED
    BY <1>3, <1>4, <1>5, NewestAmong

\* The gateway stores a question.
StoresQuestion(m) ==
  /\ m = 2 * (Ms(NewestMessage) + 1) /\ m <= 2 * MaxUser
  /\ log' = [x \in Committed \cup {m} |-> IF x = m THEN [id |-> post.id, text |-> post.text] ELSE log[x]]
  /\ turn' = (IF turn = 0 THEN m ELSE turn) /\ nextId' = nextId

\* A turn stores its reply.
StoresReply(r) ==
  /\ r = turn + 1 /\ turn > 0
  /\ log' = [x \in Committed \cup {r} |-> IF x = r THEN [id |-> 0, text |-> 0] ELSE log[x]]
  /\ turn' = (IF NewestMessage > r /\ IsUser(NewestMessage) THEN NewestMessage ELSE 0) /\ nextId' = nextId

LEMMA AskCommits ==
  ASSUME LogInv, NEW m, StoresQuestion(m), Writes(post.text, post.id), \A u \in Questions : log[u].id # post.id
  PROVE  /\ m \in Nat /\ IsUser(m) /\ m \notin Committed /\ \A n \in Committed : n < m
         /\ Committed' = Committed \cup {m} /\ Questions' = Questions \cup {m}
         /\ \A n \in Committed : log'[n] = log[n]
         /\ log'[m] = [id |-> post.id, text |-> post.text]
         /\ NewestMessage' = m
  <1>1. PICK k \in Nat : k = Ms(NewestMessage) /\ (NewestMessage = 2 * k \/ NewestMessage = 2 * k + 1)
    BY NewestKnown, Positions
  <1>2. m = 2 * (k + 1) /\ m \in Nat /\ IsUser(m) /\ NewestMessage < m
    <2>1. PICK j \in Nat : j = k + 1
      OBVIOUS
    <2>2. m = 2 * j
      BY <1>1, <2>1 DEF StoresQuestion
    <2>3. IsUser(m)
      BY <2>2, Positions
    <2> QED
      BY <1>1, <2>1, <2>2, <2>3
  <1>3. \A n \in Committed : n < m
    <2> TAKE n \in Committed
    <2>1. n \in Nat /\ n <= NewestMessage /\ NewestMessage \in Nat
      BY NewestKnown
    <2> QED
      BY <1>2, <2>1
  <1>4. m \notin Committed
    BY <1>2, <1>3
  <1>5. Committed' = Committed \cup {m} /\ (\A n \in Committed : log'[n] = log[n])
        /\ log'[m] = [id |-> post.id, text |-> post.text]
    BY <1>4 DEF StoresQuestion, Committed
  <1>6. Questions' = Questions \cup {m}
    BY <1>2, <1>5 DEF Questions
  <1>7. NewestMessage' = m
    <2>1. NewestMessage' = IF Committed' = {} THEN 0 ELSE CHOOSE x \in Committed' : \A n \in Committed' : n <= x
      BY DEF NewestMessage
    <2>2. \A n \in Committed' : n <= m
      BY <1>2, <1>3, <1>5, NewestKnown
    <2>3. Committed' \in SUBSET Nat /\ m \in Committed'
      BY <1>2, <1>5, NewestKnown
    <2>4. NewestMessage' \in Committed' /\ \A n \in Committed' : n <= NewestMessage'
      BY <2>1, <2>2, <2>3
    <2> QED
      BY <2>2, <2>3, <2>4, OneNewest
  <1> QED
    BY <1>2, <1>3, <1>4, <1>5, <1>6, <1>7

LEMMA ReplyCommits ==
  ASSUME LogInv, NEW r, StoresReply(r)
  PROVE  /\ r \in Nat /\ ~IsUser(r) /\ r - 1 \in Questions /\ turn = r - 1 /\ turn \in Nat
         /\ Committed' = Committed \cup {r} /\ Questions' = Questions
         /\ \A n \in Questions : log'[n] = log[n]
         /\ \A n \in Committed : n # r => log'[n] = log[n]
         /\ log'[r] = [id |-> 0, text |-> 0]
         /\ Ms(NewestMessage') = Ms(NewestMessage)
  <1>1. turn \in Questions /\ turn \in Committed /\ turn \in Nat
    <2>1. turn = 0 \/ turn \in Questions
      BY DEF LogInv
    <2>2. turn # 0
      BY DEF StoresReply
    <2>3. turn \in Questions /\ turn \in Committed
      BY <2>1, <2>2 DEF Questions
    <2> QED
      BY <2>3, NewestKnown
  <1>2. PICK k \in Nat : turn = 2 * k
    BY <1>1, Positions DEF Questions
  <1>3. r = 2 * k + 1 /\ r \in Nat /\ ~IsUser(r) /\ r - 1 = turn
    <2>1. r = 2 * k + 1 /\ r \in Nat /\ r - 1 = turn
      BY <1>2 DEF StoresReply
    <2> QED
      BY <2>1, Positions
  <1>4. /\ Committed' = Committed \cup {r} /\ log'[r] = [id |-> 0, text |-> 0]
        /\ \A n \in Committed : n # r => log'[n] = log[n]
    BY DEF StoresReply, Committed
  <1>5. Questions' = Questions /\ \A n \in Questions : log'[n] = log[n]
    BY <1>3, <1>4 DEF Questions
  <1>6. Ms(NewestMessage') = Ms(NewestMessage)
    <2>1. NewestMessage' = IF Committed' = {} THEN 0 ELSE CHOOSE x \in Committed' : \A n \in Committed' : n <= x
      BY DEF NewestMessage
    <2>2. Committed' \in SUBSET Nat /\ Committed' # {}
      BY <1>3, <1>4, NewestKnown
    <2>3. NewestMessage \in Committed /\ NewestMessage \in Nat /\ turn <= NewestMessage
      BY <1>1, NewestKnown
    <2>4. \E x \in Committed' : \A n \in Committed' : n <= x
      <3>1. CASE NewestMessage >= r
        BY <1>3, <1>4, <2>3, <3>1, NewestKnown
      <3>2. CASE ~(NewestMessage >= r)
        <4>1. \A n \in Committed' : n <= r
          BY <1>3, <1>4, <2>3, <3>2, NewestKnown
        <4> QED
          BY <1>4, <4>1
      <3> QED
        BY <3>1, <3>2
    <2>5. NewestMessage' \in Committed' /\ \A n \in Committed' : n <= NewestMessage'
      BY <2>1, <2>2, <2>4
    <2>6. CASE NewestMessage >= r
      <3>1. \A n \in Committed' : n <= NewestMessage
        BY <1>3, <1>4, <2>3, <2>6, NewestKnown
      <3>2. NewestMessage' = NewestMessage
        BY <1>4, <2>2, <2>3, <2>5, <3>1, OneNewest
      <3> QED
        BY <3>2
    <2>7. CASE ~(NewestMessage >= r)
      <3>1. NewestMessage = turn
        BY <1>2, <1>3, <2>3, <2>7
      <3>2. \A n \in Committed' : n <= r
        BY <1>3, <1>4, <2>3, <2>7, NewestKnown
      <3>3. NewestMessage' = r
        <4>1. r \in Committed'
          BY <1>4
        <4> QED
          BY <2>2, <2>5, <3>2, <4>1, OneNewest
      <3> QED
        BY <1>2, <1>3, <3>1, <3>3, Positions
    <2> QED
      BY <2>6, <2>7
  <1> QED
    BY <1>1, <1>3, <1>4, <1>5, <1>6

LEMMA AskKeepsLog ==
  ASSUME LogInv, NEW m, StoresQuestion(m), Writes(post.text, post.id), \A u \in Questions : log[u].id # post.id
  PROVE  LogInv'
  <1>1. /\ m \in Nat /\ IsUser(m) /\ m \notin Committed /\ \A n \in Committed : n < m
        /\ Committed' = Committed \cup {m} /\ Questions' = Questions \cup {m}
        /\ \A n \in Committed : log'[n] = log[n]
        /\ log'[m] = [id |-> post.id, text |-> post.text]
    BY AskCommits
  <1>2. Questions \subseteq Committed /\ Committed \subseteq Nat \ {0} /\ nextId' = nextId /\ nextId \in Nat \ {0}
    BY NewestKnown DEF Questions, StoresQuestion, LogInv
  <1>3. PICK k \in Nat : k = Ms(NewestMessage)
    BY NewestKnown, Positions
  <1>4. m = 2 * (k + 1) /\ m <= 2 * MaxUser /\ MaxUser \in Nat
    BY <1>3, EventsAssumption DEF StoresQuestion
  <1>5. Committed' \subseteq 2 .. 2 * MaxUser + 1
    BY <1>1, <1>4 DEF LogInv
  <1>6. \E x \in Committed' : \A n \in Committed' : n <= x
    <2>1. \A n \in Committed' : n <= m
      BY <1>1, <1>2
    <2> QED
      BY <1>1, <2>1
  <1>7. Answering(Committed', Committed')
    BY <1>1 DEF LogInv, Answering
  <1>8. Ms(m) = k + 1
    <2>1. PICK j \in Nat : j = k + 1
      OBVIOUS
    <2> QED
      BY <1>4, <2>1, Positions
  <1>9. \A n \in Questions' : log'[n].text = Ms(n) /\ log'[n].id \in 1 .. nextId' - 1
    <2>1. post.text = k + 1 /\ post.id \in 1 .. nextId - 1
      BY <1>3 DEF Writes
    <2>2. log'[m].text = Ms(m) /\ log'[m].id \in 1 .. nextId' - 1
      BY <1>1, <1>2, <1>8, <2>1
    <2>3. \A n \in Questions : log'[n].text = Ms(n) /\ log'[n].id \in 1 .. nextId' - 1
      BY <1>1, <1>2 DEF LogInv
    <2> QED
      BY <1>1, <2>2, <2>3
  <1>10. \A n \in Committed' : ~IsUser(n) => log'[n].text = 0 /\ log'[n].id = 0
    BY <1>1 DEF LogInv
  <1>11. \A n, o \in Questions' : log'[n].id = log'[o].id => n = o
    <2>1. log'[m].id = post.id /\ \A n \in Questions : log'[n].id = log[n].id
      BY <1>1, <1>2
    <2>2. \A n, o \in Questions : log[n].id = log[o].id => n = o
      BY DEF LogInv
    <2> QED
      BY <1>1, <2>1, <2>2
  <1>12. turn' = 0 \/ turn' \in Questions'
    BY <1>1 DEF StoresQuestion, LogInv
  <1> QED
    BY <1>2, <1>5, <1>6, <1>7, <1>9, <1>10, <1>11, <1>12 DEF LogInv

LEMMA ReplyKeepsLog ==
  ASSUME LogInv, NEW r, StoresReply(r)
  PROVE  LogInv'
  <1>1. /\ r \in Nat /\ ~IsUser(r) /\ r - 1 \in Questions /\ turn = r - 1 /\ turn \in Nat
        /\ Committed' = Committed \cup {r} /\ Questions' = Questions
        /\ \A n \in Questions : log'[n] = log[n]
        /\ \A n \in Committed : n # r => log'[n] = log[n]
        /\ log'[r] = [id |-> 0, text |-> 0]
    BY ReplyCommits
  <1>2. Questions \subseteq Committed /\ Committed \subseteq Nat \ {0} /\ nextId' = nextId
    BY NewestKnown DEF Questions, StoresReply
  <1>3. Committed' \subseteq 2 .. 2 * MaxUser + 1
    <2>1. Committed \subseteq 2 .. 2 * MaxUser + 1 /\ MaxUser \in Nat
      BY EventsAssumption DEF LogInv
    <2>2. r - 1 \in 2 .. 2 * MaxUser + 1
      BY <1>1, <1>2, <2>1
    <2>3. r # 2 * MaxUser + 2
      <3>1. MaxUser + 1 \in Nat
        BY <2>1
      <3>2. IsUser(2 * (MaxUser + 1))
        BY <3>1, Positions
      <3>3. 2 * (MaxUser + 1) = 2 * MaxUser + 2
        BY <2>1
      <3> QED
        BY <1>1, <3>2, <3>3
    <2> QED
      BY <1>1, <2>1, <2>2, <2>3
  <1>4. \E x \in Committed' : \A n \in Committed' : n <= x
    <2>1. PICK x \in Committed : \A n \in Committed : n <= x
      BY <1>1, <1>2 DEF LogInv
    <2>2. x \in Nat
      BY <1>2
    <2>3. CASE r <= x
      BY <1>1, <2>1, <2>3
    <2>4. CASE ~(r <= x)
      <3>1. \A n \in Committed' : n <= r
        BY <1>1, <1>2, <2>1, <2>2, <2>4
      <3> QED
        BY <1>1, <3>1
    <2> QED
      BY <2>3, <2>4
  <1>5. Answering(Committed', Committed')
    <2>1. Answering(Committed, Committed)
      BY DEF LogInv
    <2> QED
      BY <1>1, <1>2, <2>1 DEF Answering
  <1>6. \A n \in Questions' : log'[n].text = Ms(n) /\ log'[n].id \in 1 .. nextId' - 1
    BY <1>1, <1>2 DEF LogInv
  <1>7. \A n \in Committed' : ~IsUser(n) => log'[n].text = 0 /\ log'[n].id = 0
    BY <1>1 DEF LogInv
  <1>8. \A n, o \in Questions' : log'[n].id = log'[o].id => n = o
    BY <1>1 DEF LogInv
  <1>9. turn' = 0 \/ turn' \in Questions'
    <2>1. NewestMessage > r /\ IsUser(NewestMessage) => NewestMessage \in Questions
      <3>1. NewestMessage \in Nat /\ (Committed = {} => NewestMessage = 0) /\ (Committed # {} => NewestMessage \in Committed)
        BY NewestKnown
      <3> QED
        BY <1>1, <3>1 DEF Questions
    <2> QED
      BY <1>1, <2>1 DEF StoresReply
  <1> QED
    BY <1>2, <1>3, <1>4, <1>5, <1>6, <1>7, <1>8, <1>9 DEF LogInv

LEMMA WiderRange ==
  ASSUME NEW a \in Nat, NEW b \in Nat, a <= b
  PROVE  \A i \in 1 .. a - 1 : i \in 1 .. b - 1
  OBVIOUS

\* A text keeps its id while no question is stored.
LEMMA WritesKept ==
  ASSUME Questions' = Questions, \A n \in Questions : log'[n] = log[n],
         Ms(NewestMessage') = Ms(NewestMessage), nextId \in Nat, nextId' \in Nat, nextId <= nextId'
  PROVE  \A text, id : Writes(text, id) => Writes(text, id)'
  <1> TAKE text, id
  <1> HAVE Writes(text, id)
  <1>1. id \in 1 .. nextId' - 1
    <2>1. id \in 1 .. nextId - 1
      BY DEF Writes
    <2>2. \A i \in 1 .. nextId - 1 : i \in 1 .. nextId' - 1
      BY WiderRange
    <2> QED
      BY <2>1, <2>2
  <1>2. \A m \in Questions' : log'[m].id = id => Ms(m) = text
    BY DEF Writes
  <1>3. (\A m \in Questions' : log'[m].id # id) => text = Ms(NewestMessage') + 1
    BY DEF Writes
  <1> QED
    BY <1>1, <1>2, <1>3 DEF Writes

\* The gateway's answer to a post, by its four cases.
LEMMA GatewayPostCases ==
  ASSUME GatewayPost
  PROVE  /\ post.id > 0 /\ post.answer = "none"
         /\ \/ held /\ Replayed(post.id) # {} /\ post' = [post EXCEPT !.answer = "accepted"] /\ UNCHANGED db
            \/ post' = [post EXCEPT !.answer = "refused"] /\ UNCHANGED db
            \/ /\ held /\ Replayed(post.id) = {} /\ post' = [post EXCEPT !.answer = "accepted"]
               /\ \E m : StoresQuestion(m)
         /\ UNCHANGED <<held, cut, streams, leases, page, read, nextId>>
  BY DEF GatewayPost, StoresQuestion

\* Who is answered by its own message.
LEMMA ReplayedAre ==
  ASSUME LogInv
  PROVE  \A id : Replayed(id) = {m \in Questions : log[m].id = id}
  <1>1. \A m \in Committed : log[m].text > 0 <=> IsUser(m)
    <2> TAKE m \in Committed
    <2>1. CASE IsUser(m)
      <3>1. log[m].text = Ms(m) /\ m \in 2 .. 2 * MaxUser + 1
        BY <2>1 DEF LogInv, Questions
      <3>2. MaxUser \in Nat
        BY EventsAssumption
      <3>3. m \in Nat /\ m >= 2 /\ Ms(m) \in Nat /\ m = 2 * Ms(m)
        BY <2>1, <3>1, <3>2, Positions
      <3> QED
        BY <2>1, <3>1, <3>3
    <2>2. CASE ~IsUser(m)
      <3>1. log[m].text = 0
        BY <2>2 DEF LogInv
      <3> QED
        BY <2>2, <3>1
    <2> QED
      BY <2>1, <2>2
  <1> QED
    BY <1>1 DEF Replayed, Questions

LEMMA LogFrame ==
  ASSUME LogInv, log' = log, nextId' \in Nat \ {0}, nextId <= nextId', turn' = turn \/ turn' = 0 \/ turn' \in Questions
  PROVE  LogInv'
  <1>1. Committed' = Committed /\ Questions' = Questions
    BY DEF Committed, Questions
  <1>2. nextId \in Nat
    BY DEF LogInv
  <1>3. \A i \in 1 .. nextId - 1 : i \in 1 .. nextId' - 1
    BY <1>2, WiderRange
  <1>4. \A m \in Questions : log'[m].text = Ms(m) /\ log'[m].id \in 1 .. nextId' - 1
    BY <1>3 DEF LogInv
  <1>5. turn' = 0 \/ turn' \in Questions
    BY DEF LogInv
  <1> QED
    BY <1>1, <1>4, <1>5 DEF LogInv

\* What happens besides sends, their answers and replies.
Elsewhere ==
  \/ TurnLost \/ Age \/ Revoke
  \/ \E s \in Streams : \/ Connect(s) \/ Poll(s) \/ Deliver(s)
                        \/ StreamEnds(s) \/ StreamCut(s) \/ SocketCloses(s) \/ SocketBreaks(s)
  \/ ConnectRefused \/ Visibility \/ ReadDetail \/ ReadMessages \/ ReadFails \/ Watchdog \/ CheckAgain
  \/ UNCHANGED vars

LEMMA ElsewhereEffect ==
  ASSUME LogInv, Shapes, Elsewhere
  PROVE  /\ log' = log /\ nextId' = nextId /\ post' = post /\ page'.unsent = page.unsent
         /\ turn' = turn \/ turn' = 0 \/ turn' \in Questions
  <1>1. log' = log /\ nextId' = nextId /\ post' = post
    BY ZenonT(60) DEF Elsewhere, TurnLost, Age, Revoke, Connect, Poll, Deliver, StreamEnds, StreamCut, SocketCloses,
         SocketBreaks, ConnectRefused, Visibility, ReadDetail, ReadMessages, ReadFails, Watchdog, CheckAgain, vars
  <1>2. turn' = turn \/ turn' = 0 \/ turn' \in Questions
    <2>1. CASE Recover
      <3>1. NewestMessage > 0 => NewestMessage \in Committed
        BY NewestKnown
      <3> QED
        BY <2>1, <3>1 DEF Recover, Questions
    <2> QED
      BY <2>1, Zenon DEF Elsewhere, TurnLost, Age, Revoke, Connect, Poll, Deliver, StreamEnds, StreamCut, SocketCloses,
         SocketBreaks, ConnectRefused, Visibility, ReadDetail, ReadMessages, ReadFails, Watchdog, CheckAgain, vars
  <1>3. page'.unsent = page.unsent
    <2>1. CASE page' = page
      BY <2>1
    <2>2. ASSUME NEW s \in Streams, StreamEnds(s) \/ StreamCut(s) \/ SocketCloses(s) \/ SocketBreaks(s)
          PROVE  page'.unsent = page.unsent
      BY <2>2, DroppedEffect DEF StreamEnds, StreamCut, SocketCloses, SocketBreaks, Switches
    <2>3. ASSUME NEW s \in Streams, Connect(s) \/ Deliver(s) PROVE page'.unsent = page.unsent
      BY <2>3, ConnectEffect, DeliverEffect DEF Switches
    <2>4. CASE ConnectRefused
      BY <2>4, KeepingOperators DEF ConnectRefused, Shapes, Kept
    <2>5. CASE Visibility
      BY <2>5, VisibilityEffect DEF Switches
    <2>6. CASE Watchdog \/ CheckAgain \/ ReadFails
      BY <2>6, CheckEffect DEF Kept
    <2>7. CASE ReadDetail
      <3>1. page' = page \/ Refreshed(detail, read.got[2])
        BY <2>7 DEF ReadDetail
      <3> QED
        BY <2>1, <3>1, RefreshedEffect DEF Kept, Takes
    <2>8. CASE ReadMessages
      <3>1. page' = page \/ Refreshed(read.got[2], Committed)
        BY <2>8 DEF ReadMessages
      <3> QED
        BY <2>1, <3>1, RefreshedEffect DEF Kept, Takes
    <2>9. CASE TurnLost \/ Age \/ Revoke \/ (\E s \in Streams : Poll(s)) \/ UNCHANGED vars
      BY <2>1, <2>9 DEF TurnLost, Age, Revoke, Poll, vars
    <2> QED
      BY <2>2, <2>3, <2>4, <2>5, <2>6, <2>7, <2>8, <2>9 DEF Elsewhere
  <1> QED
    BY <1>1, <1>2, <1>3, Zenon

LEMMA NextParts ==
  ASSUME [Next]_vars
  PROVE  \/ \E text \in 1 .. MaxUser : Send(text)
         \/ GatewayPost \/ PostAnswered \/ BuildStarted \/ PostRefused \/ PostLost \/ Reply \/ Elsewhere
  BY DEF Next, Elsewhere

LEMMA ReplyAnswers ==
  ASSUME Reply
  PROVE  /\ StoresReply(turn + 1)
         /\ UNCHANGED <<held, cut, streams, leases, page, post, read, nextId>>
  BY DEF Reply, TurnReply, StoresReply

\* A question is stored for a post that writes it.
LEMMA PostWrites ==
  ASSUME LogInv, PostInv, post.id > 0, Replayed(post.id) = {}
  PROVE  Writes(post.text, post.id) /\ \A u \in Questions : log[u].id # post.id
  <1>1. post # NoPost
    BY DEF NoPost
  <1>2. \A u \in Questions : log[u].id # post.id
    BY ReplayedAre
  <1> QED
    BY <1>1, <1>2 DEF PostInv

LEMMA LogKept ==
  ASSUME LogInv, PostInv, Shapes, [Next]_vars
  PROVE  LogInv'
  <1>0. nextId \in Nat \ {0}
    BY DEF LogInv
  <1>1. ASSUME NEW text, Send(text) PROVE LogInv'
    <2>1. log' = log /\ turn' = turn /\ (nextId' = nextId \/ nextId' = nextId + 1)
      BY <1>1 DEF Send
    <2>2. nextId' \in Nat \ {0} /\ nextId <= nextId'
      BY <1>0, <2>1
    <2> QED
      BY <2>1, <2>2, LogFrame
  <1>2. CASE GatewayPost
    <2>1. CASE UNCHANGED db /\ nextId' = nextId
      <3>1. log' = log /\ turn' = turn
        BY <2>1 DEF db
      <3>2. nextId' \in Nat \ {0} /\ nextId <= nextId'
        BY <1>0, <2>1
      <3> QED
        BY <3>1, <3>2, LogFrame
    <2>2. CASE Replayed(post.id) = {} /\ \E m : StoresQuestion(m)
      <3>1. Writes(post.text, post.id) /\ \A u \in Questions : log[u].id # post.id
        BY <1>2, <2>2, GatewayPostCases, PostWrites
      <3> QED
        BY <2>2, <3>1, AskKeepsLog
    <2> QED
      BY <1>2, <2>1, <2>2, GatewayPostCases
  <1>3. CASE PostAnswered \/ BuildStarted \/ PostRefused \/ PostLost
    <2>1. log' = log /\ turn' = turn /\ nextId' = nextId
      BY <1>3 DEF PostAnswered, BuildStarted, PostRefused, PostLost
    <2>2. nextId' \in Nat \ {0} /\ nextId <= nextId'
      BY <1>0, <2>1
    <2> QED
      BY <2>1, <2>2, LogFrame
  <1>4. CASE Reply
    BY <1>4, ReplyAnswers, ReplyKeepsLog
  <1>5. CASE Elsewhere
    <2>1. log' = log /\ nextId' = nextId /\ (turn' = turn \/ turn' = 0 \/ turn' \in Questions)
      BY <1>5, ElsewhereEffect
    <2>2. nextId' \in Nat \ {0} /\ nextId <= nextId'
      BY <1>0, <2>1
    <2> QED
      BY <2>1, <2>2, LogFrame
  <1> QED
    BY <1>1, <1>2, <1>3, <1>4, <1>5, NextParts

\* The page and the post stay as they are while no question is stored.
LEMMA PostFrame ==
  ASSUME PostInv, Questions' = Questions, \A n \in Questions : log'[n] = log[n], Ms(NewestMessage') = Ms(NewestMessage),
         nextId \in Nat, nextId' = nextId, post' = post, page'.unsent = page.unsent
  PROVE  PostInv'
  <1>1. \A text, id : Writes(text, id) => Writes(text, id)'
    BY WritesKept
  <1>2. post' = NoPost \/ Writes(post.text, post.id)'
    BY <1>1 DEF PostInv
  <1>3. page'.unsent = <<>> \/ (page'.unsent = <<page'.unsent[1], page'.unsent[2]>>
                                /\ Writes(page.unsent[1], page.unsent[2])')
    BY <1>1 DEF PostInv
  <1>4. post'.answer = "accepted" => \E m \in Questions' : log'[m].id = post'.id
    BY DEF PostInv
  <1>5. post' # NoPost /\ page'.unsent # <<>> => page'.unsent = <<post'.text, post'.id>>
    BY DEF PostInv
  <1> QED
    BY <1>2, <1>3, <1>4, <1>5 DEF PostInv, Writes

LEMMA SendKeepsPost ==
  ASSUME LogInv, PostInv, Shapes, NEW text, Send(text)
  PROVE  PostInv'
  <1> PICK id : id = IdFor(page.unsent, text)
    OBVIOUS
  <1>0. nextId \in Nat \ {0}
    BY DEF LogInv
  <1>1. /\ log' = log /\ post' = [text |-> text, id |-> id, answer |-> "none"]
        /\ nextId' = IF id = nextId THEN nextId + 1 ELSE nextId
        /\ IF page.unsent # <<>> THEN text = page.unsent[1] ELSE text = Ms(NewestMessage) + 1
    BY DEF Send
  <1>2. page'.unsent = page.unsent
    BY SendEffect DEF Kept
  <1>3. Questions' = Questions /\ NewestMessage' = NewestMessage
    BY <1>1 DEF Questions, Committed, NewestMessage
  <1>4. post'.text = text /\ post'.id = id /\ post'.answer = "none"
    BY <1>1
  <1>5. CASE page.unsent # <<>>
    <2>1. id = page.unsent[2] /\ text = page.unsent[1]
      BY <1>1, <1>5 DEF IdFor
    <2>2. page.unsent = <<text, id>> /\ Writes(text, id)
      BY <1>5, <2>1 DEF PostInv
    <2>3. id \in 1 .. nextId - 1
      BY <2>2 DEF Writes
    <2>4. nextId' = nextId
      BY <1>0, <1>1, <2>3
    <2>5. Writes(text, id)'
      BY <1>1, <1>3, <2>2, <2>4 DEF Writes
    <2>6. page'.unsent = <<text, id>> /\ page'.unsent[1] = text /\ page'.unsent[2] = id
      BY <1>2, <2>2
    <2>7. post' = NoPost \/ Writes(post.text, post.id)'
      BY <1>4, <2>5 DEF Writes
    <2>8. page'.unsent = <<page'.unsent[1], page'.unsent[2]>> /\ Writes(page.unsent[1], page.unsent[2])'
      BY <2>5, <2>6 DEF Writes
    <2> QED
      BY <1>4, <2>6, <2>7, <2>8 DEF PostInv
  <1>6. CASE page.unsent = <<>>
    <2>1. id = nextId /\ text = Ms(NewestMessage) + 1
      BY <1>1, <1>6 DEF IdFor
    <2>2. nextId' = nextId + 1
      BY <1>1, <2>1
    <2>3. id \in 1 .. nextId' - 1
      BY <1>0, <2>1, <2>2
    <2>4. \A m \in Questions : log[m].id # id
      <3>1. \A m \in Questions : log[m].id \in 1 .. nextId - 1
        BY DEF LogInv
      <3> QED
        BY <1>0, <2>1, <3>1
    <2>5. Writes(text, id)'
      BY <1>1, <1>3, <2>1, <2>3, <2>4 DEF Writes
    <2>6. post' = NoPost \/ Writes(post.text, post.id)'
      BY <1>4, <2>5 DEF Writes
    <2> QED
      BY <1>2, <1>4, <1>6, <2>6 DEF PostInv
  <1> QED
    BY <1>5, <1>6

LEMMA AskKeepsPost ==
  ASSUME LogInv, PostInv, Shapes, NEW m, StoresQuestion(m), post.id > 0, Replayed(post.id) = {},
         post' = [post EXCEPT !.answer = "accepted"], page' = page
  PROVE  PostInv'
  <1>1. Writes(post.text, post.id) /\ \A u \in Questions : log[u].id # post.id
    BY PostWrites
  <1>2. /\ m \in Nat /\ m \notin Committed /\ Questions' = Questions \cup {m} /\ Questions \subseteq Committed
        /\ \A n \in Committed : log'[n] = log[n]
        /\ log'[m] = [id |-> post.id, text |-> post.text]
    BY <1>1, AskCommits DEF Questions
  <1>3. post'.text = post.text /\ post'.id = post.id
    BY DEF Shapes
  <1>4. Ms(m) = post.text
    <2>1. post.text = Ms(NewestMessage) + 1
      BY <1>1 DEF Writes
    <2>2. PICK k \in Nat : k = Ms(NewestMessage)
      BY NewestKnown, Positions
    <2>3. PICK j \in Nat : j = k + 1
      OBVIOUS
    <2>4. m = 2 * j
      BY <2>2, <2>3 DEF StoresQuestion
    <2> QED
      BY <2>1, <2>2, <2>3, <2>4, Positions
  <1>5. log'[m].id = post.id /\ m \in Questions' /\ nextId' = nextId
    BY <1>2 DEF StoresQuestion
  <1>6. Writes(post.text, post.id)'
    <2>1. post.id \in 1 .. nextId - 1
      BY <1>1 DEF Writes
    <2>2. \A n \in Questions' : log'[n].id = post.id => Ms(n) = post.text
      BY <1>1, <1>2, <1>4
    <2>3. (\A n \in Questions' : log'[n].id # post.id) => post.text = Ms(NewestMessage') + 1
      BY <1>5
    <2> QED
      BY <1>3, <1>5, <2>1, <2>2, <2>3 DEF Writes
  <1>7. page'.unsent = <<>> \/ page'.unsent = <<post'.text, post'.id>>
    <2>1. post # NoPost
      BY DEF NoPost
    <2> QED
      BY <1>3, <2>1 DEF PostInv
  <1>8. page'.unsent = <<>> \/ (page'.unsent = <<page'.unsent[1], page'.unsent[2]>>
                                /\ Writes(page.unsent[1], page.unsent[2])')
    <2>1. CASE page'.unsent = <<post'.text, post'.id>>
      <3>1. page'.unsent[1] = post'.text /\ page'.unsent[2] = post'.id
        BY <2>1
      <3> QED
        BY <1>6, <2>1, <3>1 DEF Writes
    <2> QED
      BY <1>7, <2>1
  <1>9. \E n \in Questions' : log'[n].id = post'.id
    BY <1>3, <1>5
  <1> QED
    BY <1>6, <1>7, <1>8, <1>9 DEF PostInv

LEMMA PostKept ==
  ASSUME LogInv, PostInv, Shapes, [Next]_vars
  PROVE  PostInv'
  <1>0. nextId \in Nat
    BY DEF LogInv
  <1>1. ASSUME NEW text, Send(text) PROVE PostInv'
    BY <1>1, SendKeepsPost
  <1>2. CASE GatewayPost
    <2>1. post.id > 0 /\ page' = page /\ nextId' = nextId
      BY <1>2, GatewayPostCases
    <2>2. CASE Replayed(post.id) = {} /\ post' = [post EXCEPT !.answer = "accepted"] /\ \E m : StoresQuestion(m)
      BY <2>1, <2>2, AskKeepsPost
    <2>3. CASE UNCHANGED db /\ \/ post' = [post EXCEPT !.answer = "refused"]
                               \/ Replayed(post.id) # {} /\ post' = [post EXCEPT !.answer = "accepted"]
      <3>1. log' = log /\ Questions' = Questions /\ NewestMessage' = NewestMessage
        BY <2>3 DEF db, Questions, Committed, NewestMessage
      <3>2. post'.text = post.text /\ post'.id = post.id
        BY <2>3 DEF Shapes
      <3>3. post # NoPost
        BY <2>1 DEF NoPost
      <3>4. \A text, id : Writes(text, id) => Writes(text, id)'
        BY <1>0, <2>1, <3>1, WritesKept
      <3>5. post' = NoPost \/ Writes(post.text, post.id)'
        BY <3>2, <3>3, <3>4 DEF PostInv
      <3>6. page'.unsent = <<>> \/ (page'.unsent = <<page'.unsent[1], page'.unsent[2]>>
                                    /\ Writes(page.unsent[1], page.unsent[2])')
        BY <2>1, <3>4 DEF PostInv
      <3>7. page'.unsent # <<>> => page'.unsent = <<post'.text, post'.id>>
        BY <2>1, <3>2, <3>3 DEF PostInv
      <3>8. post'.answer = "accepted" => \E m \in Questions' : log'[m].id = post'.id
        <4>1. Replayed(post.id) # {} => \E m \in Questions : log[m].id = post.id
          BY ReplayedAre
        <4>2. post' = [post EXCEPT !.answer = "refused"] => post'.answer = "refused"
          BY DEF Shapes
        <4> QED
          BY <2>3, <3>1, <3>2, <4>1, <4>2
      <3> QED
        BY <3>5, <3>6, <3>7, <3>8 DEF PostInv, Writes
    <2> QED
      BY <1>2, <2>2, <2>3, GatewayPostCases
  <1>3. ASSUME NEW S, Settles(S), post' = NoPost PROVE PostInv'
    <2>1. page'.unsent = <<>> /\ post'.answer = "none"
      BY <1>3 DEF Settles, NoPost
    <2> QED
      BY <1>3, <2>1 DEF PostInv
  <1>4. CASE PostAnswered
    BY <1>3, <1>4, SettlingEffect DEF PostAnswered
  <1>5. CASE BuildStarted
    BY <1>3, <1>5, SettlingEffect DEF BuildStarted
  <1>6. CASE PostRefused \/ PostLost
    <2>1. log' = log /\ nextId' = nextId /\ post' = NoPost /\ Returns /\ post # NoPost
      BY <1>6, UnsentEffect DEF PostRefused, PostLost, Unsent, NoPost
    <2>2. Questions' = Questions /\ NewestMessage' = NewestMessage
      BY <2>1 DEF Questions, Committed, NewestMessage
    <2>3. Writes(post.text, post.id)
      BY <2>1 DEF PostInv
    <2>4. page'.unsent = <<post.text, post.id>> /\ page'.unsent[1] = post.text /\ page'.unsent[2] = post.id
      BY <2>1 DEF Returns
    <2>5. Writes(page.unsent[1], page.unsent[2])'
      BY <2>1, <2>2, <2>3, <2>4 DEF Writes
    <2>6. post'.answer = "none"
      BY <2>1 DEF NoPost
    <2> QED
      BY <2>1, <2>4, <2>5, <2>6 DEF PostInv
  <1>7. CASE Reply
    <2>1. StoresReply(turn + 1) /\ nextId' = nextId /\ page' = page /\ post' = post
      BY <1>7, ReplyAnswers
    <2>2. Questions' = Questions /\ (\A n \in Questions : log'[n] = log[n]) /\ Ms(NewestMessage') = Ms(NewestMessage)
      BY <2>1, ReplyCommits
    <2> QED
      BY <1>0, <2>1, <2>2, PostFrame
  <1>8. CASE Elsewhere
    <2>1. log' = log /\ nextId' = nextId /\ post' = post /\ page'.unsent = page.unsent
      BY <1>8, ElsewhereEffect
    <2>2. Questions' = Questions /\ NewestMessage' = NewestMessage
      BY <2>1 DEF Questions, Committed, NewestMessage
    <2> QED
      BY <1>0, <2>1, <2>2, PostFrame
  <1> QED
    BY <1>1, <1>2, <1>4, <1>5, <1>6, <1>7, <1>8, NextParts

(***************************************************************************)
(* What reaches the page, and on which way.                                *)
(***************************************************************************)
\* Messages arrive that the browser may see, with the answer to a send or a read.
Shows(S) ==
  /\ S \subseteq Committed /\ Answering(S, Shown \cup S) /\ (~held => S \subseteq cut)
  /\ page'.msgs = Merged(page.msgs, S) /\ page'.lastId = page.lastId /\ page'.source = page.source
  /\ streams' = streams /\ (read'.got = read.got \/ read'.got = <<>>)

\* The page stays as it is; half of a read may be answered.
PageAsIs ==
  /\ page'.msgs = page.msgs /\ page'.lastId = page.lastId /\ page'.source = page.source
  /\ streams' = streams
  /\ \/ read'.got = read.got \/ read'.got = <<>> \/ read'.got = <<"detail", detail>>
     \/ held /\ read'.got = <<"messages", Committed>>

\* The page loses its connection, or another stream of the page ends.
Cuts ==
  /\ page'.msgs = page.msgs /\ (page'.lastId = page.lastId \/ page'.lastId = 0)
  /\ \/ page'.source = 0
     \/ /\ page'.source = page.source
        /\ page.source \in Streams => streams'[page.source] = streams[page.source]
  /\ read'.got = read.got

LEMMA AnswerShows ==
  ASSUME LogInv, PostInv, AccessInv, post.answer = "accepted"
  PROVE  LET S == {CHOOSE m \in Replayed(post.id) : TRUE} IN
         S \subseteq Committed /\ Answering(S, Shown \cup S) /\ (~held => S \subseteq cut)
  <1>1. PICK m : m = CHOOSE x \in Replayed(post.id) : TRUE
    OBVIOUS
  <1>2. Replayed(post.id) = {u \in Questions : log[u].id = post.id} /\ Replayed(post.id) # {}
    BY ReplayedAre DEF PostInv
  <1>3. m \in Questions
    BY <1>1, <1>2
  <1>4. m \in Committed /\ IsUser(m)
    BY <1>3 DEF Questions
  <1>5. {m} \subseteq Committed /\ Answering({m}, Shown \cup {m}) /\ (~held => {m} \subseteq cut)
    BY <1>3, <1>4 DEF Answering, AccessInv
  <1> QED
    BY <1>1, <1>5

LEMMA PostSteps ==
  ASSUME LogInv, PostInv, AccessInv, Shapes, PostAnswered \/ BuildStarted
  PROVE  \E S : Shows(S)
  <1>1. ASSUME NEW S, Settles(S), S \subseteq Committed, Answering(S, Shown \cup S), ~held => S \subseteq cut,
               streams' = streams, read' = read
        PROVE  Shows(S)
    BY <1>1 DEF Shows, Settles
  <1>2. post.answer = "accepted" /\ streams' = streams /\ read' = read
    BY DEF PostAnswered, BuildStarted
  <1>3. PICK A : A = {CHOOSE m \in Replayed(post.id) : TRUE}
    OBVIOUS
  <1>4. A \subseteq Committed /\ Answering(A, Shown \cup A) /\ (~held => A \subseteq cut)
    BY <1>2, <1>3, AnswerShows
  <1>5. CASE PostAnswered
    <2>1. Settles(A)
      BY <1>3, <1>5, SettlingEffect DEF PostAnswered
    <2> QED
      BY <1>1, <1>2, <1>4, <2>1
  <1>6. CASE BuildStarted
    <2>1. \/ page' = Clocked(BuildCreated(page, detail, IF held THEN Committed ELSE A))
          \/ page' = Clocked(BuildCreated(page, detail, {}))
      BY <1>3, <1>6 DEF BuildStarted
    <2>2. Settles(IF held THEN Committed ELSE A) \/ Settles({})
      BY <2>1, SettlingEffect
    <2>3. CASE Settles({})
      <3>1. Answering({}, Shown \cup {}) /\ {} \subseteq Committed /\ {} \subseteq cut
        BY DEF Answering
      <3> QED
        BY <1>1, <1>2, <2>3, <3>1
    <2>4. CASE held /\ Settles(Committed)
      <3>1. Answering(Committed, Shown \cup Committed)
        BY DEF LogInv, Answering
      <3> QED
        BY <1>1, <1>2, <2>4, <3>1
    <2>5. CASE ~held /\ Settles(A)
      BY <1>1, <1>2, <1>4, <2>5
    <2> QED
      BY <2>2, <2>3, <2>4, <2>5
  <1> QED
    BY <1>5, <1>6

LEMMA ReadSteps ==
  ASSUME LogInv, ReadInv, Shapes, ReadDetail \/ ReadMessages
  PROVE  PageAsIs \/ \E S : Shows(S)
  <1>1. held /\ streams' = streams
    BY DEF ReadDetail, ReadMessages
  <1>2. ASSUME NEW d, NEW S, Refreshed(d, S), S \subseteq Committed, Answering(S, S)
        PROVE  PageAsIs \/ Shows(S)
    <2>1. Kept(page, page') \/ Takes(page, page', S)
      BY <1>2, RefreshedEffect
    <2>2. read'.got = <<>>
      BY <1>2, RefreshedEffect
    <2>3. Answering(S, Shown \cup S)
      BY <1>2 DEF Answering
    <2> QED
      BY <1>1, <1>2, <2>1, <2>2, <2>3 DEF Kept, Takes, PageAsIs, Shows
  <1>3. CASE ReadDetail
    <2>1. CASE read' = [read EXCEPT !.got = <<"detail", detail>>] /\ page' = page
      <3>1. read'.got = <<"detail", detail>>
        BY <2>1 DEF Shapes
      <3> QED
        BY <1>1, <2>1, <3>1 DEF PageAsIs
    <2>2. CASE read.got # <<>> /\ read.got[1] = "messages" /\ Refreshed(detail, read.got[2])
      <3>1. read.got[2] \subseteq Committed /\ Answering(read.got[2], read.got[2])
        BY <2>2 DEF ReadInv
      <3> QED
        BY <1>2, <2>2, <3>1
    <2> QED
      BY <1>3, <2>1, <2>2 DEF ReadDetail
  <1>4. CASE ReadMessages
    <2>1. CASE read' = [read EXCEPT !.got = <<"messages", Committed>>] /\ page' = page
      <3>1. read'.got = <<"messages", Committed>>
        BY <2>1 DEF Shapes
      <3> QED
        BY <1>1, <2>1, <3>1 DEF PageAsIs
    <2>2. CASE Refreshed(read.got[2], Committed)
      <3>1. Answering(Committed, Committed)
        BY DEF LogInv
      <3> QED
        BY <1>2, <2>2, <3>1
    <2> QED
      BY <1>4, <2>1, <2>2 DEF ReadMessages
  <1> QED
    BY <1>3, <1>4

LEMMA CutSteps ==
  ASSUME Shapes, NEW s \in Streams, StreamEnds(s) \/ StreamCut(s) \/ SocketCloses(s) \/ SocketBreaks(s)
  PROVE  Cuts
  <1>1. page' = Dropped(s) /\ read' = read /\ (streams' = streams \/ \E st : CloseStream(s, st))
    BY DEF StreamEnds, StreamCut, SocketCloses, SocketBreaks
  <1>2. Switches(IF page.source = s THEN 0 ELSE page.source)
    BY <1>1, DroppedEffect
  <1>3. \A t \in Streams : t # s => streams'[t] = streams[t]
    <2>1. CASE streams' = streams
      BY <2>1
    <2>2. ASSUME NEW st, CloseStream(s, st) PROVE \A t \in Streams : t # s => streams'[t] = streams[t]
      <3>1. streams' = [streams EXCEPT ![s] = [NoStream EXCEPT !.st = st]]
        BY <2>2 DEF CloseStream
      <3> QED
        BY <3>1, StreamShapes, OneStream
    <2> QED
      BY <1>1, <2>1, <2>2
  <1>4. CASE page.source = s
    BY <1>1, <1>2, <1>4 DEF Switches, Cuts
  <1>5. CASE page.source # s
    BY <1>1, <1>2, <1>3, <1>5 DEF Switches, Cuts
  <1> QED
    BY <1>4, <1>5

LEMMA StepCases ==
  ASSUME LogInv, PostInv, ReadInv, AccessInv, Shapes, [Next]_vars
  PROVE  PageAsIs \/ (\E S : Shows(S)) \/ Cuts \/ \E s \in Streams : Connect(s) \/ Poll(s) \/ Deliver(s)
  <1>1. ASSUME Kept(page, page'), streams' = streams, read'.got = read.got \/ read'.got = <<>>
        PROVE  PageAsIs
    BY <1>1 DEF Kept, PageAsIs
  <1>2. CASE page' = page /\ streams' = streams /\ read' = read
    BY <1>2 DEF PageAsIs
  <1>3. ASSUME NEW text, Send(text) PROVE PageAsIs
    BY <1>1, <1>3, SendEffect DEF Send
  <1>4. CASE PostAnswered \/ BuildStarted
    BY <1>4, PostSteps
  <1>5. CASE PostRefused \/ PostLost
    BY <1>5, UnsentEffect DEF PostRefused, PostLost, Returns, PageAsIs
  <1>6. CASE ConnectRefused
    <2>1. Kept(page, page')
      BY <1>6, KeepingOperators DEF ConnectRefused, Shapes
    <2> QED
      BY <1>1, <1>6, <2>1 DEF ConnectRefused
  <1>7. CASE Visibility
    BY <1>7, VisibilityEffect DEF Visibility, Switches, Cuts
  <1>8. CASE ReadDetail \/ ReadMessages
    BY <1>8, ReadSteps
  <1>9. CASE Watchdog \/ CheckAgain \/ ReadFails
    <2>1. Kept(page, page') /\ (read'.got = read.got \/ read'.got = <<>>)
      BY <1>9, CheckEffect
    <2> QED
      BY <1>1, <1>9, <2>1 DEF Watchdog, CheckAgain, ReadFails
  <1>10. ASSUME NEW s \in Streams, StreamEnds(s) \/ StreamCut(s) \/ SocketCloses(s) \/ SocketBreaks(s)
         PROVE  Cuts
    BY <1>10, CutSteps
  <1>11. CASE GatewayPost \/ Reply \/ TurnLost \/ Age \/ Revoke \/ UNCHANGED vars
    BY <1>2, <1>11 DEF GatewayPost, Reply, TurnReply, TurnLost, Age, Revoke, vars
  <1> QED
    BY <1>3, <1>4, <1>5, <1>6, <1>7, <1>8, <1>9, <1>10, <1>11 DEF Next

\* The log only grows, a question is stored after everything else, and none once the build is lost.
LogMovesOn ==
  /\ Committed \subseteq Committed' /\ Questions \subseteq Questions'
  /\ \A n \in Questions' \ Questions : n \in Nat /\ \A m \in Committed \cup {0} : m < n
  /\ held' => held
  /\ ~held => held' = held /\ cut' = cut /\ Questions' = Questions
  /\ held /\ ~held' => cut' = Committed /\ PageAsIs /\ Questions' = Questions

LEMMA LogGrows ==
  ASSUME LogInv, PostInv, Shapes, [Next]_vars
  PROVE  LogMovesOn
  <1>1. ASSUME Committed' = Committed, held' = held, cut' = cut PROVE LogMovesOn
    BY <1>1 DEF LogMovesOn, Questions
  <1>2. ASSUME log' = log, held' = held, cut' = cut PROVE LogMovesOn
    BY <1>1, <1>2 DEF Committed
  <1>3. CASE GatewayPost
    <2>1. CASE UNCHANGED db
      BY <1>2, <1>3, <2>1 DEF db, GatewayPost
    <2>2. CASE held /\ Replayed(post.id) = {} /\ \E m : StoresQuestion(m)
      <3>1. PICK m : StoresQuestion(m)
        BY <2>2
      <3>2. Writes(post.text, post.id) /\ \A u \in Questions : log[u].id # post.id
        BY <1>3, <2>2, GatewayPostCases, PostWrites
      <3>3. /\ m \in Nat /\ IsUser(m) /\ m \notin Committed /\ \A n \in Committed : n < m
            /\ Committed' = Committed \cup {m} /\ Questions' = Questions \cup {m}
        BY <3>1, <3>2, AskCommits
      <3>4. 0 < m
        <4>1. m # 0
          <5>1. PICK k \in Nat : k = Ms(NewestMessage)
            BY NewestKnown, Positions
          <5> QED
            BY <3>1, <5>1 DEF StoresQuestion
        <4> QED
          BY <3>3, <4>1
      <3>5. held' = held /\ cut' = cut
        BY <1>3 DEF GatewayPost
      <3> QED
        BY <2>2, <3>3, <3>4, <3>5 DEF LogMovesOn
    <2> QED
      BY <1>3, <2>1, <2>2, GatewayPostCases
  <1>4. CASE Reply
    <2>1. Committed \subseteq Committed' /\ Questions' = Questions
      BY <1>4, ReplyAnswers, ReplyCommits
    <2> QED
      BY <1>4, <2>1, ReplyAnswers DEF LogMovesOn
  <1>5. CASE Revoke
    <2>1. held /\ cut' = Committed /\ PageAsIs /\ log' = log /\ held' = FALSE
      BY <1>5 DEF Revoke, PageAsIs
    <2>2. Committed' = Committed /\ Questions' = Questions
      BY <2>1 DEF Committed, Questions
    <2> QED
      BY <2>1, <2>2 DEF LogMovesOn
  <1>6. CASE \/ (\E text \in 1 .. MaxUser : Send(text))
             \/ PostAnswered \/ BuildStarted \/ PostRefused \/ PostLost \/ TurnLost \/ Age
             \/ ConnectRefused \/ Visibility \/ ReadDetail \/ ReadMessages \/ ReadFails \/ Watchdog \/ CheckAgain
             \/ UNCHANGED vars
    <2>1. log' = log /\ held' = held /\ cut' = cut
      BY <1>6 DEF Send, PostAnswered, BuildStarted, PostRefused, PostLost, TurnLost, Age,
           ConnectRefused, Visibility, ReadDetail, ReadMessages, ReadFails, Watchdog, CheckAgain, vars
    <2> QED
      BY <1>2, <2>1
  <1>7. ASSUME NEW s \in Streams, \/ Connect(s) \/ Poll(s) \/ Deliver(s)
                                  \/ StreamEnds(s) \/ StreamCut(s) \/ SocketCloses(s) \/ SocketBreaks(s)
        PROVE  LogMovesOn
    <2>1. log' = log /\ held' = held /\ cut' = cut
      BY <1>7 DEF Connect, Poll, Deliver, StreamEnds, StreamCut, SocketCloses, SocketBreaks
    <2> QED
      BY <1>2, <2>1
  <1> QED
    BY <1>3, <1>4, <1>5, <1>6, <1>7 DEF Next

LEMMA UpToKept ==
  ASSUME LogInv, LogMovesOn
  PROVE  \A position, S, T : UpTo(position, S) /\ S \subseteq T => UpTo(position, T)'
  <1> TAKE position, S, T
  <1> HAVE UpTo(position, S) /\ S \subseteq T
  <1>1. position \in Committed \cup {0} /\ position \in Nat
    BY NewestKnown DEF UpTo
  <1>2. position \in Committed' \cup {0}
    BY <1>1 DEF LogMovesOn
  <1>3. ASSUME NEW n \in Questions', n <= position PROVE n \in T
    <2>1. CASE n \in Questions
      BY <1>3, <2>1 DEF UpTo
    <2>2. CASE n \notin Questions
      <3>1. position < n /\ n \in Nat
        BY <1>1, <2>2 DEF LogMovesOn
      <3> QED
        BY <1>1, <1>3, <3>1
    <2> QED
      BY <2>1, <2>2
  <1> QED
    BY <1>2, <1>3 DEF UpTo

\* Messages that arrive are shown with those that were, in order.
LEMMA Arrive ==
  ASSUME LogInv, PageInv, NEW S, S \subseteq Committed, Answering(S, Shown \cup S),
         page'.msgs = Merged(page.msgs, S)
  PROVE  /\ Shown' = Shown \cup S /\ Answering(Shown', Shown')
         /\ page'.msgs \in Seq(Committed) /\ TranscriptInOrder'
  <1>1. Committed \subseteq Nat /\ IsFiniteSet(Committed)
    BY NewestKnown
  <1>2. S \in SUBSET Nat /\ IsFiniteSet(S)
    <2>1. IsFiniteSet(S)
      BY <1>1, FS_Subset
    <2> QED
      BY <1>1, <2>1
  <1>3. page.msgs \in Seq(Committed) /\ page.msgs \in Seq(Nat)
    <2>1. page.msgs \in Seq(Committed)
      BY DEF PageInv
    <2>2. page.msgs \in [1 .. Len(page.msgs) -> Committed] /\ Len(page.msgs) \in Nat
      BY <2>1, LenProperties
    <2>3. page.msgs \in [1 .. Len(page.msgs) -> Nat]
      BY <1>1, <2>2
    <2> QED
      BY <2>1, <2>2, <2>3, SeqDef
  <1>4. InOrder(page.msgs)
    BY <1>3 DEF PageInv, TranscriptInOrder, InOrder
  <1>5. Answering(ToSet(page.msgs), ToSet(page.msgs))
    BY DEF PageInv, Shown
  <1>6. InOrder(page'.msgs) /\ ToSet(page'.msgs) = ToSet(page.msgs) \cup S
    BY <1>2, <1>4, <1>5, MergedInOrder
  <1>7. Shown' = Shown \cup S
    BY <1>6 DEF Shown
  <1>8. Answering(Shown', Shown')
    BY <1>5, <1>7 DEF Answering, Shown
  <1>9. Shown \subseteq Committed
    <2>1. \A m \in ToSet(page.msgs) : \E i \in 1 .. Len(page.msgs) : page.msgs[i] = m
      BY <1>3, ShownIn
    <2>2. \A i \in 1 .. Len(page.msgs) : page.msgs[i] \in Committed
      BY <1>3, ElementOfSeq
    <2> QED
      BY <2>1, <2>2 DEF Shown
  <1>10. page'.msgs \in Seq(Committed)
    <2>1. page'.msgs \in Seq(Nat)
      BY <1>6 DEF InOrder
    <2>2. page'.msgs \in [1 .. Len(page'.msgs) -> Nat] /\ Len(page'.msgs) \in Nat
      BY <2>1, LenProperties
    <2>3. \A i \in 1 .. Len(page'.msgs) : page'.msgs[i] \in ToSet(page'.msgs)
      BY <2>1, ShownIn
    <2>4. page'.msgs \in [1 .. Len(page'.msgs) -> Committed]
      BY <1>6, <1>7, <1>9, <2>2, <2>3 DEF Shown
    <2> QED
      BY <2>2, <2>4, SeqDef
  <1>11. TranscriptInOrder'
    BY <1>6 DEF InOrder, TranscriptInOrder
  <1> QED
    BY <1>7, <1>8, <1>10, <1>11

LEMMA MoreOf ==
  ASSUME NEW S, NEW T, S \subseteq T
  PROVE  \A s \in Seq(S) : s \in Seq(T)
  <1> TAKE s \in Seq(S)
  <1>1. s \in [1 .. Len(s) -> S] /\ Len(s) \in Nat
    BY LenProperties
  <1>2. s \in [1 .. Len(s) -> T]
    BY <1>1
  <1> QED
    BY <1>1, <1>2, SeqDef

\* Committed messages that arrive beside their questions, up to a position.
LEMMA PageTakes ==
  ASSUME LogInv, PageInv, LogMovesOn, NEW S, S \subseteq Committed, Answering(S, Shown \cup S),
         page'.msgs = Merged(page.msgs, S), NEW position, page'.lastId = position, UpTo(position, Shown \cup S)
  PROVE  PageInv' /\ Shown' = Shown \cup S
  <1>1. /\ Shown' = Shown \cup S /\ Answering(Shown', Shown')
        /\ page'.msgs \in Seq(Committed) /\ TranscriptInOrder'
    BY Arrive
  <1>2. page'.msgs \in Seq(Committed')
    BY <1>1, MoreOf DEF LogMovesOn
  <1>3. \A T : T = Shown \cup S => UpTo(position, T)'
    BY UpToKept
  <1>4. PICK T : T = Shown \cup S
    OBVIOUS
  <1>5. UpTo(position, T)' /\ T = Shown'
    BY <1>1, <1>3, <1>4
  <1>6. UpTo(page.lastId, Shown)'
    BY <1>5 DEF UpTo
  <1> QED
    BY <1>1, <1>2, <1>6 DEF PageInv

LEMMA PageStays ==
  ASSUME LogInv, PageInv, LogMovesOn, page'.msgs = page.msgs, page'.lastId = page.lastId \/ page'.lastId = 0
  PROVE  PageInv' /\ Shown' = Shown
  <1>1. Shown' = Shown /\ TranscriptInOrder'
    BY DEF Shown, PageInv, TranscriptInOrder
  <1>2. page'.msgs \in Seq(Committed')
    BY MoreOf DEF LogMovesOn, PageInv
  <1>3. PICK T : T = Shown
    OBVIOUS
  <1>4. PICK position : position = page'.lastId
    OBVIOUS
  <1>5. UpTo(position, T)
    <2>1. UpTo(page.lastId, Shown)
      BY DEF PageInv
    <2>2. UpTo(0, Shown)
      <3>1. \A n \in Questions : ~(n <= 0)
        BY NewestKnown DEF Questions
      <3> QED
        BY <3>1 DEF UpTo
    <2> QED
      BY <1>3, <1>4, <2>1, <2>2
  <1>6. UpTo(position, T)'
    BY <1>5, UpToKept
  <1>7. UpTo(page.lastId, Shown)'
    BY <1>1, <1>3, <1>4, <1>6 DEF UpTo
  <1> QED
    BY <1>1, <1>2, <1>7 DEF PageInv, Answering

LEMMA UpToPositions ==
  ASSUME LogInv
  PROVE  \A position, S : UpTo(position, S) => position \in Nat /\ position \in Committed \cup {0}
  <1>1. Committed \subseteq Nat
    BY NewestKnown
  <1> QED
    BY <1>1 DEF UpTo

\* What a delivery lets the browser remember.
LEMMA DeliveredUpTo ==
  ASSUME LogInv, PageInv, NEW x, FollowInv(x)
  PROVE  UpTo(IF x.batch.msgs # {} THEN Max(x.batch.msgs) ELSE Max({page.lastId, x.batch.id}),
              Shown \cup x.batch.msgs)
  <1> DEFINE e == x.batch.msgs
             known == Shown \cup e
  <1>1. /\ e \subseteq Committed /\ (\A m \in e : m <= x.cursor)
        /\ UpTo(x.cursor, known) /\ UpTo(x.batch.id, Shown)
    BY DEF FollowInv
  <1>2. Committed \subseteq Nat /\ IsFiniteSet(Committed) /\ Questions \subseteq Committed
    BY NewestKnown DEF Questions
  <1>3. UpTo(page.lastId, Shown)
    BY DEF PageInv
  <1>4. CASE e # {}
    <2>1. IsFiniteSet(e) /\ e \in SUBSET Nat
      <3>1. IsFiniteSet(e)
        BY <1>1, <1>2, FS_Subset
      <3> QED
        BY <1>1, <1>2, <3>1
    <2>2. PICK top : top = Max(e) /\ top \in e
      BY <1>4, <2>1, Latest
    <2>3. top \in Committed /\ top \in Nat /\ top <= x.cursor /\ x.cursor \in Nat
      <3>1. top \in Committed /\ top <= x.cursor
        BY <1>1, <2>2
      <3>2. x.cursor \in Nat
        BY <1>1, UpToPositions
      <3> QED
        BY <1>2, <3>1, <3>2
    <2>4. ASSUME NEW n \in Questions, n <= top PROVE n \in known
      <3>1. n \in Nat /\ n <= x.cursor
        BY <1>2, <2>3, <2>4
      <3> QED
        BY <1>1, <3>1 DEF UpTo
    <2> QED
      BY <1>4, <2>2, <2>3, <2>4 DEF UpTo
  <1>5. CASE e = {}
    <2> DEFINE ids == {page.lastId, x.batch.id}
    <2>1. ids \in SUBSET Nat /\ IsFiniteSet(ids) /\ ids # {}
      <3>1. page.lastId \in Nat /\ x.batch.id \in Nat
        BY <1>1, <1>3, UpToPositions
      <3>2. IsFiniteSet({page.lastId}) /\ IsFiniteSet({x.batch.id})
        BY FS_Singleton
      <3>3. IsFiniteSet({page.lastId} \cup {x.batch.id})
        BY <3>2, FS_Union
      <3>4. ids = {page.lastId} \cup {x.batch.id}
        OBVIOUS
      <3> QED
        BY <3>1, <3>3, <3>4
    <2> HIDE DEF ids
    <2>2. Max(ids) \in ids
      BY <2>1, Latest
    <2>3. Max(ids) = page.lastId \/ Max(ids) = x.batch.id
      BY <2>2 DEF ids
    <2>4. UpTo(Max(ids), Shown)
      BY <1>1, <1>3, <2>3
    <2> QED
      BY <1>5, <2>4 DEF UpTo, ids
  <1> QED
    BY <1>4, <1>5

LEMMA DeliverShows ==
  ASSUME LogInv, PageInv, SourceInv, Shapes, LogMovesOn, NEW s \in Streams, Deliver(s)
  PROVE  PageInv' /\ Shown' = Shown \cup streams[s].batch.msgs
  <1>1. page.source = s /\ s # 0
    BY EventsAssumption DEF Deliver
  <1>2. PICK x : x = streams[s]
    OBVIOUS
  <1>3. FollowInv(x)
    BY <1>1, <1>2 DEF SourceInv
  <1>4. PICK position : position = IF x.batch.msgs # {} THEN Max(x.batch.msgs) ELSE Max({page.lastId, x.batch.id})
    OBVIOUS
  <1>5. page'.msgs = Merged(page.msgs, x.batch.msgs) /\ page'.lastId = position
    BY <1>2, <1>4, DeliverEffect
  <1>6. PICK S : S = x.batch.msgs
    OBVIOUS
  <1>7. S \subseteq Committed /\ Answering(S, Shown \cup S)
    BY <1>3, <1>6 DEF FollowInv
  <1>8. UpTo(position, Shown \cup S)
    BY <1>3, <1>4, <1>6, DeliveredUpTo
  <1>9. PageInv' /\ Shown' = Shown \cup S
    BY <1>5, <1>6, <1>7, <1>8, PageTakes
  <1> QED
    BY <1>2, <1>6, <1>9

LEMMA ShowsShown ==
  ASSUME LogInv, PageInv, LogMovesOn, NEW S, Shows(S)
  PROVE  PageInv' /\ Shown' = Shown \cup S
  <1>1. UpTo(page.lastId, Shown \cup S)
    BY DEF PageInv, UpTo
  <1>2. PICK position : position = page.lastId
    OBVIOUS
  <1> QED
    BY <1>1, <1>2, PageTakes DEF Shows

\* On every way the page keeps what it shows.
LEMMA PageKept ==
  ASSUME LogInv, PageInv, SourceInv, Shapes, LogMovesOn,
         PageAsIs \/ (\E S : Shows(S)) \/ Cuts \/ \E s \in Streams : Connect(s) \/ Poll(s) \/ Deliver(s)
  PROVE  PageInv' /\ Shown \subseteq Shown'
  <1>1. CASE PageAsIs \/ Cuts
    BY <1>1, PageStays DEF PageAsIs, Cuts
  <1>2. CASE \E S : Shows(S)
    BY <1>2, ShowsShown
  <1>3. ASSUME NEW s \in Streams, Connect(s) PROVE PageInv' /\ Shown \subseteq Shown'
    BY <1>3, ConnectEffect, PageStays DEF Switches
  <1>4. ASSUME NEW s \in Streams, Poll(s) PROVE PageInv' /\ Shown \subseteq Shown'
    BY <1>4, PageStays DEF Poll
  <1>5. ASSUME NEW s \in Streams, Deliver(s) PROVE PageInv' /\ Shown \subseteq Shown'
    BY <1>5, DeliverShows
  <1> QED
    BY <1>1, <1>2, <1>3, <1>4, <1>5

\* A half answered read keeps what it got.
LEMMA ReadKept ==
  ASSUME LogInv, ReadInv, LogMovesOn, Shapes,
         PageAsIs \/ (\E S : Shows(S)) \/ Cuts \/ \E s \in Streams : Connect(s) \/ Poll(s) \/ Deliver(s)
  PROVE  ReadInv'
  <1>1. /\ \/ read'.got = read.got \/ read'.got = <<>> \/ read'.got = <<"detail", detail>>
           \/ read'.got = <<"messages", Committed>>
    <2>1. ASSUME NEW s \in Streams, Connect(s) \/ Poll(s) \/ Deliver(s)
          PROVE  read'.got = read.got \/ read'.got = <<>>
      BY <2>1, ConnectEffect, DeliverEffect DEF Poll
    <2> QED
      BY <2>1 DEF PageAsIs, Shows, Cuts
  <1>2. CASE read'.got = <<>>
    BY <1>2 DEF ReadInv
  <1>3. CASE read'.got = <<"detail", detail>>
    <2>1. read'.got = <<"detail", read'.got[2]>>
      BY <1>3
    <2> QED
      BY <2>1 DEF ReadInv
  <1>4. CASE read'.got = <<"messages", Committed>>
    <2>1. read'.got = <<"messages", read'.got[2]>> /\ read'.got[2] = Committed
      BY <1>4
    <2>2. Answering(Committed, Committed)
      BY DEF LogInv
    <2>3. read'.got[2] \subseteq Committed' /\ Answering(read'.got[2], read'.got[2])
      BY <2>1, <2>2 DEF LogMovesOn
    <2> QED
      BY <2>1, <2>3 DEF ReadInv, Answering
  <1>5. CASE read'.got = read.got
    <2>1. Committed \subseteq Committed'
      BY DEF LogMovesOn
    <2> QED
      BY <1>5, <2>1 DEF ReadInv, Answering
  <1> QED
    BY <1>1, <1>2, <1>3, <1>4, <1>5

LEMMA FollowKept ==
  ASSUME LogInv, LogMovesOn, Shown \subseteq Shown', NEW x, FollowInv(x)
  PROVE  FollowInv(x)'
  <1>1. PICK known, later : known = Shown \cup x.batch.msgs /\ later = Shown' \cup x.batch.msgs
    OBVIOUS
  <1>2. PICK old, new : old = Shown /\ new = Shown'
    OBVIOUS
  <1>3. /\ x.batch.msgs \subseteq Committed /\ (\A m \in x.batch.msgs : m <= x.cursor)
        /\ x.sent \subseteq known /\ Answering(x.batch.msgs, known)
        /\ UpTo(x.cursor, known) /\ UpTo(x.batch.id, old) /\ x.batch.id <= x.cursor
        /\ x.resume \in Nat /\ x.resume <= x.cursor
    BY <1>1, <1>2 DEF FollowInv
  <1>4. known \subseteq later /\ old \subseteq new
    BY <1>1, <1>2
  <1>5. UpTo(x.cursor, later)' /\ UpTo(x.batch.id, new)'
    BY <1>3, <1>4, UpToKept
  <1>6. x.batch.msgs \subseteq Committed' /\ x.sent \subseteq later /\ Answering(x.batch.msgs, later)
    BY <1>3, <1>4 DEF LogMovesOn, Answering
  <1> QED
    BY <1>1, <1>2, <1>3, <1>5, <1>6 DEF FollowInv, UpTo, Answering

\* A poll sends what is new, each reply with or after its question.
LEMMA FollowPolled ==
  ASSUME LogInv, Shapes, NEW s \in Streams, FollowInv(streams[s]), streams[s].batch = NoEvents,
         NEW x, x = Polled(streams[s], Due(s))
  PROVE  FollowInv(x)
  <1>1. PICK y, due : y = streams[s] /\ due = Due(s)
    OBVIOUS
  <1>2. /\ IsStream(x) /\ x.sent = y.sent \cup due /\ x.cursor = Max(due \cup {y.cursor})
        /\ x.resume = y.resume /\ x.batch.msgs = due /\ x.batch.id = y.cursor
    <2>1. IsStream(streams[s])
      BY DEF Shapes
    <2> QED
      BY <1>1, <2>1, PolledStream
  <1>3. /\ y.sent \subseteq Shown /\ UpTo(y.cursor, Shown) /\ y.resume \in Nat /\ y.resume <= y.cursor
    <2>1. y.batch.msgs = {}
      BY <1>1 DEF NoEvents
    <2>2. Shown \cup y.batch.msgs = Shown
      BY <2>1
    <2> QED
      BY <1>1, <2>2 DEF FollowInv
  <1>4. /\ due \subseteq Committed
        /\ \A m \in Committed : (y.cursor > 0 => m > y.cursor - Lookback) /\ m \notin y.sent /\ m > y.resume => m \in due
    BY <1>1 DEF Due
  <1>5. Committed \subseteq Nat /\ IsFiniteSet(Committed) /\ Questions \subseteq Committed /\ y.cursor \in Nat
        /\ y.cursor \in Committed \cup {0} /\ Lookback \in Nat
    BY <1>3, NewestKnown, UpToPositions, EventsAssumption DEF Questions
  <1>6. ASSUME NEW m \in Questions PROVE m \in Shown \cup due
    <2>1. m \in Nat /\ m \in Committed
      BY <1>5
    <2>2. CASE m <= y.cursor
      BY <1>3, <2>2 DEF UpTo
    <2>3. CASE ~(m <= y.cursor)
      <3>1. (y.cursor > 0 => m > y.cursor - Lookback) /\ m > y.resume
        BY <1>3, <1>5, <2>1, <2>3
      <3> QED
        BY <1>3, <1>4, <2>1, <3>1
    <2> QED
      BY <2>2, <2>3
  <1>7. Answering(due, Shown \cup due)
    <2>1. \A m \in due : ~IsUser(m) => m - 1 \in Questions
      <3> SUFFICES ASSUME NEW m \in due, ~IsUser(m) PROVE m - 1 \in Questions
        OBVIOUS
      <3>1. m \in Committed /\ m \in Nat
        BY <1>4, <1>5
      <3>2. m - 1 \in Committed
        BY <3>1 DEF LogInv, Answering
      <3>3. PICK k \in Nat : m = 2 * k + 1
        BY <3>1, Positions
      <3>4. m - 1 = 2 * k
        BY <3>3
      <3> QED
        BY <3>2, <3>4, Positions DEF Questions
    <2> QED
      BY <1>6, <2>1 DEF Answering
  <1>8. PICK top : top = Max(due \cup {y.cursor})
    OBVIOUS
  <1>9. top \in Nat /\ top \in Committed \cup {0} /\ y.cursor <= top /\ \A m \in due : m <= top
    <2> DEFINE T == due \cup {y.cursor}
    <2>1. T \in SUBSET Nat /\ T # {} /\ T \subseteq Committed \cup {0}
      BY <1>4, <1>5
    <2>2. IsFiniteSet(T)
      <3>1. IsFiniteSet(due)
        BY <1>4, <1>5, FS_Subset
      <3> QED
        BY <3>1, FS_AddElement
    <2> HIDE DEF T
    <2>3. Max(T) \in T /\ \A m \in T : m <= Max(T)
      BY <2>1, <2>2, Latest
    <2>4. top = Max(T) /\ y.cursor \in T /\ due \subseteq T
      BY <1>8 DEF T
    <2> QED
      BY <2>1, <2>3, <2>4
  <1>10. UpTo(top, Shown \cup due)
    BY <1>6, <1>9 DEF UpTo
  <1>11. x.resume \in Nat /\ x.resume <= x.cursor
    BY <1>2, <1>3, <1>5, <1>8, <1>9
  <1> QED
    BY <1>2, <1>3, <1>4, <1>7, <1>8, <1>9, <1>10, <1>11 DEF FollowInv

LEMMA FollowOpened ==
  ASSUME LogInv, PageInv, NEW x, x = Opened(page.lastId)
  PROVE  FollowInv(x)
  <1>1. UpTo(page.lastId, Shown) /\ page.lastId \in Nat
    BY UpToPositions DEF PageInv
  <1>2. x.resume = page.lastId /\ x.cursor = page.lastId /\ x.sent = {} /\ x.batch = NoEvents
    BY DEF Opened, NoStream
  <1>3. x.batch.msgs = {} /\ x.batch.id = 0
    BY <1>2 DEF NoEvents
  <1>4. UpTo(0, Shown)
    <2>1. \A n \in Questions : ~(n <= 0)
      BY NewestKnown DEF Questions
    <2> QED
      BY <2>1 DEF UpTo
  <1>5. Shown \cup x.batch.msgs = Shown
    BY <1>3
  <1> QED
    BY <1>1, <1>2, <1>3, <1>4, <1>5 DEF FollowInv, Answering

LEMMA FollowDelivered ==
  ASSUME LogInv, NEW y, FollowInv(y), IsStream(y), NEW x, x = [y EXCEPT !.batch = NoEvents], Shown' = Shown \cup y.batch.msgs,
         LogMovesOn
  PROVE  FollowInv(x)'
  <1>1. /\ x.sent = y.sent /\ x.cursor = y.cursor /\ x.resume = y.resume /\ x.batch = NoEvents
    BY DEF IsStream, StreamFields
  <1>2. x.batch.msgs = {} /\ x.batch.id = 0
    BY <1>1 DEF NoEvents
  <1>3. PICK known : known = Shown \cup y.batch.msgs
    OBVIOUS
  <1>4. y.sent \subseteq known /\ UpTo(y.cursor, known) /\ y.resume \in Nat /\ y.resume <= y.cursor
    BY <1>3 DEF FollowInv
  <1>5. y.cursor \in Nat
    BY <1>4, UpToPositions
  <1>6. UpTo(0, known)
    <2>1. \A n \in Questions : ~(n <= 0)
      BY NewestKnown DEF Questions
    <2> QED
      BY <2>1 DEF UpTo
  <1>7. UpTo(y.cursor, known)' /\ UpTo(0, known)'
    BY <1>4, <1>6, UpToKept
  <1>8. known = Shown' \cup x.batch.msgs /\ known = Shown'
    BY <1>2, <1>3
  <1> QED
    BY <1>1, <1>2, <1>4, <1>5, <1>7, <1>8 DEF FollowInv, Answering, UpTo

LEMMA FollowAt ==
  ASSUME NEW x, x = streams'[page'.source], page'.source \in Streams, FollowInv(x)'
  PROVE  SourceInv'
  BY DEF SourceInv, FollowInv

LEMMA SourceKept ==
  ASSUME LogInv, PageInv, SourceInv, Shapes, LogMovesOn, Shown \subseteq Shown',
         PageAsIs \/ (\E S : Shows(S)) \/ Cuts \/ \E s \in Streams : Connect(s) \/ Poll(s) \/ Deliver(s)
  PROVE  SourceInv'
  <1>1. CASE page'.source = 0
    BY <1>1 DEF SourceInv
  <1>2. CASE page'.source = page.source /\ page.source \in Streams /\ streams'[page.source] = streams[page.source]
    <2>1. page.source # 0
      BY <1>2, EventsAssumption
    <2>2. PICK x : x = streams[page.source]
      OBVIOUS
    <2>3. FollowInv(x)'
      BY <2>1, <2>2, FollowKept DEF SourceInv
    <2> QED
      BY <1>2, <2>2, <2>3, FollowAt
  <1>3. page.source = 0 \/ page.source \in Streams
    BY DEF SourceInv
  <1>4. CASE PageAsIs \/ (\E S : Shows(S)) \/ Cuts
    BY <1>1, <1>2, <1>3, <1>4 DEF PageAsIs, Shows, Cuts
  <1>5. ASSUME NEW s \in Streams, Connect(s) PROVE SourceInv'
    <2>1. PICK x : x = Opened(page.lastId)
      OBVIOUS
    <2>2. streams' = [streams EXCEPT ![s] = x] /\ IsStream(x)
      BY <1>5, <2>1, StreamShapes, Zenon DEF Connect
    <2>3. streams'[s] = x /\ page'.source = s
      BY <1>5, <2>2, OneStream, ConnectEffect DEF Switches
    <2>4. FollowInv(x)
      BY <2>1, FollowOpened
    <2>5. FollowInv(x)'
      BY <2>4, FollowKept
    <2> QED
      BY <2>3, <2>5, FollowAt
  <1>6. ASSUME NEW s \in Streams, Poll(s) PROVE SourceInv'
    <2>1. PICK x : x = Polled(streams[s], Due(s))
      OBVIOUS
    <2>2. streams' = [streams EXCEPT ![s] = x] /\ IsStream(x) /\ page' = page /\ streams[s].batch = NoEvents
      BY <1>6, <2>1, StreamShapes DEF Poll, Shapes
    <2>3. streams'[s] = x /\ \A t \in Streams : t # s => streams'[t] = streams[t]
      BY <2>2, OneStream
    <2>4. CASE page.source = s
      <3>1. FollowInv(streams[s])
        <4>1. page.source # 0
          BY <2>4, EventsAssumption
        <4> QED
          BY <2>4, <4>1 DEF SourceInv
      <3>2. FollowInv(x)
        BY <2>1, <2>2, <3>1, FollowPolled
      <3>3. FollowInv(x)'
        BY <3>2, FollowKept
      <3> QED
        BY <2>2, <2>3, <2>4, <3>3, FollowAt
    <2>5. CASE page.source # s
      BY <1>1, <1>2, <1>3, <2>2, <2>3, <2>5
    <2> QED
      BY <2>4, <2>5
  <1>7. ASSUME NEW s \in Streams, Deliver(s) PROVE SourceInv'
    <2>1. page.source = s /\ page'.source = s /\ s # 0
      BY <1>7, DeliverEffect, EventsAssumption, Zenon DEF Deliver
    <2>2. PICK y : y = streams[s]
      OBVIOUS
    <2>3. PICK x : x = [y EXCEPT !.batch = NoEvents]
      OBVIOUS
    <2>4. IsStream(y) /\ IsStream(x) /\ FollowInv(y)
      BY <2>1, <2>2, <2>3, StreamShapes DEF Shapes, SourceInv
    <2>5. streams' = [streams EXCEPT ![s] = x]
      BY <1>7, <2>2, <2>3, Zenon DEF Deliver
    <2>6. streams'[s] = x
      BY <2>4, <2>5, OneStream
    <2>7. Shown' = Shown \cup y.batch.msgs
      BY <1>7, <2>2, DeliverShows
    <2>8. FollowInv(x)'
      BY <2>3, <2>4, <2>7, FollowDelivered
    <2> QED
      BY <2>1, <2>6, <2>8, FollowAt
  <1> QED
    BY <1>4, <1>5, <1>6, <1>7

\* Whatever is on its way when the build is lost was stored before; nothing sets out after.
LEMMA AccessKept ==
  ASSUME LogInv, ReadInv, PageInv, SourceInv, AccessInv, Shapes, LogMovesOn,
         PageAsIs \/ (\E S : Shows(S)) \/ Cuts \/ \E s \in Streams : Connect(s) \/ Poll(s) \/ Deliver(s)
  PROVE  AccessInv'
  <1>0. Shown \subseteq Committed
    <2>1. page.msgs \in Seq(Committed) /\ page.msgs \in Seq(Nat)
      BY NewestKnown, MoreOf DEF PageInv
    <2>2. \A m \in ToSet(page.msgs) : \E i \in 1 .. Len(page.msgs) : page.msgs[i] = m
      BY <2>1, ShownIn
    <2>3. \A i \in 1 .. Len(page.msgs) : page.msgs[i] \in Committed
      BY <2>1, ElementOfSeq
    <2> QED
      BY <2>2, <2>3 DEF Shown
  <1>1. CASE held'
    BY <1>1 DEF AccessInv
  <1>2. CASE held /\ ~held'
    <2>1. cut' = Committed /\ PageAsIs /\ Questions' = Questions
      BY <1>2 DEF LogMovesOn
    <2>2. Questions' \cup Shown' \subseteq cut'
      BY <1>0, <2>1 DEF Questions, Shown, PageAsIs
    <2>3. page'.source # 0 => streams'[page'.source].batch.msgs \subseteq cut'
      BY <2>1 DEF PageAsIs, SourceInv, FollowInv
    <2>4. read'.got # <<>> /\ read'.got[1] = "messages" => read'.got[2] \subseteq cut'
      BY <2>1 DEF PageAsIs, ReadInv
    <2> QED
      BY <2>2, <2>3, <2>4 DEF AccessInv
  <1>3. CASE ~held /\ ~held'
    <2>1. cut' = cut /\ Questions' = Questions
      BY <1>3 DEF LogMovesOn
    <2>2. /\ Questions \cup Shown \subseteq cut
          /\ page.source # 0 => streams[page.source].batch.msgs \subseteq cut
          /\ read.got # <<>> /\ read.got[1] = "messages" => read.got[2] \subseteq cut
      BY <1>3 DEF AccessInv
    <2>3. ASSUME Shown' \subseteq cut, read'.got = read.got \/ read'.got = <<>> \/ read'.got = <<"detail", detail>>,
                 page'.source # 0 => streams'[page'.source].batch.msgs \subseteq cut
          PROVE  AccessInv'
      BY <2>1, <2>2, <2>3 DEF AccessInv
    <2>4. CASE PageAsIs
      BY <1>3, <2>2, <2>3, <2>4 DEF PageAsIs, Shown
    <2>5. ASSUME NEW S, Shows(S) PROVE AccessInv'
      <3>1. Shown' = Shown \cup S /\ S \subseteq cut
        BY <1>3, <2>5, ShowsShown DEF Shows
      <3> QED
        BY <2>2, <2>3, <2>5, <3>1 DEF Shows
    <2>6. CASE Cuts
      <3>1. page'.source # 0 => streams'[page'.source].batch.msgs \subseteq cut
        BY <2>2, <2>6 DEF Cuts, SourceInv
      <3> QED
        BY <2>2, <2>3, <2>6, <3>1 DEF Cuts, Shown
    <2>7. ASSUME NEW s \in Streams PROVE ~Connect(s) /\ ~Poll(s)
      BY <1>3, Zenon DEF Connect, Poll, StreamAuthorized
    <2>8. ASSUME NEW s \in Streams, Deliver(s) PROVE AccessInv'
      <3>1. page.source = s /\ page'.source = s /\ s # 0
        BY <2>8, DeliverEffect, EventsAssumption, Zenon DEF Deliver
      <3>2. Shown' = Shown \cup streams[s].batch.msgs
        BY <2>8, DeliverShows
      <3>3. PICK x : x = [streams[s] EXCEPT !.batch = NoEvents]
        BY Zenon
      <3>4. streams' = [streams EXCEPT ![s] = x] /\ IsStream(x) /\ x.batch = NoEvents
        BY <2>8, <3>3, StreamShapes, ZenonT(60) DEF Deliver, Shapes, IsStream, StreamFields
      <3>5. streams'[s].batch.msgs = {}
        <4>1. streams'[s] = x
          BY <3>4, OneStream
        <4>2. x.batch.msgs = {}
          BY <3>4 DEF NoEvents
        <4> QED
          BY <4>1, <4>2
      <3>6. read'.got = read.got \/ read'.got = <<>>
        BY <2>8, DeliverEffect
      <3> QED
        BY <2>2, <2>3, <3>1, <3>2, <3>5, <3>6
    <2> QED
      BY <2>4, <2>5, <2>6, <2>7, <2>8
  <1> QED
    BY <1>1, <1>2, <1>3

(***************************************************************************)
(* The registry.                                                           *)
(***************************************************************************)
OpenStreams == {s \in Streams : streams[s].st = "open"}

LEMMA CountOpen ==
  /\ IsFiniteSet(OpenStreams) /\ Cardinality(OpenStreams) \in Nat
  /\ LeasesExact <=> leases = Cardinality(OpenStreams) /\ leases <= PerOwner
  <1>1. OpenStreams \subseteq Streams /\ IsFiniteSet(Streams)
    BY EventsAssumption DEF OpenStreams
  <1>2. IsFiniteSet(OpenStreams)
    BY <1>1, FS_Subset
  <1>3. Cardinality(OpenStreams) \in Nat
    BY <1>2, FS_CardinalityType
  <1> QED
    BY <1>2, <1>3 DEF LeasesExact, OpenStreams

LEMMA OpenKept ==
  ASSUME LeasesExact, OpenStreams' = OpenStreams, leases' = leases
  PROVE  LeasesExact'
  BY DEF LeasesExact, OpenStreams

LEMMA StreamCloses ==
  ASSUME Shapes, LeasesExact, NEW s \in Streams, NEW st, st # "open", CloseStream(s, st)
  PROVE  LeasesExact'
  <1>1. streams' = [streams EXCEPT ![s] = [NoStream EXCEPT !.st = st]]
        /\ leases' = IF streams[s].st = "open" THEN leases - 1 ELSE leases
    BY DEF CloseStream, Release
  <1>2. streams'[s] = [NoStream EXCEPT !.st = st] /\ \A t \in Streams : t # s => streams'[t] = streams[t]
    BY <1>1, StreamShapes, OneStream
  <1>3. streams'[s].st = st
    BY <1>2 DEF NoStream
  <1>4. OpenStreams' = OpenStreams \ {s}
    BY <1>2, <1>3 DEF OpenStreams
  <1>5. leases = Cardinality(OpenStreams) /\ leases \in Nat /\ leases <= PerOwner /\ PerOwner \in Nat
    BY CountOpen, EventsAssumption
  <1>6. CASE streams[s].st = "open"
    <2>1. Cardinality(OpenStreams \ {s}) = Cardinality(OpenStreams) - 1
      BY <1>6, CountOpen, FS_RemoveElement DEF OpenStreams
    <2>2. leases' = Cardinality(OpenStreams')
      BY <1>1, <1>4, <1>5, <1>6, <2>1
    <2>3. leases' <= PerOwner
      BY <1>1, <1>5, <1>6
    <2> QED
      BY <2>2, <2>3 DEF LeasesExact, OpenStreams
  <1>7. CASE streams[s].st # "open"
    <2>1. OpenStreams' = OpenStreams
      BY <1>4, <1>7 DEF OpenStreams
    <2> QED
      BY <1>1, <1>7, <2>1, OpenKept
  <1> QED
    BY <1>6, <1>7

LEMMA LeasesKept ==
  ASSUME Shapes, LeasesExact, [Next]_vars
  PROVE  LeasesExact'
  <1>1. CASE streams' = streams /\ leases' = leases
    BY <1>1, OpenKept DEF OpenStreams
  <1>2. ASSUME NEW s \in Streams, Connect(s) PROVE LeasesExact'
    <2>1. PICK x : x = Opened(page.lastId)
      OBVIOUS
    <2>2. /\ streams' = [streams EXCEPT ![s] = x] /\ IsStream(x) /\ x.st = "open"
          /\ streams[s].st = "free" /\ leases < PerOwner /\ leases' = leases + 1
      BY <1>2, <2>1, StreamShapes, Zenon DEF Connect, Opened, NoStream
    <2>3. streams'[s] = x /\ \A t \in Streams : t # s => streams'[t] = streams[t]
      BY <2>2, OneStream
    <2>4. OpenStreams' = OpenStreams \cup {s} /\ s \notin OpenStreams
      BY <2>2, <2>3 DEF OpenStreams
    <2>5. Cardinality(OpenStreams \cup {s}) = Cardinality(OpenStreams) + 1
      BY <2>4, CountOpen, FS_AddElement
    <2>6. leases = Cardinality(OpenStreams) /\ leases \in Nat /\ PerOwner \in Nat
      BY CountOpen, EventsAssumption
    <2>7. leases' = Cardinality(OpenStreams') /\ leases' <= PerOwner
      BY <2>2, <2>4, <2>5, <2>6
    <2> QED
      BY <2>7 DEF LeasesExact, OpenStreams
  <1>3. ASSUME NEW s \in Streams, NEW x, IsStream(x), x.st = streams[s].st, streams' = [streams EXCEPT ![s] = x],
               leases' = leases
        PROVE  LeasesExact'
    <2>1. streams'[s] = x /\ \A t \in Streams : t # s => streams'[t] = streams[t]
      BY <1>3, OneStream
    <2>2. OpenStreams' = OpenStreams
      BY <1>3, <2>1 DEF OpenStreams
    <2> QED
      BY <1>3, <2>2, OpenKept
  <1>4. ASSUME NEW s \in Streams, Poll(s) PROVE LeasesExact'
    <2>1. PICK x : x = Polled(streams[s], Due(s))
      OBVIOUS
    <2>2. IsStream(x) /\ x.st = streams[s].st
      <3>1. IsStream(streams[s])
        BY DEF Shapes
      <3> QED
        BY <2>1, <3>1, PolledStream
    <2> QED
      BY <1>3, <1>4, <2>1, <2>2 DEF Poll
  <1>5. ASSUME NEW s \in Streams, Deliver(s) PROVE LeasesExact'
    <2>1. PICK x : x = [streams[s] EXCEPT !.batch = NoEvents]
      OBVIOUS
    <2>2. IsStream(x) /\ x.st = streams[s].st
      BY <2>1 DEF Shapes, IsStream, StreamFields
    <2>3. streams' = [streams EXCEPT ![s] = x] /\ leases' = leases
      BY <1>5, <2>1 DEF Deliver
    <2> QED
      BY <1>3, <2>2, <2>3
  <1>6. ASSUME NEW s \in Streams, StreamEnds(s) \/ StreamCut(s) \/ SocketCloses(s) PROVE LeasesExact'
    <2>1. CloseStream(s, "ended") \/ CloseStream(s, "free")
      BY <1>6 DEF StreamEnds, StreamCut, SocketCloses
    <2> QED
      BY <2>1, StreamCloses
  <1>7. ASSUME NEW s \in Streams, SocketBreaks(s) PROVE LeasesExact'
    BY <1>1, <1>7 DEF SocketBreaks
  <1>8. CASE \/ \E text \in 1 .. MaxUser : Send(text)
             \/ GatewayPost \/ PostAnswered \/ BuildStarted \/ PostRefused \/ PostLost
             \/ Reply \/ TurnLost \/ Age \/ Revoke
             \/ ConnectRefused \/ Visibility \/ ReadDetail \/ ReadMessages \/ ReadFails \/ Watchdog \/ CheckAgain
             \/ UNCHANGED vars
    BY <1>1, <1>8 DEF Send, GatewayPost, PostAnswered, BuildStarted, PostRefused, PostLost, Reply, TurnReply,
         TurnLost, Age, Revoke, ConnectRefused, Visibility, ReadDetail, ReadMessages, ReadFails, Watchdog,
         CheckAgain, vars
  <1> QED
    BY <1>2, <1>4, <1>5, <1>6, <1>7, <1>8 DEF Next

LEMMA NextKeepsEvents ==
  ASSUME EventsInv, Shapes, [Next]_vars
  PROVE  EventsInv' /\ Shapes'
  <1>1. /\ LogInv /\ PostInv /\ ReadInv /\ PageInv /\ SourceInv /\ AccessInv /\ LeasesExact
    BY DEF EventsInv
  <1>2. LogInv' /\ PostInv' /\ LogMovesOn
    BY <1>1, LogKept, PostKept, LogGrows
  <1>3. PageAsIs \/ (\E S : Shows(S)) \/ Cuts \/ \E s \in Streams : Connect(s) \/ Poll(s) \/ Deliver(s)
    BY <1>1, StepCases
  <1>4. PageInv' /\ Shown \subseteq Shown'
    BY <1>1, <1>2, <1>3, PageKept
  <1>5. ReadInv'
    BY <1>1, <1>2, <1>3, ReadKept
  <1>6. SourceInv'
    BY <1>1, <1>2, <1>3, <1>4, SourceKept
  <1>7. AccessInv'
    BY <1>1, <1>2, <1>3, AccessKept
  <1>8. LeasesExact'
    BY <1>1, LeasesKept
  <1> QED
    BY <1>2, <1>4, <1>5, <1>6, <1>7, <1>8, ShapesKept DEF EventsInv

LEMMA InitKeepsEvents ==
  ASSUME Init
  PROVE  EventsInv /\ Shapes
  <1>1. /\ log = <<>> /\ turn = 0 /\ held = TRUE /\ streams = [s \in Streams |-> NoStream] /\ leases = 0
        /\ page = NewConversation /\ post = NoPost /\ read = NoRead /\ nextId = 1
    BY DEF Init
  <1>2. Committed = {} /\ Questions = {} /\ Shown = {}
    <2>1. Committed = {} /\ page.msgs = <<>>
      BY <1>1 DEF Committed, NewConversation
    <2>2. ToSet(<<>>) = {}
      BY DEF ToSet
    <2> QED
      BY <2>1, <2>2 DEF Questions, Shown
  <1>3. Shapes
    <2>1. IsPage(page)
      BY <1>1 DEF IsPage, PageFields, NewConversation
    <2>2. streams = [s \in Streams |-> streams[s]] /\ \A s \in Streams : IsStream(streams[s])
      BY <1>1 DEF IsStream, StreamFields, NoStream
    <2>3. post = [text |-> post.text, id |-> post.id, answer |-> post.answer]
      BY <1>1 DEF NoPost
    <2>4. read = [on |-> read.on, min |-> read.min, retry |-> read.retry, got |-> read.got]
      BY <1>1 DEF NoRead
    <2> QED
      BY <2>1, <2>2, <2>3, <2>4 DEF Shapes
  <1>4. LogInv
    BY <1>1, <1>2 DEF LogInv, Answering
  <1>5. PostInv
    BY <1>1 DEF PostInv, NoPost, NewConversation
  <1>6. ReadInv /\ SourceInv /\ AccessInv
    BY <1>1 DEF ReadInv, NoRead, SourceInv, NewConversation, AccessInv
  <1>7. PageInv
    <2>1. page.msgs = <<>> /\ page.lastId = 0
      BY <1>1 DEF NewConversation
    <2>2. page.msgs \in Seq(Committed) /\ Len(page.msgs) = 0
      BY <2>1
    <2> QED
      BY <1>2, <2>1, <2>2 DEF PageInv, TranscriptInOrder, Answering, UpTo
  <1>8. LeasesExact
    <2>1. {s \in Streams : streams[s].st = "open"} = {}
      BY <1>1 DEF NoStream
    <2>2. Cardinality({}) = 0 /\ PerOwner \in Nat
      BY FS_EmptySet, EventsAssumption
    <2> QED
      BY <1>1, <2>1, <2>2 DEF LeasesExact
  <1> QED
    BY <1>3, <1>4, <1>5, <1>6, <1>7, <1>8 DEF EventsInv

\* What every state of a conversation satisfies, and every step keeps.
THEOREM ConversationInvariant == EventsSpec => [](EventsInv /\ Shapes)
  <1>1. Init => EventsInv /\ Shapes
    BY InitKeepsEvents
  <1>2. EventsInv /\ Shapes /\ [Next]_vars => (EventsInv /\ Shapes)'
    BY NextKeepsEvents
  <1> QED
    BY <1>1, <1>2, PTL DEF EventsSpec

\* "nothing the person wrote is ever sent twice": whatever requests and answers are lost and
\* however often a text is sent again, it is one stored message (clientMessageIdFor,
\* submitUserMessage, createBuild).
THEOREM TextsSentOnce == EventsSpec => []SentOnce
  <1>1. EventsInv => SentOnce
    <2> SUFFICES ASSUME LogInv, NEW m \in Committed, NEW n \in Committed, log[m].text > 0, log[m].text = log[n].text
                 PROVE  m = n
      BY DEF SentOnce, EventsInv
    <2>1. IsUser(m) /\ IsUser(n)
      BY DEF LogInv
    <2>2. Ms(m) = Ms(n)
      BY <2>1 DEF LogInv, Questions
    <2>3. m \in Nat /\ n \in Nat
      BY NewestKnown
    <2> QED
      BY <2>1, <2>2, <2>3, Positions
  <1> QED
    BY <1>1, ConversationInvariant, PTL

\* Whatever the length of the conversation and however events, answers and refetches interleave,
\* the page shows each stored message once and in the database's order, of which it sees
\* milliseconds only (mergeMessages): two messages of a millisecond are a question and its
\* reply, and a reply never reaches the page before its question.
THEOREM ShownInOrder == EventsSpec => []TranscriptInOrder
  <1>1. EventsInv => TranscriptInOrder
    BY DEF EventsInv, PageInv
  <1> QED
    BY <1>1, ConversationInvariant, PTL

\* For every number of connections and every limit: what a stream still has on its way when the
\* browser loses the build was stored before, nothing sets out after (readEventBatch), and the
\* registry counts exactly the open streams, never more than the owner's limit (StreamRegistry).
THEOREM StreamsStaySound == EventsSpec => []StreamsSound
  <1>1. EventsInv => StreamsSound
    BY DEF EventsInv, AccessInv, Shown, StreamsSound, NoLateDisclosure
  <1> QED
    BY <1>1, ConversationInvariant, PTL
=============================================================================
