------------------------------ MODULE Registry ------------------------------
(***************************************************************************)
(* The parts registry: what a part definition must satisfy on its own      *)
(* (packages/schema/src/part.ts), what the folder must satisfy as a whole  *)
(* (registry/scripts/lib/rules.ts, power.ts) and the order of versions     *)
(* (registry/scripts/lib/semver.ts).                                       *)
(*                                                                         *)
(* A capability is a pair <<namespace, name>>; voltages, currents and      *)
(* prices are integers; a part's version is its number in text order.      *)
(***************************************************************************)
EXTENDS Integers, Sequences, FiniteSets

CONSTANT TextOrder  \* every identifier the code compares as text, in order

Rank == [n \in {TextOrder[i] : i \in DOMAIN TextOrder} |->
           CHOOSE i \in DOMAIN TextOrder : TextOrder[i] = n]

Least(S) == CHOOSE x \in S : \A y \in S : x <= y
Greater(a, b) == IF a > b THEN a ELSE b
Lesser(a, b) == IF a < b THEN a ELSE b

\* The elements of S by increasing Key, which tells them apart.
SortedBy(S, Key(_)) ==
  [i \in 1..Cardinality(S) |->
     CHOOSE x \in S : Cardinality({y \in S : Key(y) < Key(x)}) = i - 1]

PinKey(p) == 10 * Rank[p.id] + p.version
Pin(p) == [id |-> p.id, version |-> p.version]
Pinned(p, pin) == p.id = pin.id /\ p.version = pin.version

-----------------------------------------------------------------------------
(* Versions.  A version is [core |-> <<major, minor, patch>>, pre |-> ids],*)
(* where an identifier is <<0, number>> or <<1, rank of its text>>.        *)

Sign(n) == IF n < 0 THEN -1 ELSE IF n > 0 THEN 1 ELSE 0

CompareIdentifier(a, b) == IF a[1] = b[1] THEN Sign(a[2] - b[2]) ELSE a[1] - b[1]

CompareIdentifiers(a, b) ==
  LET differ == {i \in 1..Lesser(Len(a), Len(b)) : CompareIdentifier(a[i], b[i]) # 0}
  IN  IF differ = {} THEN Sign(Len(a) - Len(b))
      ELSE CompareIdentifier(a[Least(differ)], b[Least(differ)])

Core(v) == [i \in 1..3 |-> <<0, v.core[i]>>]

CompareSemver(a, b) ==
  LET core == CompareIdentifiers(Core(a), Core(b))
  IN  IF core # 0 THEN core
      ELSE IF (a.pre = <<>>) # (b.pre = <<>>) THEN (IF a.pre = <<>> THEN 1 ELSE -1)
      ELSE CompareIdentifiers(a.pre, b.pre)

-----------------------------------------------------------------------------
(* One part: PartDefinition.                                               *)

None == "none"
Passive(p) == p.iface \in {"power", "host"}
ValueCaps(p) == {c \in p.caps : c[1] \in {"read", "act"}}

ElectricalShape(p) ==
  /\ (p.iface = "i2c") = (p.address # None)
  /\ p.iface = "host" => p.logic # <<>> /\ p.logic[1] = p.logic[2]
  /\ p.iface = "power" => p.logic = <<>>
  /\ p.category = "energy" => p.supply # <<>>
  /\ p.volts[1] <= p.volts[2] /\ p.idle <= p.active

LineageShape(p) ==
  /\ p.status = "deprecated" => p.successor # None
  /\ p.status \in {"draft", "active"} => p.successor = None
  /\ p.successor # p.id

\* Only a draft may miss what cannot be sourced yet.
PastDraft(p) ==
  p.status # "draft" =>
    /\ p.measured /\ p.cost > 0
    /\ ~Passive(p) \/ ValueCaps(p) # {} => p.driver # None
    /\ ValueCaps(p) # {} => p.schema # None
    /\ ~Passive(p) => p.logic # <<>>

PartDefinition(p) ==
  /\ p.caps # {} /\ ElectricalShape(p) /\ LineageShape(p) /\ PastDraft(p)
  /\ (p.driver = None) = (p.driverVer = None)

-----------------------------------------------------------------------------
(* The whole folder, a record d of parts, connectors, shared (addresses    *)
(* deliberately used twice), known (accepted logic mismatches), compat     *)
(* rows and golden builds: the rules of validateRegistry.                  *)

LIVE == {"draft", "active"}
Parsed(d) == {p \in d.parts : PartDefinition(p)}
Live(d) == {p \in Parsed(d) : p.status \in LIVE}
Ids(S) == {p.id : p \in S}
Provided(S) == UNION {p.caps : p \in S}

SchemaHolds(d) == Parsed(d) = d.parts
VersionsDistinct(d) == \A p, q \in Parsed(d) : Pin(p) = Pin(q) => p = q
FootprintsExist(d) == \A p \in Parsed(d) : p.status \in {"active", "deprecated"} => p.footprint
ConnectorsCarry(d) ==
  \A p \in Parsed(d) : /\ p.connector \in DOMAIN d.connectors
                       /\ p.iface \in d.connectors[p.connector].interfaces
NamesKnown(d) ==
  \A p \in Parsed(d) : /\ p.successor # None => p.successor \in Ids(Parsed(d))
                       /\ p.conflicts \subseteq Ids(Parsed(d))
RequiresProvided(d) == \A p \in Live(d) : p.needs \subseteq Provided(Live(d))

AtAddress(d, a) == Ids({p \in Live(d) : p.address = a})
AddressesNoted(d) ==
  /\ \A a \in {p.address : p \in Live(d)} \ {None} :
       Cardinality(AtAddress(d, a)) >= 2 =>
         \E e \in d.shared : e.address = a /\ AtAddress(d, a) \subseteq e.parts
  /\ \A e \in d.shared : e.parts \subseteq AtAddress(d, e.address)

Mismatched_Upper(d) ==
  {<<p.id, h.id>> : <<p, h>> \in
     {ph \in Live(d) \X {h \in Live(d) : h.iface = "host"} :
        /\ ph[1].iface # "host" /\ ph[1].logic # <<>>
        /\ ph[2].logic[1] > ph[1].logic[2]}}
Mismatched(d) ==
  {<<p.id, h.id>> : <<p, h>> \in
     {ph \in Live(d) \X {h \in Live(d) : h.iface = "host"} :
        /\ ph[1].iface # "host" /\ ph[1].logic # <<>>
        /\ ~(ph[1].logic[1] <= ph[2].logic[1] /\ ph[2].logic[1] <= ph[1].logic[2])}}
LogicLevelsKnown(d) == Mismatched(d) = d.known

-----------------------------------------------------------------------------
(* checkPowerPath: one voltage-compatible way to power a golden build.     *)

UsableWindow(source, input) ==
  LET low == Greater(source[1], input[1])
  IN  IF source[2] > input[2] \/ low > source[2] THEN <<>> ELSE <<low, source[2]>>

InputRange(brain, name) ==
  IF name = "primary" THEN brain.volts
  ELSE IF name \in DOMAIN brain.alt THEN brain.alt[name] ELSE <<>>

Powers(S, supply, brain, cap) ==
  LET candidates == {p \in S : cap \in p.caps}
      five == <<"power", "5v">>
  IN  candidates = {} \/ \E p \in candidates :
        IF five \in p.needs
        THEN five \in supply.caps /\ UsableWindow(supply.supply.out, p.volts) # <<>>
        ELSE brain.supply # <<>> /\ UsableWindow(brain.supply.out, p.volts) # <<>>

CheckPowerPath(b, S) ==
  \E supply \in {p \in S : b.supply \in p.caps /\ p.supply # <<>>} :
  \E brain \in {p \in S : p.iface = "host"} :
    LET input == InputRange(brain, b.input) IN
    /\ input # <<>> /\ UsableWindow(supply.supply.out, input) # <<>>
    /\ \A cap \in {c \in b.requires : c[1] \in {"read", "act"}} : Powers(S, supply, brain, cap)

GoldenBuildsHold(d) ==
  \A b \in d.golden : b.requires \subseteq Provided(Live(d)) /\ CheckPowerPath(b, Live(d))

ValidateRegistry(d) ==
  /\ SchemaHolds(d) /\ VersionsDistinct(d) /\ FootprintsExist(d) /\ ConnectorsCarry(d)
  /\ NamesKnown(d) /\ RequiresProvided(d) /\ AddressesNoted(d) /\ LogicLevelsKnown(d)
  /\ GoldenBuildsHold(d)

=============================================================================
