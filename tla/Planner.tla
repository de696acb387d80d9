------------------------------- MODULE Planner ------------------------------
(***************************************************************************)
(* From the registry folder to a provisioned device: the registry-load job *)
(* (registry/scripts/load.ts), solving and accepting a build plan          *)
(* (gateway build-plan-store.ts over the matcher), choosing the compiler   *)
(* candidate for the accepted plan (codegen candidate.ts) and admitting    *)
(* the compiled firmware for a device (gateway provisioning-authority.ts). *)
(*                                                                         *)
(* The folder goes through a history of commits, and the job may run, or   *)
(* stop between its two transactions, at any time between the owner's      *)
(* calls.  The owner's spec is fixed; Firmware models its revisions.       *)
(***************************************************************************)
EXTENDS Matcher

CONSTANTS Histories,   \* commit histories of registry/, oldest first
          Requests,    \* settled and unsettled specs
          Profiles,    \* the reviewed assembly profiles
          Connectors,  \* and the connector definitions shipped with them
          Runtime,     \* of the reviewed catalogue
          Approved,    \* the reviewed provisioning profiles
          Intervals,   \* sample intervals an edit may ask for
          MaxParts,    \* active rows a search is given at most
          MaxSteps, MaxPlans

VARIABLES history, request,
          parts,    \* rows of registry.parts
          compat,   \* rows of registry.compat_matrix
          answer,   \* the matcher's result for the last solve request
          plans,    \* stored plans with their evidence
          accepted, bundle, device

vars == <<history, request, parts, compat, answer, plans, accepted, bundle, device>>

NoAnswer == Unanswered("unasked")
NoPlan == [evidence |-> <<>>]
NoBundle == [candidate |-> None]
NoDevice == [channels |-> {}, next_s |-> 0]

Disk == Head(history)

Init ==
  /\ history \in Histories /\ request \in Requests
  /\ parts = {} /\ compat = {}
  /\ answer = NoAnswer /\ plans = {} /\ accepted = NoPlan /\ bundle = NoBundle /\ device = NoDevice

-----------------------------------------------------------------------------
(* registry/scripts/load.ts                                                *)

Commit ==
  /\ Len(history) > 1
  /\ history' = Tail(history)
  /\ UNCHANGED <<request, parts, compat, answer, plans, accepted, bundle, device>>

\* Rows the folder defines differently from the table: the load fails whole.
Changed(d) == {p \in d.parts : \E row \in parts : Pin(row) = Pin(p) /\ row # p}

CompatKey(row) == [driver |-> row.driver, driverVer |-> row.driverVer,
                   runtime |-> row.runtime, brain |-> row.brain]
LoadCompat(d) ==
  compat \union {row \in d.compat : \A old \in compat : CompatKey(old) # CompatKey(row)}

LoadParts(d) ==
  /\ ValidateRegistry(d) /\ Changed(d) = {}
  /\ parts' = parts \union d.parts

\* Parts and compat rows are two transactions; the job may stop between them.
Load ==
  /\ LoadParts(Disk)
  /\ compat' \in {compat, LoadCompat(Disk)}
  /\ UNCHANGED <<history, request, answer, plans, accepted, bundle, device>>

-----------------------------------------------------------------------------
(* gateway/src/build-plan-store.ts                                         *)

\* fromIntakeSpec refuses what the matcher cannot check.
Convertible(r) == r.settled /\ r.flags = {} /\ r.open = {}

SpecOf(r) ==
  [capabilities |-> r.capabilities, transport |-> r.transport, power |-> r.power,
   interval |-> r.interval, target |-> r.target, runtime |-> Runtime]

TrustedInput ==
  [spec |-> SpecOf(request), parts |-> {p \in parts : p.status = "active"},
   connectors |-> Connectors, profiles |-> Profiles, compat |-> compat,
   maxSteps |-> MaxSteps, maxPlans |-> MaxPlans]

EvidenceFor(plan, input) ==
  LET used == {p \in input.parts : Pin(p) \in plan.pins}
  IN  [parts |-> used, connectors |-> input.connectors,
       profile |-> CHOOSE p \in input.profiles : p.id = plan.profile.id /\ p.version = plan.profile.version,
       compat |-> {row \in input.compat :
                     /\ row.runtime = plan.runtime /\ row.brain = plan.brain.id
                     /\ \E p \in used : p.driver = row.driver /\ p.driverVer = row.driverVer}]

Store(result, input) ==
  /\ answer' = result
  /\ plans' = plans \union {[plan |-> plan, evidence |-> EvidenceFor(plan, input)] :
                              plan \in Elements(result.plans)}

\* One active row too many and no search is made at all.
Available == Profiles # {} /\ Cardinality(TrustedInput.parts) <= MaxParts

Solves ==
  /\ Convertible(request)
  /\ IF Available THEN Store(Solve(TrustedInput), TrustedInput)
     ELSE answer' = Unanswered("unavailable") /\ UNCHANGED plans
  /\ UNCHANGED <<history, request, parts, compat, accepted, bundle, device>>

\* Acceptance solves again over the plan's own parts and profile.
Narrowed_Best(plan, input) ==
  [input EXCEPT !.parts = {p \in @ : Pin(p) \in plan.pins},
                !.profiles = {p \in @ : p.id = plan.profile.id /\ p.version = plan.profile.version},
                !.maxPlans = 1]
Narrowed(plan, input) ==
  [input EXCEPT !.parts = {p \in @ : Pin(p) \in plan.pins},
                !.profiles = {p \in @ : p.id = plan.profile.id /\ p.version = plan.profile.version}]

Verified(stored, input) ==
  /\ stored.plan \in Elements(Solve(Narrowed(stored.plan, input)).plans)
  /\ EvidenceFor(stored.plan, input) = stored.evidence

Accept(stored) ==
  /\ accepted = NoPlan
  /\ Available /\ Verified(stored, TrustedInput)
  /\ accepted' = stored
  /\ UNCHANGED <<history, request, parts, compat, answer, plans, bundle, device>>

-----------------------------------------------------------------------------
(* codegen/src/candidate.ts: the compiler's allow-list.                    *)

SENSORS == [
  bh1750 |-> [driver |-> "hsx-driver-bh1750", channels |-> {"illuminance"}],
  bme280 |-> [driver |-> "hsx-driver-bme280", channels |-> {"temperature", "humidity", "pressure"}],
  seesaw_soil |-> [driver |-> "hsx-driver-seesaw-soil", channels |-> {"soil_moisture"}]]

Option(id, version, sensor, connectors) ==
  [part |-> [id |-> id, version |-> version], sensor |-> sensor, connectors |-> connectors]

DEVKITC_CANDIDATE ==
  [id |-> "esp32s3-bh1750-usb-v1", version |-> 1,
   brain |-> [id |-> "C-001", version |-> 1], source |-> [id |-> "E-005", version |-> 1],
   resources |-> <<"GPIO8", "GPIO9">>,
   peripherals |-> {Option("V-005", 1, "bh1750", {"hsx-i2c-4pin-v1"})}]

FREENOVE_CANDIDATE ==
  [id |-> "freenove-esp32s3-n16r8-i2c-usb-v1", version |-> 1,
   brain |-> [id |-> "C-002", version |-> 1], source |-> [id |-> "E-005", version |-> 2],
   resources |-> <<"GPIO47", "GPIO21">>,
   peripherals |-> {Option("V-005", 2, "bh1750", {"hsx-i2c-4pin-v1"}),
                    Option("P-001", 2, "bme280", {"hsx-i2c-4pin-v1"}),
                    Option("P-006", 1, "seesaw_soil", {"stemma-i2c-ph-4pin-v1", "hsx-i2c-4pin-v1"})}]

NUMERIC_CANDIDATES == {DEVKITC_CANDIDATE, FREENOVE_CANDIDATE}
RUNTIME == [core |-> <<0, 1, 0>>, pre |-> <<>>]
DriverVer == "0.1.0"

CandidateFor(plan) == CHOOSE c \in NUMERIC_CANDIDATES : c.id = plan.profile.id
OptionFor(c, edge) == {o \in c.peripherals : o.part = edge.part /\ edge.connector \in o.connectors}

\* Each edge sits on the candidate's bus, on a port the evidence describes so.
EdgeReviewed(c, edge, evidence) ==
  /\ edge.rail = "brain" /\ edge.resources = c.resources
  /\ \E port \in evidence.profile.ports :
       /\ port.id = edge.port /\ port.iface = "i2c" /\ port.rail = "brain"
       /\ port.resources = c.resources /\ port.connector = edge.connector

DriverReviewed(c, option, evidence) ==
  LET driver == SENSORS[option.sensor].driver IN
  /\ \E p \in evidence.parts : Pin(p) = option.part /\ p.driver = driver /\ p.driverVer = DriverVer
  /\ \E row \in evidence.compat :
       /\ row.brain = c.brain.id /\ row.driver = driver /\ row.driverVer = DriverVer
       /\ row.runtime = RUNTIME /\ row.status = "passed"

Edges(plan) == Elements(plan.wiring)
Chosen(c, plan) == UNION {OptionFor(c, edge) : edge \in Edges(plan)}
ChannelsOf(options) == UNION {SENSORS[o.sensor].channels : o \in options}

Supported == 10..86400

\* Nobody has approved a camera plan: only a numeric candidate is ever found.
SelectNumericCandidate(plan, evidence) ==
  /\ \E c \in NUMERIC_CANDIDATES : c.id = plan.profile.id
  /\ LET c == CandidateFor(plan)
         chosen == Chosen(c, plan)
     IN /\ \A edge \in Edges(plan) : OptionFor(c, edge) # {}
        /\ plan.runtime = RUNTIME /\ plan.profile.version = c.version
        /\ plan.pins = {c.brain, c.source} \union {o.part : o \in chosen}
        /\ plan.pins = {Pin(p) : p \in evidence.parts}
        /\ \A p \in evidence.parts : p.status = "active"
        /\ plan.brain = c.brain /\ plan.source = c.source
        /\ evidence.profile.brain = c.brain /\ evidence.profile.source = c.source
        /\ chosen # {}
        /\ \A edge \in Edges(plan) : EdgeReviewed(c, edge, evidence)
        /\ \A o \in chosen : DriverReviewed(c, o, evidence)
        /\ request.transport = "wifi" /\ request.power = "usb" /\ request.interval \in Supported
        /\ \A o, p \in chosen : o # p => SENSORS[o.sensor].channels \intersect SENSORS[p.sensor].channels = {}

\* A code version for the accepted plan: the spec's interval, or an edited one.
Compile(interval) ==
  /\ accepted # NoPlan /\ device = NoDevice /\ interval \in Supported
  /\ SelectNumericCandidate(accepted.plan, accepted.evidence)
  /\ LET c == CandidateFor(accepted.plan) IN
     bundle' = [candidate |-> c.id, interval |-> interval,
                channels |-> ChannelsOf(Chosen(c, accepted.plan))]
  /\ UNCHANGED <<history, request, parts, compat, answer, plans, accepted, device>>

Refused ==
  /\ accepted # NoPlan /\ bundle = NoBundle
  /\ ~SelectNumericCandidate(accepted.plan, accepted.evidence)
  /\ bundle' = [candidate |-> "unsupported"]
  /\ UNCHANGED <<history, request, parts, compat, answer, plans, accepted, device>>

-----------------------------------------------------------------------------
(* gateway/src/provisioning-authority.ts and provisioning-profile.ts       *)

Matching(plan, firmwareProfile) ==
  {a \in Approved : /\ a.assembly = plan.profile /\ a.runtime = plan.runtime
                    /\ a.pins = plan.pins /\ a.firmware = firmwareProfile}

SourceFits(source, evidence) ==
  \E p \in evidence.parts : Pin(p) = source.part /\ p.schema = source.schema

\* Exactly one profile, every channel from the part that carries its schema,
\* and every part with a schema accounted for.
ResolveProvisioningProfile(stored, firmwareProfile) ==
  LET found == Matching(stored.plan, firmwareProfile)
      a == CHOOSE a \in found : TRUE
      sources == a.channels \union a.health
  IN  /\ Cardinality(found) = 1
      /\ \A s \in sources : SourceFits(s, stored.evidence)
      /\ \A s \in a.channels : s.schema # "device_health.v1"
      /\ \A s \in a.health : \E p \in stored.evidence.parts : Pin(p) = s.part /\ p.iface = "host"
      /\ \A p \in stored.evidence.parts : p.schema # None => Pin(p) \in {s.part : s \in sources}

Keys(a) == {s.key : s \in a.channels}

EvidenceConsistent(stored) ==
  /\ stored.evidence.profile.brain = stored.plan.brain
  /\ stored.evidence.profile.source = stored.plan.source
  /\ \A p \in stored.evidence.parts : p.driver # None =>
       \E row \in stored.evidence.compat :
         /\ row.status = "passed" /\ row.driver = p.driver /\ row.driverVer = p.driverVer
         /\ row.brain = stored.plan.brain.id /\ row.runtime = stored.plan.runtime

VerifyProvisioningFirmware(a) == bundle.channels = Keys(a)

\* Longer compiled intervals keep within the accepted power budget.
IntervalAdmitted_Any(interval) == interval > 0
IntervalAdmitted(interval) == interval >= request.interval

Provision ==
  /\ device = NoDevice /\ accepted # NoPlan
  /\ bundle \notin {NoBundle, [candidate |-> "unsupported"]}
  /\ EvidenceConsistent(accepted)
  /\ ResolveProvisioningProfile(accepted, bundle.candidate)
  /\ \E a \in Matching(accepted.plan, bundle.candidate) :
       /\ VerifyProvisioningFirmware(a)
       /\ IntervalAdmitted(bundle.interval)
       /\ device' = [channels |-> Keys(a), next_s |-> bundle.interval]
  /\ UNCHANGED <<history, request, parts, compat, answer, plans, accepted, bundle>>

Next ==
  \/ Commit
  \/ Load
  \/ Solves
  \/ \E stored \in plans : Accept(stored)
  \/ \E interval \in Intervals : Compile(interval)
  \/ Refused
  \/ Provision

Spec == Init /\ [][Next]_vars

-----------------------------------------------------------------------------
(* What a plan is, without the search: an assembly of one profile's brain  *)
(* and source with some of the active parts, all wired.                    *)

\* The versions a range admits, by the leading numbers it fixes.
InRange(v, range) ==
  LET f == range.floor
      fixed == CASE range.op = ">=" -> 0
                 [] range.op = "~" -> 2
                 [] OTHER -> IF f.core[1] > 0 THEN 1 ELSE IF f.core[2] > 0 THEN 2 ELSE 3
  IN  IF range.op = "" THEN v = f
      ELSE /\ \A i \in 1..fixed : v.core[i] = f.core[i]
           /\ v = f \/ CompareSemver(v, f) = 1
           /\ v.pre = <<>> \/ (f.pre # <<>> /\ v.core = f.core)

Assembly(e, S, input) ==
  LET all == S \union {e.brain, e.source} IN
  /\ \A p, q \in all : p # q => p.id # q.id /\ (p.address = None \/ p.address # q.address)
  /\ \A p \in all :
       /\ p.needs \subseteq Provided(all) /\ p.conflicts \intersect Ids(all) = {}
       /\ {c \in p.needs : c[1] \in {"bus", "gpio"}} \subseteq e.brain.caps
       /\ InRange(input.spec.runtime, p.floor)
       /\ p.driver = None \/ CompatPassed(p, e.brain, input)
       /\ Passive(p) \/ (p.logic # <<>> /\ ContainsVoltage(p.logic, e.brain.logic))
       /\ p.connector \in DOMAIN Connectors /\ p.iface \in Connectors[p.connector].interfaces

\* Assignments of ports to the parts of S: no port over its capacity or
\* current, and no pin claimed through two ports.
Wirings(e, S) ==
  LET Active(p) == p.active
      On(f, port) == {p \in S : f[p] = port}
  IN  {f \in [S -> e.profile.ports] :
         /\ \A p \in S : PortSuits(e, p, f[p])
         /\ \A port \in {f[p] : p \in S} :
              Cardinality(On(f, port)) <= port.capacity /\ SumOf(On(f, port), Active) <= port.max_current
         /\ \A p, q \in S : f[p] # f[q] => Elements(f[p].resources) \intersect Elements(f[q].resources) = {}}

Budgets(e, S) ==
  {b \in {PowerBudget(e, [p \in S |-> f[p].rail]) : f \in Wirings(e, S)} : BudgetFailure(e, b) = None}

\* Every assembly that meets the needs, with the budget of its best wiring.
Reference(input, needs) ==
  UNION {
    LET e == [brain |-> ends[1], source |-> ends[2], profile |-> profile, spec |-> input.spec,
              connectors |-> input.connectors,
              target |-> IF TargetLife \in needs THEN input.spec.target ELSE 0]
        free == {p \in ActiveParts(input) : ~Passive(p)}
        feasible == {S \in SUBSET free :
                       /\ needs \ {TargetLife} \subseteq Provided(S \union {e.brain, e.source})
                       /\ Assembly(e, S, input) /\ PowerPathFailure(e) = None /\ Budgets(e, S) # {}}
    IN  {[pins |-> {Pin(p) : p \in S \union {e.brain, e.source}},
          profile |-> [id |-> profile.id, version |-> profile.version],
          cost |-> Total(S \union {e.brain, e.source}),
          budget |-> CHOOSE b \in Budgets(e, S) : \A c \in Budgets(e, S) : Draws(b, c) <= 0] : S \in feasible}
    : <<profile, ends>> \in {x \in input.profiles \X (input.parts \X input.parts) : x[2] \in Ends(input, x[1])}}

Outline(plan) == [pins |-> plan.pins, profile |-> plan.profile, cost |-> plan.cost, budget |-> plan.budget]

Exact(result, input) ==
  LET all == Reference(input, Requirements(input.spec))
      offered == {Outline(plan) : plan \in Elements(result.plans)}
  IN  /\ result.status = "solved" =>
           /\ result.count = Cardinality(all)
           /\ Cardinality(offered) = Lesser(input.maxPlans, Cardinality(all))
           /\ offered \subseteq all
           /\ \A i \in 1..(Len(result.plans) - 1) : ComparePlans(result.plans[i], result.plans[i + 1]) < 0
           /\ \A a \in offered, b \in all \ offered : ComparePlans(a, b) < 0
      /\ result.status = "infeasible" => all = {}

\* Solving answers with exactly the best plans there are: the search of
\* solver.ts and constraints.ts (pruning, one wiring kept per selection, plans
\* popped beyond max_plans) agrees with the definition of a plan above, and
\* says a request is infeasible only when no assembly meets it.
SolverExact == [][answer' # answer => Exact(answer', TrustedInput)]_vars

\* The conflict an infeasible answer names is infeasible by itself, and
\* dropping any one of its requirements makes the rest feasible: asking the
\* owner to relax one of them is honest advice (solver.ts minimization).
ConflictMinimal ==
  [][answer'.status = "infeasible" /\ answer' # answer =>
       /\ Reference(TrustedInput, answer'.conflict) = {}
       /\ \A r \in answer'.conflict : Reference(TrustedInput, answer'.conflict \ {r}) # {}]_vars

\* A plan once offered stays acceptable, whatever is committed and loaded
\* afterwards, as long as the active rows still fit one search: rows are immutable, and the
\* narrowed search of acceptance finds the plan again among the best of its own
\* parts (build-plan-store.ts accept).
OfferedStaysAcceptable == Available => \A stored \in plans : Verified(stored, TrustedInput)

\* A folder that passes validation holds no two active parts the matcher can
\* never put together without the registry having recorded why: a shared
\* address, a logic level or a connector never comes as a surprise.
RegistryVouches ==
  LET d == Disk
      on == {p \in d.parts : p.status = "active"}
      Failures(ps) == CheckParts(ps, ps[1], [TrustedInput EXCEPT !.connectors = d.connectors])
  IN  ValidateRegistry(d) =>
        \A brain \in {p \in on : p.iface = "host"} : \A p, q \in {x \in on : ~Passive(x)} :
          p.id # q.id =>
            /\ "wiring" \notin Failures(<<brain, p, q>>)
            /\ "logic" \in Failures(<<brain, p>>) => <<p.id, brain.id>> \in d.known
            /\ "i2c" \in Failures(<<brain, p, q>>) => \E s \in d.shared : {p.id, q.id} \subseteq s.parts

\* A provisioned device never draws more, on average, than the plan its owner
\* accepted: the interval its firmware was compiled for keeps the budget the
\* matcher computed for the requested interval (provisioning-authority.ts).
BudgetKept ==
  device # NoDevice =>
    LET part(pin) == CHOOSE p \in accepted.evidence.parts : Pin(p) = pin
        e == [brain |-> part(accepted.plan.brain), source |-> part(accepted.plan.source),
              profile |-> accepted.evidence.profile, spec |-> [interval |-> device.next_s]]
        on == [p \in {part(edge.part) : edge \in Edges(accepted.plan)} |->
                 (CHOOSE edge \in Edges(accepted.plan) : edge.part = Pin(p)).rail]
    IN  Draws(PowerBudget(e, on), accepted.plan.budget) <= 0

\* What is promised about hardware holds where it counts: validated parts go together
\* unless the registry says why not, and a compiled device keeps its power budget.
HardwareVouched == RegistryVouches /\ BudgetKept

\* Answers are exact: the plans of a solved request are the best there are, and the
\* conflict of an infeasible one is minimal (solve of solver.ts).
AnswersExact == SolverExact /\ ConflictMinimal

\* An accepted plan for a board the compiler reviewed, made of parts on its
\* allow-list and asked for over Wi-Fi and USB, can be compiled.
ReviewedBusCompiles ==
  (accepted # NoPlan /\ request.transport = "wifi" /\ request.power = "usb") =>
    \A c \in NUMERIC_CANDIDATES :
      (/\ c.id = accepted.plan.profile.id
       /\ Edges(accepted.plan) # {} /\ \A edge \in Edges(accepted.plan) : OptionFor(c, edge) # {}) =>
      SelectNumericCandidate(accepted.plan, accepted.evidence)

=============================================================================
