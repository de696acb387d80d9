------------------------------ MODULE Matcher -------------------------------
(***************************************************************************)
(* The matcher (apps/matcher/src): a bounded, deterministic search for     *)
(* assemblies of registry parts that meet a request.  An input is a record *)
(* of spec, parts, connectors, profiles, compat, maxSteps and maxPlans.    *)
(*                                                                         *)
(* Every quantity of a power budget is kept as an integer over the common  *)
(* denominator `unit`, so that comparisons are exact.                      *)
(***************************************************************************)
EXTENDS Registry, SequencesExt

-----------------------------------------------------------------------------
(* runtime.ts: the ranges a part's min_runtime may name.                   *)

SatisfiesRuntime(v, range) ==
  LET floor == range.floor
      c == floor.core
      upper == IF range.op = "~" THEN <<c[1], c[2] + 1, 0>>
               ELSE IF c[1] > 0 THEN <<c[1] + 1, 0, 0>>
               ELSE IF c[2] > 0 THEN <<0, c[2] + 1, 0>> ELSE <<0, 0, c[3] + 1>>
  IN  IF range.op = "" THEN CompareSemver(v, floor) = 0
      ELSE /\ v.pre # <<>> => floor.pre # <<>> /\ v.core = c
           /\ CompareSemver(v, floor) >= 0
           /\ range.op = ">=" \/ CompareSemver(v, [core |-> upper, pre |-> <<>>]) < 0

-----------------------------------------------------------------------------
(* power.ts: average and peak currents of an assembly.                     *)

ContainsVoltage(input, source) == input[1] <= source[1] /\ source[2] <= input[2]

\* Milliamperes times the interval: idle plus the active share of the duty.
AverageCurrent(p, interval, profile) ==
  LET seconds == {a.active_s : a \in {x \in profile.activity : Pinned(p, x.part)}}
      busy == IF seconds = {} THEN interval ELSE Lesser(interval, Least(seconds))
  IN  p.idle * interval + (p.active - p.idle) * busy

SumOf(S, Value(_)) == FoldLeft(LAMBDA n, x : n + Value(x), 0, SetToSeq(S))

\* Rail currents are referred to the source through the regulator's loss.
\* efficiency and usable are tenths.
Budget(e, scale, directDraw, railDraw, directPeak, railPeak) ==
  [average  |-> (directDraw + e.profile.quiescent * e.spec.interval) * scale
                  + railDraw * e.brain.supply.out[2] * 10,
   unit     |-> e.spec.interval * scale,
   peak     |-> (directPeak + e.profile.quiescent) * scale + railPeak * e.brain.supply.out[2] * 10,
   peakUnit |-> scale,
   railPeak |-> railPeak,
   usable   |-> e.source.supply.capacity * e.profile.usable]

\* on[p] is the rail that feeds p.
PowerBudget(e, on) ==
  LET Draw(p) == AverageCurrent(p, e.spec.interval, e.profile)
      Peak(p) == p.active
      On(rail) == {p \in DOMAIN on : on[p] = rail}
  IN  Budget(e, Greater(e.source.supply.out[1], InputRange(e.brain, e.profile.brain_input)[1]) * e.profile.efficiency,
             SumOf({e.source} \union On("source"), Draw), SumOf({e.brain} \union On("brain"), Draw),
             SumOf({e.source} \union On("source"), Peak), SumOf({e.brain} \union On("brain"), Peak))

\* Less average draw: the budgets of one request differ in their units.
Draws(a, b) == Sign(a.average * b.unit - b.average * a.unit)

MeetsTarget(budget, days) ==
  days = 0 \/ (budget.usable > 0 /\ budget.average > 0
                /\ budget.usable * budget.unit >= days * 240 * budget.average)

-----------------------------------------------------------------------------
(* constraints.ts: checkParts, as the set of constraints that fail.        *)

CompatPassed(p, brain, input) ==
  \E row \in input.compat :
    /\ row.driver = p.driver /\ row.driverVer = p.driverVer
    /\ row.runtime = input.spec.runtime /\ row.brain = brain.id /\ row.status = "passed"

CheckParts(parts, brain, input) ==
  LET S == {parts[i] : i \in DOMAIN parts}
      Fails == [
        requires |-> \E p \in S : \E need \in p.needs :
                       \/ need \notin Provided(S)
                       \/ need[1] \in {"bus", "gpio"} /\ need \notin brain.caps,
        conflict |-> \E p \in S : p.conflicts \intersect Ids(S) # {},
        i2c |-> \E i, j \in DOMAIN parts :
                  i < j /\ parts[i].address # None /\ parts[i].address = parts[j].address,
        runtime |-> \E p \in S : ~SatisfiesRuntime(input.spec.runtime, p.floor),
        compatibility |-> \E p \in S : p.driver # None /\ ~CompatPassed(p, brain, input),
        logic |-> \E p \in S : ~Passive(p)
                    /\ (p.logic = <<>> \/ ~ContainsVoltage(p.logic, brain.logic)),
        wiring |-> \E p \in S : \/ p.connector \notin DOMAIN input.connectors
                                \/ p.iface \notin input.connectors[p.connector].interfaces]
  IN  {c \in DOMAIN Fails : Fails[c]}

-----------------------------------------------------------------------------
(* constraints.ts: wire, which allocates profile ports by backtracking.  e *)
(* is the assembly under construction: brain, source, peripherals (in      *)
(* order), profile, spec, connectors, target.                              *)

PowerPathFailure(e) ==
  LET range == InputRange(e.brain, e.profile.brain_input)
      out == e.source.supply.out
      battery == e.source.supply.capacity > 0 /\ <<"power", "battery">> \in e.source.caps
  IN  IF e.source.supply = <<>> \/ e.brain.supply = <<>> \/ range = <<>> THEN "voltage"
      ELSE IF \/ e.source.connector # e.profile.source_connector
              \/ e.profile.source_connector \notin DOMAIN e.connectors
              \/ e.connectors[e.profile.source_connector].max_voltage < out[2] THEN "wiring"
      ELSE IF \/ out[2] > range[2] \/ out[2] < range[1]
              \/ ~battery /\ out[1] < range[1]
              \/ /\ e.profile.brain_input = "primary"
                 /\ e.connectors[e.brain.connector].max_voltage < out[2] THEN "voltage"
      ELSE None

RailWindow(e, port) ==
  IF port.rail = "brain" THEN e.brain.supply.out
  ELSE <<Greater(e.source.supply.out[1], InputRange(e.brain, e.profile.brain_input)[1]),
         e.source.supply.out[2]>>

\* A port that suits the part whatever else is wired.
PortSuits(e, p, port) ==
  LET window == RailWindow(e, port)
      provider == IF port.rail = "brain" THEN e.brain ELSE e.source
  IN  /\ port.iface = p.iface /\ port.connector = p.connector
      /\ port.connector \in DOMAIN e.connectors
      /\ port.iface \in e.connectors[port.connector].interfaces
      /\ e.connectors[port.connector].max_voltage >= window[2]
      /\ ContainsVoltage(p.volts, window)
      /\ {c \in p.needs : c[1] = "power"} \subseteq provider.caps

Elements(s) == {s[i] : i \in DOMAIN s}
Occupants(e, wiring, port) ==
  {p \in Elements(e.peripherals) : \E i \in DOMAIN wiring : Pinned(p, wiring[i].part) /\ wiring[i].port = port.id}

\* Room left by the wiring so far: capacity, pins shared with other ports, current.
PortFree(e, wiring, p, port) ==
  LET there == Occupants(e, wiring, port)
      Active(x) == x.active
  IN  /\ Cardinality(there) < port.capacity
      /\ \A i \in DOMAIN wiring :
           wiring[i].port # port.id => Elements(wiring[i].resources) \intersect Elements(port.resources) = {}
      /\ SumOf(there, Active) + p.active <= port.max_current

SortText(s) == SortedBy(Elements(s), LAMBDA n : Rank[n])

Edge(p, port) ==
  [part |-> Pin(p), port |-> port.id, rail |-> port.rail,
   connector |-> port.connector, resources |-> SortText(port.resources)]

RailsOf(e, wiring) ==
  [p \in Elements(e.peripherals) |->
     LET i == CHOOSE i \in DOMAIN wiring : Pinned(p, wiring[i].part) IN wiring[i].rail]

BudgetFailure(e, budget) ==
  IF \/ budget.railPeak > e.brain.supply.max
     \/ budget.peak > e.source.supply.max * budget.peakUnit THEN "current"
  ELSE IF ~MeetsTarget(budget, e.target) THEN "battery" ELSE None

\* A complete assignment: kept when it draws less than the best so far.
Keep_Last(e, wiring, acc, budget) ==
  IF BudgetFailure(e, budget) # None THEN [acc EXCEPT !.failure = BudgetFailure(e, budget)]
  ELSE [acc EXCEPT !.best = <<wiring, budget>>]
Keep(e, wiring, acc, budget) ==
  IF BudgetFailure(e, budget) # None THEN [acc EXCEPT !.failure = BudgetFailure(e, budget)]
  ELSE IF acc.best = <<>> \/ Draws(budget, acc.best[2]) < 0
  THEN [acc EXCEPT !.best = <<wiring, budget>>] ELSE acc
WireComplete(e, wiring, acc) == Keep(e, wiring, acc, PowerBudget(e, RailsOf(e, wiring)))

Step(acc) == [acc EXCEPT !.steps = @ + 1]

RECURSIVE WireVisit(_, _, _)
WireVisit(e, wiring, acc) ==
  LET p == e.peripherals[Len(wiring) + 1]
      Try(a, port) == IF PortSuits(e, p, port) /\ PortFree(e, wiring, p, port)
                      THEN WireVisit(e, Append(wiring, Edge(p, port)), a) ELSE a
  IN  IF Len(wiring) = Len(e.peripherals) THEN WireComplete(e, wiring, Step(acc))
      ELSE FoldLeft(Try, Step(acc), e.ports)

Wire(e, steps) ==
  IF PowerPathFailure(e) # None THEN [steps |-> steps, best |-> <<>>, failure |-> PowerPathFailure(e)]
  ELSE WireVisit(e, <<>>, [steps |-> steps, best |-> <<>>, failure |-> "wiring"])

-----------------------------------------------------------------------------
(* rank.ts: cost, then draw, then part count, then the text of the pins.   *)

PinsKey(plan) == LET pins == SortedBy(plan.pins, PinKey) IN [i \in DOMAIN pins |-> <<0, PinKey(pins[i])>>]

FirstDifference(d) ==
  IF \A i \in DOMAIN d : d[i] = 0 THEN 0 ELSE d[Least({i \in DOMAIN d : d[i] # 0})]

ComparePlans(a, b) ==
  FirstDifference(<<Sign(a.cost - b.cost), Draws(a.budget, b.budget),
                    Cardinality(a.pins) - Cardinality(b.pins), CompareIdentifiers(PinsKey(a), PinsKey(b)),
                    Rank[a.profile.id] - Rank[b.profile.id]>>)

\* plans.push, sort, and pop the worst beyond max_plans.
Insert(plans, plan, max) ==
  SubSeq(InsertAt(plans, 1 + Cardinality({i \in DOMAIN plans : ComparePlans(plans[i], plan) <= 0}), plan),
         1, Lesser(max, Len(plans) + 1))

-----------------------------------------------------------------------------
(* solver.ts.  A requirement is a capability or TargetLife.                *)

TargetLife == <<"target", "life_days">>

PowerCapability == [battery |-> <<"power", "battery">>, usb |-> <<"power", "5v">>,
                    solar |-> <<"power", "solar">>]

ActiveParts(input) == {p \in input.parts : p.status = "active"}

Capabilities(spec) ==
  spec.capabilities \union (IF spec.transport = None THEN {} ELSE {<<"net", spec.transport>>})

Requirements(spec) ==
  Capabilities(spec) \union (IF spec.target = 0 THEN {} ELSE {TargetLife})

\* The brain and source a profile pins, when both can be used for this request.
Ends(input, profile) ==
  {<<brain, source>> \in ActiveParts(input) \X ActiveParts(input) :
     /\ Pinned(brain, profile.brain) /\ brain.iface = "host"
     /\ Pinned(source, profile.source) /\ source.iface = "power"
     /\ PowerCapability[input.spec.power] \in source.caps
     /\ brain.id # source.id
     /\ input.spec.power = "battery" => source.supply # <<>> /\ source.supply.capacity > 0}

Candidates(input, brain, source) ==
  SortedBy({p \in ActiveParts(input) : ~Passive(p) /\ p.id \notin {brain.id, source.id}}, PinKey)

Total(S) == LET Cost(p) == p.cost IN SumOf(S, Cost)

PlanOf(e, selected, wired) ==
  [pins |-> {Pin(p) : p \in selected}, runtime |-> e.spec.runtime,
   profile |-> [id |-> e.profile.id, version |-> e.profile.version],
   brain |-> Pin(e.brain), source |-> Pin(e.source),
   wiring |-> wired[1], budget |-> wired[2], cost |-> Total(selected)]

\* A selection with every candidate decided.
Wired(e, input, chosen, acc, wired) ==
  IF wired.best = <<>> THEN [acc EXCEPT !.steps = wired.steps, !.why = @ \union {wired.failure}]
  ELSE [acc EXCEPT !.steps = wired.steps, !.count = @ + 1,
          !.plans = Insert(@, PlanOf(e, Elements(chosen) \union {e.brain, e.source}, wired.best), input.maxPlans)]

Leaf(e, input, chosen, acc, failures) ==
  IF failures # {} THEN [acc EXCEPT !.why = @ \union failures]
  ELSE Wired(e, input, chosen, acc, Wire([e EXCEPT !.peripherals = chosen], acc.steps))

Stops(acc) == acc.firstOnly /\ acc.count > 0

RECURSIVE Visit(_, _, _, _, _, _)
\* The candidate is left out first, then tried unless its id is already in.
VisitWith(e, input, required, index, chosen, without) ==
  IF Stops(without) \/ e.candidates[index].id \in Ids(Elements(chosen)) THEN without
  ELSE Visit(e, input, required, index + 1, Append(chosen, e.candidates[index]), without)

Visit(e, input, required, index, chosen, acc) ==
  LET rest == {e.candidates[i] : i \in index..Len(e.candidates)}
  IN  IF ~(required \subseteq Provided({e.brain, e.source} \union Elements(chosen) \union rest))
      THEN Step(acc)
      ELSE IF index > Len(e.candidates)
      THEN Leaf(e, input, chosen, Step(acc), CheckParts(<<e.brain, e.source>> \o chosen, e.brain, input))
      ELSE VisitWith(e, input, required, index, chosen,
                     Visit(e, input, required, index + 1, chosen, Step(acc)))

SearchEnds(input, needs, acc, profile, ends, base) ==
  IF base # {} THEN [acc EXCEPT !.why = @ \union base]
  ELSE Visit([brain |-> ends[1], source |-> ends[2], profile |-> profile, spec |-> input.spec,
              connectors |-> input.connectors, peripherals |-> <<>>,
              ports |-> SortedBy(profile.ports, LAMBDA port : Rank[port.id]),
              candidates |-> Candidates(input, ends[1], ends[2]),
              target |-> IF TargetLife \in needs THEN input.spec.target ELSE 0],
             input, needs \ {TargetLife}, 1, <<>>, acc)

SearchProfile(input, needs, acc, profile, found) ==
  IF found = {} THEN Step(acc)
  ELSE LET ends == CHOOSE x \in found : TRUE
       IN  SearchEnds(input, needs, Step(acc), profile, ends, CheckParts(ends, ends[1], input) \ {"requires"})

Search(input, needs, firstOnly, steps, why) ==
  LET Profile(acc, profile) ==
        IF Stops(acc) THEN acc ELSE SearchProfile(input, needs, acc, profile, Ends(input, profile))
  IN  FoldLeft(Profile,
               [steps |-> steps, plans |-> <<>>, count |-> 0, firstOnly |-> firstOnly, why |-> why],
               SortedBy(input.profiles, LAMBDA p : 10 * Rank[p.id] + p.version))

\* Deletion minimization: drop each requirement the rest is infeasible without.
Reduced(acc, reduced, found) ==
  [steps |-> found.steps, why |-> found.why, conflict |-> IF found.count = 0 THEN reduced ELSE acc.conflict]
Minimise(input, acc, reduced) == Reduced(acc, reduced, Search(input, reduced, TRUE, acc.steps, acc.why))

Uncovered(input) ==
  IF Capabilities(input.spec) \subseteq Provided(ActiveParts(input)) THEN {} ELSE {"coverage"}

InOrder(needs) == SortedBy(needs, LAMBDA c : Rank[c[2]])

Solved(r) == [status |-> "solved", plans |-> r.plans, count |-> r.count, conflict |-> {}, why |-> {}]
Infeasible(m) == [status |-> "infeasible", plans |-> <<>>, count |-> 0, conflict |-> m.conflict, why |-> m.why]
Unanswered(status) == [status |-> status, plans |-> <<>>, count |-> 0, conflict |-> {}, why |-> {}]

Reasons(why) == IF why = {} THEN {"catalogue"} ELSE why

NoPlans_Whole(input, found) ==
  FoldLeft(LAMBDA acc, r : Minimise(input, acc, Requirements(input.spec) \ {r}),
           [steps |-> found.steps, conflict |-> Requirements(input.spec),
            why |-> Reasons(found.why \union Uncovered(input))],
           InOrder(Requirements(input.spec)))
NoPlans(input, found) ==
  FoldLeft(LAMBDA acc, r : Minimise(input, acc, acc.conflict \ {r}),
           [steps |-> found.steps, conflict |-> Requirements(input.spec),
            why |-> Reasons(found.why \union Uncovered(input))],
           InOrder(Requirements(input.spec)))

\* The search is deterministic and keeps nothing when it stops at max_steps,
\* so it stops there exactly when the whole answer takes more steps.
Limited(input, steps, result) == IF steps > input.maxSteps THEN Unanswered("search_limit") ELSE result
Refusal(input, least) == Limited(input, least.steps, Infeasible(least))
Answer(input, found) ==
  IF found.count > 0 THEN Limited(input, found.steps, Solved(found)) ELSE Refusal(input, NoPlans(input, found))

Solve(input) ==
  IF input.spec.target > 0 /\ input.spec.power # "battery" THEN Unanswered("invalid_input")
  ELSE Answer(input, Search(input, Requirements(input.spec), FALSE, 0, {}))

=============================================================================
