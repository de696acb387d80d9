------------------------------ MODULE MCPlanner -----------------------------
EXTENDS Planner

MCTextOrder == <<"0.1.0", "C-001", "C-002", "E-001", "E-005", "GPIO21", "GPIO4", "GPIO47", "GPIO8", "GPIO9",
  "P-001", "V-004", "V-005", "battery-v1", "direct", "echo", "esp32s3-bh1750-usb-v1",
  "freenove-esp32s3-n16r8-i2c-usb-v1", "ph-i2c", "qt-i2c", "rail",
  "wifi", "battery", "5v", "distance_cm", "illuminance_lux", "temperature_c", "life_days">>

V(a, b, c) == [core |-> <<a, b, c>>, pre |-> <<>>]
AtLeast(v) == [op |-> ">=", floor |-> v]

Light == <<"read", "illuminance_lux">>
Heat == <<"read", "temperature_c">>
Echo == <<"read", "distance_cm">>
I2c == <<"bus", "i2c">>

Board == [id |-> "C-001", version |-> 1, status |-> "active", successor |-> None, category |-> "communication",
  iface |-> "host", connector |-> "usb-micro-b-v1", volts |-> <<40, 55>>, alt |-> ("5v-pin" :> <<36, 55>>),
  idle |-> 1, active |-> 30, needs |-> {}, conflicts |-> {}, address |-> None, logic |-> <<33, 33>>,
  supply |-> [out |-> <<32, 34>>, max |-> 40, capacity |-> 0], driver |-> None, driverVer |-> None,
  caps |-> {I2c, <<"gpio", "digital">>, <<"net", "wifi">>, <<"power", "3v3">>}, floor |-> AtLeast(V(0, 1, 0)),
  cost |-> 20, schema |-> "device_health.v1", measured |-> TRUE, footprint |-> TRUE]
Mains == [Board EXCEPT !.id = "E-005", !.category = "energy", !.iface = "power", !.connector = "usb-c-v1",
  !.volts = <<48, 53>>, !.alt = <<>>, !.idle = 0, !.active = 0, !.logic = <<>>,
  !.supply = [out |-> <<48, 53>>, max |-> 100, capacity |-> 0], !.caps = {<<"power", "5v">>}, !.cost = 8, !.schema = None]
Cell == [Mains EXCEPT !.id = "E-001", !.volts = <<30, 42>>, !.connector = "hsx-power-2pin-v1",
  !.supply = [out |-> <<30, 42>>, max |-> 80, capacity |-> 1300], !.caps = {<<"power", "battery">>}]
LightSensor == [Board EXCEPT !.id = "V-005", !.category = "visual", !.iface = "i2c", !.connector = "hsx-i2c-4pin-v1",
  !.volts = <<30, 50>>, !.alt = <<>>, !.idle = 0, !.active = 2, !.needs = {I2c}, !.address = "0x23", !.logic = <<30, 50>>,
  !.supply = <<>>, !.driver = "hsx-driver-bh1750", !.driverVer = "0.1.0", !.caps = {Light}, !.cost = 4, !.schema = "illuminance.v1"]
ClimateSensor == [LightSensor EXCEPT !.id = "P-001", !.category = "physical", !.address = "0x77", !.active = 3,
  !.driver = "hsx-driver-bme280", !.caps = {Heat}, !.cost = 15, !.schema = "climate.v1"]
EchoSensor == [LightSensor EXCEPT !.id = "V-004", !.iface = "gpio", !.connector = "hsx-4pin-gpio-v1", !.address = None,
  !.needs = {<<"gpio", "digital">>}, !.driver = "hsx-driver-echo", !.caps = {Echo}, !.cost = 6, !.schema = "distance.v1"]

Row(driver, brain, status) ==
  [driver |-> driver, driverVer |-> "0.1.0", runtime |-> RUNTIME, brain |-> brain, status |-> status]

MCConnectors == [
  n \in {"usb-micro-b-v1", "usb-c-v1", "hsx-power-2pin-v1", "hsx-i2c-4pin-v1", "hsx-4pin-gpio-v1"} |->
    [interfaces |-> CASE n = "hsx-i2c-4pin-v1" -> {"i2c"} [] n = "hsx-4pin-gpio-v1" -> {"gpio"} [] OTHER -> {"power", "host"},
     max_voltage |-> 55]]

Base == [parts |-> {Board, Mains, Cell, LightSensor, ClimateSensor, EchoSensor}, connectors |-> MCConnectors,
  shared |-> {}, known |-> {},
  compat |-> {Row("hsx-driver-bh1750", "C-001", "passed"), Row("hsx-driver-bme280", "C-001", "passed"), Row("hsx-driver-echo", "C-001", "passed")},
  golden |-> {[requires |-> {Heat, <<"net", "wifi">>}, supply |-> <<"power", "battery">>, input |-> "5v-pin"]}]

Change(d, old, new) == [d EXCEPT !.parts = (@ \ {old}) \union {new}]
Bump(d, old, new) == [d EXCEPT !.parts = @ \union {[new EXCEPT !.version = 2]}]

\* What a commit may do to the folder.
Edits == <<"clash", "shared", "logic", "known", "needs", "unmet", "conflict", "connector", "floor", "caret", "prerelease",
  "deprecate", "bump", "dearer", "thirsty", "failed", "footprint", "nodriver", "draft", "many">>

Edited(d, edit) ==
  CASE edit = "clash" -> Change(d, ClimateSensor, [ClimateSensor EXCEPT !.address = "0x23"])
    [] edit = "shared" -> [Change(d, ClimateSensor, [ClimateSensor EXCEPT !.address = "0x23"]) EXCEPT
                            !.shared = {[address |-> "0x23", parts |-> {"V-005", "P-001"}]}]
    [] edit = "logic" -> Change(d, EchoSensor, [EchoSensor EXCEPT !.logic = <<45, 55>>])
    [] edit = "known" -> [Change(d, EchoSensor, [EchoSensor EXCEPT !.logic = <<45, 55>>]) EXCEPT !.known = {<<"V-004", "C-001">>}]
    [] edit = "needs" -> Change(d, ClimateSensor, [ClimateSensor EXCEPT !.needs = @ \union {<<"power", "3v3">>}])
    [] edit = "unmet" -> Change(d, LightSensor, [LightSensor EXCEPT !.needs = @ \union {Echo}])
    [] edit = "conflict" -> Change(d, LightSensor, [LightSensor EXCEPT !.conflicts = {"P-001"}])
    [] edit = "connector" -> Change(d, LightSensor, [LightSensor EXCEPT !.connector = "hsx-4pin-gpio-v1"])
    [] edit = "floor" -> Change(d, LightSensor, [LightSensor EXCEPT !.floor = AtLeast(V(0, 2, 0))])
    [] edit = "caret" -> Change(d, LightSensor, [LightSensor EXCEPT !.floor = [op |-> "^", floor |-> V(0, 0, 9)]])
    [] edit = "prerelease" -> Change(d, LightSensor, [LightSensor EXCEPT
                                !.floor = [op |-> "~", floor |-> [core |-> <<0, 1, 0>>, pre |-> <<<<1, 1>>>>]]])
    [] edit = "deprecate" -> Bump(d, EchoSensor, [EchoSensor EXCEPT !.status = "deprecated", !.successor = "V-005"])
    [] edit = "bump" -> Bump(d, LightSensor, [LightSensor EXCEPT !.cost = 3])
    [] edit = "many" -> Bump(Bump(d, LightSensor, LightSensor), ClimateSensor, ClimateSensor)
    [] edit = "dearer" -> Change(d, LightSensor, [LightSensor EXCEPT !.cost = 15])
    [] edit = "thirsty" -> Change(d, ClimateSensor, [ClimateSensor EXCEPT !.active = 9])
    [] edit = "failed" -> [d EXCEPT !.compat = (@ \ {Row("hsx-driver-bh1750", "C-001", "passed")}) \union {Row("hsx-driver-bh1750", "C-001", "failed")}]
    [] edit = "footprint" -> Change(d, LightSensor, [LightSensor EXCEPT !.footprint = FALSE])
    [] edit = "nodriver" -> Change(d, LightSensor, [LightSensor EXCEPT !.driver = None, !.driverVer = None])
    [] edit = "draft" -> Change(d, EchoSensor, [EchoSensor EXCEPT !.status = "draft"])

MCHistories == {<<Base>>} \union
  {<<Edited(Base, Edits[i]), Edited(Edited(Base, Edits[i]), edit)>> :
     <<i, edit>> \in (DOMAIN Edits) \X {"shared", "many", "bump", "dearer", "failed"}}

Port(id, iface, connector, rail, current, resources, capacity) ==
  [id |-> id, iface |-> iface, connector |-> connector, rail |-> rail, max_current |-> current,
   resources |-> resources, capacity |-> capacity]

UsbProfile == [id |-> "esp32s3-bh1750-usb-v1", version |-> 1, brain |-> [id |-> "C-001", version |-> 1],
  source |-> [id |-> "E-005", version |-> 1], source_connector |-> "usb-c-v1", brain_input |-> "primary",
  efficiency |-> 8, quiescent |-> 2, usable |-> 8,
  ports |-> {Port("rail", "i2c", "hsx-i2c-4pin-v1", "brain", 11, <<"GPIO8", "GPIO9">>, 2),
             Port("echo", "gpio", "hsx-4pin-gpio-v1", "brain", 10, <<"GPIO4">>, 1)},
  activity |-> {[part |-> [id |-> "C-001", version |-> 1], active_s |-> 10]}]
CellProfile == [UsbProfile EXCEPT !.id = "battery-v1", !.source = [id |-> "E-001", version |-> 1],
  !.source_connector = "hsx-power-2pin-v1", !.brain_input = "5v-pin", !.quiescent = 0,
  !.ports = {Port("rail", "i2c", "hsx-i2c-4pin-v1", "brain", 10, <<"GPIO8", "GPIO9">>, 1),
             Port("direct", "i2c", "hsx-i2c-4pin-v1", "source", 10, <<"GPIO47", "GPIO21">>, 1),
             Port("echo", "gpio", "hsx-4pin-gpio-v1", "brain", 10, <<"GPIO9">>, 1)}]
MCProfiles == {UsbProfile, CellProfile}

Ask(caps, transport, power, target) ==
  [settled |-> TRUE, flags |-> {}, open |-> {}, capabilities |-> caps, transport |-> transport,
   power |-> power, interval |-> 20, target |-> target]

MCRequests == {
  Ask({Light}, "wifi", "usb", 0), Ask({Light, Heat}, "wifi", "usb", 0), Ask({Heat, Echo}, None, "usb", 0),
  Ask({Light, Heat}, "wifi", "battery", 0), Ask({Light, Echo}, "wifi", "battery", 0),
  Ask({Light}, "wifi", "battery", 2), Ask({Light, Heat}, "wifi", "battery", 2),
  [Ask({Light}, "wifi", "usb", 0) EXCEPT !.settled = FALSE]}

Health == [part |-> [id |-> "C-001", version |-> 1], schema |-> "device_health.v1"]
MCApproved == {
  [assembly |-> [id |-> "esp32s3-bh1750-usb-v1", version |-> 1], runtime |-> RUNTIME, firmware |-> "esp32s3-bh1750-usb-v1",
   pins |-> {[id |-> "C-001", version |-> 1], [id |-> "E-005", version |-> 1], [id |-> "V-005", version |-> 1]},
   health |-> {Health},
   channels |-> {[key |-> "illuminance", part |-> [id |-> "V-005", version |-> 1], schema |-> "illuminance.v1"]}]}

-----------------------------------------------------------------------------
(* The shipped Freenove catalogue.                                         *)

Freenove == [Board EXCEPT !.id = "C-002", !.connector = "usb-c-v1", !.alt = <<>>]
FreenoveParts == {Freenove, [Mains EXCEPT !.version = 2], [LightSensor EXCEPT !.version = 2], [ClimateSensor EXCEPT !.version = 2]}
FreenoveHistories == {<<[Base EXCEPT !.parts = FreenoveParts, !.golden = {},
  !.compat = {Row("hsx-driver-bh1750", "C-002", "passed"), Row("hsx-driver-bme280", "C-002", "passed")}]>>}
FreenoveProfiles == {[UsbProfile EXCEPT !.id = "freenove-esp32s3-n16r8-i2c-usb-v1",
  !.brain = [id |-> "C-002", version |-> 1], !.source = [id |-> "E-005", version |-> 2],
  !.ports = {Port("qt-i2c", "i2c", "hsx-i2c-4pin-v1", "brain", 100, <<"GPIO47", "GPIO21">>, 8),
             Port("ph-i2c", "i2c", "stemma-i2c-ph-4pin-v1", "brain", 100, <<"GPIO47", "GPIO21">>, 8)},
  !.activity = {}]}
FreenoveRequests == {Ask({Light}, "wifi", "usb", 0), Ask({Light, Heat}, "wifi", "usb", 0)}

=============================================================================
