------------------------------ MODULE Telemetry ------------------------------
(***************************************************************************)
(* From the bytes on the line to the numbers on the dashboard: a device's   *)
(* QPIGS query (SingleShot; Modbus for SMG-II inverters), the coordinator's  *)
(* verdict on the answer, and the sensors that integrate what it publishes: *)
(* the energy meters (EnergySensors), the state of charge (SocEstimator)    *)
(* and the times derived from it, with the number, select and switch        *)
(* entities that configure them, and restarts of Home Assistant.            *)
(*                                                                          *)
(* A reading is what the device's sections say at the end of a cycle:       *)
(*   v, chg, dis   battery voltage, charging and discharging current        *)
(*   pv, load, pv2 powers;  bms the BMS's SoC;  bits the status bits        *)
(*   bulk, float   voltages of QPIRI                                        *)
(* The coordinator stamps each cycle with the time, so that every cycle is  *)
(* news to the listeners.  One cycle stands for an hour.                    *)
(***************************************************************************)
EXTENDS Modbus

CONSTANTS
  Bad, Drop, Skip,
  Readings,      \* what the inverter may report
  Registers,     \* what an SMG-II may have in its registers
  Garbled,       \* what a frame that is not intact may decode to
  Blank,         \* the reading of a device without data
  Edits,         \* the numbers the user enters: a set of [key, value]
  Options,       \* the chemistries the user selects
  Installs,      \* what Home Assistant has stored when the model starts
  Budgets(_)     \* bound: of a family, the cycles, edits and restarts of a behaviour

VARIABLES
  attempt,       \* of fetch_with_retry
  known,         \* the coordinator's data: a reading, and how it was decoded
  acc,           \* the energy sensors
  soc,           \* DirectBatteryStateOfChargeSensor: [est, native, override]
  eta,           \* the sensors derived from it: [floor, full, backup, sync]
  conf,          \* values of the configuration entities
  added,         \* platforms whose entities have been added
  saved,         \* what Home Assistant would restore: [wh, soc, conf]
  clock,         \* wall clock
  budget,        \* what is left of the bounds: [cycles, edits, restarts]
  earned,        \* history: full readings since the last discharge or fresh start
  shown,         \* history: the last SoC that was not unknown
  last           \* history: of each energy, its last sample, its age, and whether the
                 \* sensor has met a reading without one since

INSTANCE SocEstimator
INSTANCE EnergySensors

\* What the fields of a reading and the registers hold, and what is stored.
Number   == {None, Bad} \cup Int
Reading  == [v : Number, chg : Number, dis : Number, pv : Number, load : Number,
             pv2 : Number, bms : Number, bits : Number, bulk : Number, float : Number]
Register == [v : Nat, i : Nat, pv : Nat, load : Nat, bulk : Nat, float : Nat]
SocRange == 0..Full
Config   == [cap : {None} \cup Int, override : Int, window : Int, floor : Int, target : Int,
             mode : Modes, deadband : BOOLEAN]
Store    == [wh : [Kinds -> Nat], soc : {None} \cup SocRange, conf : Config]

ASSUME ValueAssumption ==
  /\ \A x \in {None, Bad, Skip, Drop} : x \notin Int
  /\ None # Bad /\ Skip # Drop

ASSUME DataAssumption ==
  /\ \A r \in Readings \cup Garbled \cup {Blank} : r \in Reading
  /\ \A s \in Registers : s \in Register
  /\ \A s \in Installs : s \in Store
  /\ \A e \in Edits : e.key \in {"cap", "override", "window", "floor", "target"} /\ e.value \in Int

sensorVars  == <<acc, soc, eta>>
historyVars == <<earned, shown, last>>
busVars     == <<wireVars, modbusVars>>
vars == <<busVars, attempt, known, sensorVars, conf, added, saved, clock, budget,
          historyVars>>

Platforms == {"sensor", "number", "select", "switch"}

-----------------------------------------------------------------------------
(* The configuration entities.                                              *)

\* What the entities are worth before the user touches them.
Defaults == [cap |-> None, override |-> 0, window |-> Window, floor |-> NoiseFloor,
             target |-> 15, mode |-> LiVoltage, deadband |-> TRUE]

PlatformOf(key) == CASE key = "mode"     -> "select"
                     [] key = "deadband" -> "switch"
                     [] OTHER            -> "number"

\* The value another entity sees: an entity that is not there yet has its fallback.
Seen(key, c, a) == IF PlatformOf(key) \in a THEN c[key] ELSE Defaults[key]

_update_battery_capacity_from_state(s, v) ==
  LET e == set_capacity(s.est, v)
  IN  [s EXCEPT !.est = e,
                !.native = IF e.cap # None /\ e.soc # None THEN e.soc ELSE @]

_update_sync_voltage_from_state(s, v) == [s EXCEPT !.override = Greatest(0, v)]

_update_battery_mode_from_state(s, m) == [s EXCEPT !.est = set_mode(@, m)]

_refresh_float_deadband_config(s, c, a) ==
  [s EXCEPT !.est = set_deadband(@, Seen("deadband", c, a), Seen("window", c, a),
                                 Seen("floor", c, a))]

\* The listener of the SoC sensor that a change of the entity reaches.
Listener(s, key, c, a) ==
  CASE key = "cap"      -> _update_battery_capacity_from_state(s, c.cap)
    [] key = "override" -> _update_sync_voltage_from_state(s, c.override)
    [] key = "mode"     -> _update_battery_mode_from_state(s, c.mode)
    [] key = "target"   -> s
    [] OTHER            -> _refresh_float_deadband_config(s, c, a)

\* A platform's entities write their first state.
Announced(s, p, c, a) ==
  CASE p = "number" -> Listener(Listener(Listener(s, "cap", c, a), "override", c, a),
                                "window", c, a)
    [] p = "select" -> Listener(s, "mode", c, a)
    [] p = "switch" -> Listener(s, "deadband", c, a)

NewSoc == [est |-> NewEstimator, native |-> None, override |-> 0]

\* async_added_to_hass of the SoC sensor.  Only the value itself was stored: the charge
\* and the time of the last sync come back as 0 and None.
Restored(value, c, a) ==
  LET v  == IF value = None THEN Full ELSE value
      s1 == [NewSoc EXCEPT !.est = restore(@, v, 0, None), !.native = v]
      s2 == _update_battery_capacity_from_state(s1, Seen("cap", c, a))
      s3 == _update_sync_voltage_from_state(s2, Seen("override", c, a))
      s4 == _update_battery_mode_from_state(s3, Seen("mode", c, a))
  IN  _refresh_float_deadband_config(s4, c, a)

NoEta == [floor |-> None, full |-> None, backup |-> None, sync |-> None]

-----------------------------------------------------------------------------
(* The listeners of the coordinator, in the order in which they registered. *)

\* A field's number; absent fields count as 0.
Field(x) == IF x = None THEN 0 ELSE x

Positive(x) == IF ~IsNumber(x) THEN None ELSE IF x > 0 THEN x ELSE None

get_full_charge_sync_voltage(s, r) == IF s.override > 0 THEN s.override ELSE Positive(r.bulk)

_read_bms_soc(s, r) == IF s.est.mode = LiBms /\ IsNumber(r.bms) THEN Clamp(r.bms, 0, 100)
                                                             ELSE None

update_soc(s, r, now) ==
  LET e == update(s.est, Field(r.chg) - Field(r.dis), r.v,
                  get_full_charge_sync_voltage(s, r), Positive(r.float),
                  _read_bms_soc(s, r), now)
  IN  [s EXCEPT !.est = e, !.native = e.soc]

\* _handle_coordinator_update of the SoC sensor: an unreadable field makes the value
\* unknown, an implausible one leaves it as it is.
IsReadable(r) == Bad \notin {r.v, r.chg, r.dis}

IsUsable(r) == /\ IsReadable(r)
               /\ is_plausible_battery_voltage(Field(r.v))
               /\ is_plausible_battery_current(Field(r.chg))
               /\ is_plausible_battery_current(Field(r.dis))

HandleSoc(s, r, now) ==
  IF IsUsable(r) THEN update_soc(s, r, now)
  ELSE IF IsReadable(r) THEN s
  ELSE [s EXCEPT !.native = None]

\* The times, in 0.001 h: the charge between two SoCs (0.01 %) at i (0.1 A); below
\* _IDLE_CURRENT_THRESHOLD_A there is none.
Hours(s, from, to, i) ==
  IF s.native = None \/ s.est.cap = None \/ i < 1 THEN None
  ELSE IF from <= to THEN 0
  ELSE ((from - to) * s.est.cap) \div i

_read_current_a(x) == IF IsNumber(x) THEN x ELSE 0

_read_target_floor == Seen("target", conf, added)

EquivalentDischarge(r) ==
  LET net == Greatest(0, Field(r.load) - Field(r.pv))
  IN  IF Field(r.v) > 0 THEN (100 * net) \div r.v ELSE 0

TimeToFloor(s, r) == Hours(s, s.native, 100 * _read_target_floor, _read_current_a(r.dis))

TimeToFull(s, r) == Hours(s, Full, s.native, _read_current_a(r.chg))

BackupTime(s, r) ==
  IF Bad \in {r.load, r.pv, r.v} THEN None
  ELSE Hours(s, s.native, 100 * _read_target_floor, EquivalentDischarge(r))

LastSync(s) == s.est.sync

Derived(s, r) == [floor  |-> TimeToFloor(s, r), full |-> TimeToFull(s, r),
                  backup |-> BackupTime(s, r),  sync |-> LastSync(s)]

\* DirectDeviceStatusSensor comes first, and its int() raises on unreadable bits: the
\* listeners behind it are not called.
Reaches(r) == "sensor" \in added /\ r.bits # Bad

Aged(s) == [s EXCEPT !.est = Age(@, 1)]

\* What the published reading does to the meters' and the estimator's histories.  A full
\* reading has a current below the tail, and the sync voltage.  The float voltage will
\* do as well (soc_core.py:219-223), where wiki/vSoC-Setup.md:109-112,185-192 has only
\* the first: SnapIsEarned names it as an exception of its own.
IsAtSync(s, r)  == r.v >= get_full_charge_sync_voltage(s, r)
IsAtFloat(r)    == IF Positive(r.float) = None THEN FALSE ELSE r.v >= r.float
IsFullTick(s, r) == /\ Magnitude(Field(r.chg) - Field(r.dis)) <= TailCurrent(s.est)
                    /\ IsAtSync(s, r) \/ IsAtFloat(r)

Earned(s, r) ==
  IF s.est.cap = None \/ ~IsUsable(r) THEN earned
  ELSE IF Mirrors(s.est, _read_bms_soc(s, r)) THEN 0
  ELSE IF get_full_charge_sync_voltage(s, r) = None THEN earned
  ELSE IF IsFullTick(s, r) THEN earned + 1
  ELSE IF Field(r.chg) - Field(r.dis) < -TailCurrent(s.est) THEN 0 ELSE earned

NoSample == [p |-> 0, age |-> 0, gap |-> TRUE]

Observed(k, r) ==
  IF Sample(k, r) \in {Skip, Drop} THEN [last[k] EXCEPT !.age = @ + 1, !.gap = TRUE]
  ELSE [p |-> Sample(k, r), age |-> 0, gap |-> FALSE]

Shown(native) == IF native = None THEN shown ELSE native

\* The derived sensors hold a reference to the SoC sensor, whose listener has run.
LiveSoc_Lagging == soc      \* mutant: the state published before
LiveSoc == soc'

\* A cycle ends: the coordinator has new data and calls its listeners.
Publish(r, how) ==
  /\ budget.cycles > 0
  /\ budget' = [budget EXCEPT !.cycles = @ - 1]
  /\ known' = [r |-> r, how |-> how]
  /\ clock' = clock + 1
  /\ attempt' = 1
  /\ acc' = [k \in Kinds |-> IF Reaches(r) THEN Handle(k, Older(acc[k], 1), r)
                                           ELSE Older(acc[k], 1)]
  /\ soc' = IF Reaches(r) THEN HandleSoc(Aged(soc), r, clock + 1) ELSE Aged(soc)
  /\ eta' = IF Reaches(r) THEN Derived(LiveSoc, r) ELSE eta
  /\ earned' = IF Reaches(r) THEN Earned(soc, r) ELSE earned
  /\ shown' = Shown(soc'.native)
  /\ last' = [k \in Kinds |-> IF Reaches(r) THEN Observed(k, r)
                                            ELSE [last[k] EXCEPT !.age = @ + 1]]
  /\ UNCHANGED <<conf, added, saved>>

-----------------------------------------------------------------------------
(* The coordinator: what becomes of the answer.                             *)

\* _accept_result, for an answer that was decoded.
Accept(r, how) ==
  /\ is_plausible_qpigs(r)
  /\ Publish(r, how)

\* fetch_with_retry: once more, after a short sleep.
Retry ==
  /\ attempt = 1
  /\ attempt' = 2
  /\ UNCHANGED <<known, sensorVars, conf, added, saved, clock, budget, historyVars>>

\* The cycle ends without an answer: the last known reading is published again, or
\* none, when the failures exceed their limit.  A repeated NAK ends it at once.
GiveUp(nak) ==
  /\ attempt = 1 => nak
  /\ \/ Publish(known.r, known.how)
     \/ Publish(Blank, "blank")

\* What an intact answer may say.
Reported == IF IsModbus THEN {smg2_to_qpigs(s) : s \in Registers} ELSE Readings

CanBeRejected(how) == \/ how = "nothing"
                      \/ \E r \in IF how = "intact" THEN Reported ELSE Garbled :
                           ~is_plausible_qpigs(r)

GetData ==
  LET how == IF fut = None THEN "nothing" ELSE Decoded(fut)
  IN  /\ budget.cycles > 0
      /\ Return /\ UNCHANGED modbusVars
      /\ \/ \E r \in Reported : how = "intact" /\ Accept(r, how)
         \/ \E r \in Garbled : how \in {"shifted", "damaged"} /\ Accept(r, how)
         \/ CanBeRejected(how) /\ Retry
         \/ CanBeRejected(how) /\ GiveUp(fut # None /\ how = "nothing")

-----------------------------------------------------------------------------
(* Home Assistant.                                                          *)

\* The user changes an entity; only a new value is an event.
Changed(key, value) ==
  /\ budget.edits > 0 /\ PlatformOf(key) \in added /\ conf[key] # value
  /\ budget' = [budget EXCEPT !.edits = @ - 1]
  /\ conf' = [conf EXCEPT ![key] = value]
  /\ soc' = IF "sensor" \in added THEN Listener(soc, key, conf', added) ELSE soc
  /\ earned' = IF key = "mode" THEN 0 ELSE earned
  /\ shown' = Shown(soc'.native)
  /\ UNCHANGED <<busVars, attempt, known, acc, eta, added, saved, clock, last>>

async_set_native_value(key, value) == PlatformOf(key) = "number" /\ Changed(key, value)

async_select_option(option) == option \in Modes /\ Changed("mode", option)

async_turn(on) == Changed("deadband", on)

\* What is stored of the entities that are there.
Snapshot ==
  [wh   |-> IF "sensor" \in added THEN [k \in Kinds |-> acc[k].wh] ELSE saved.wh,
   soc  |-> IF "sensor" \in added THEN soc.native ELSE saved.soc,
   conf |-> [key \in DOMAIN conf |-> IF PlatformOf(key) \in added THEN conf[key]
                                     ELSE saved.conf[key]]]

\* The periodic save.
Dump ==
  /\ budget.restarts > 0 /\ saved # Snapshot
  /\ saved' = Snapshot
  /\ UNCHANGED <<busVars, attempt, known, sensorVars, conf, added, clock, budget,
                 historyVars>>

\* A reload or an orderly stop saves; a crash does not.
Restart(orderly) ==
  /\ budget.restarts > 0
  /\ budget' = [budget EXCEPT !.restarts = @ - 1]
  /\ saved' = IF orderly THEN Snapshot ELSE saved
  /\ open' = FALSE /\ left' = <<>> /\ buf' = <<>> /\ fut' = Idle /\ attempt' = 1
  /\ op' = Idle /\ asked' = FALSE /\ coming' = <<>>
  /\ known' = [r |-> Blank, how |-> "blank"]
  /\ acc' = [k \in Kinds |-> NewAccumulator(0)]
  /\ soc' = NewSoc /\ eta' = NoEta
  /\ conf' = Defaults /\ added' = {}
  /\ earned' = 0 /\ shown' = saved'.soc
  /\ last' = [k \in Kinds |-> NoSample]
  /\ UNCHANGED <<family, strict, step, rx, faults, ack, whole, clock>>

\* The platforms of the entry are set up concurrently, each at once.
AddSensors ==
  /\ "sensor" \notin added
  /\ added' = added \cup {"sensor"}
  /\ acc' = [k \in Kinds |-> NewAccumulator(saved.wh[k])]
  /\ soc' = Restored(saved.soc, conf, added)
  /\ shown' = Shown(soc'.native)
  /\ UNCHANGED <<busVars, attempt, known, eta, conf, saved, clock, budget, earned, last>>

\* The configuration entities restore their values and write their states.
Added(p) ==
  /\ p \notin added
  /\ added' = added \cup {p}
  /\ conf' = [key \in DOMAIN conf |-> IF PlatformOf(key) = p THEN saved.conf[key]
                                      ELSE conf[key]]
  /\ soc' = IF "sensor" \in added THEN Announced(soc, p, conf', added') ELSE soc
  /\ shown' = Shown(soc'.native)
  /\ UNCHANGED <<busVars, attempt, known, acc, eta, saved, clock, budget, earned, last>>

AddNumbers == Added("number")
AddSelect  == Added("select")
AddSwitch  == Added("switch")

-----------------------------------------------------------------------------
Init ==
  /\ SingleShotInit /\ ModbusInit
  /\ attempt = 1
  /\ known = [r |-> Blank, how |-> "blank"]
  /\ saved \in Installs
  /\ conf = saved.conf /\ added = Platforms
  /\ acc = [k \in Kinds |-> NewAccumulator(saved.wh[k])]
  /\ soc = Restored(saved.soc, conf, added) /\ eta = NoEta
  /\ clock = 0
  /\ budget \in Budgets(family)
  /\ earned = 0 /\ shown = soc.native
  /\ last = [k \in Kinds |-> NoSample]

\* The query's own steps.
Query ==
  /\ \/ \E reply \in Replies : budget.cycles > 0 /\ Connect(reply)
     \/ \E n \in 1..Len(left) : Receive(n)
     \/ \E exc \in BOOLEAN : ConnectionLost(exc)
     \/ TimeoutError
     \/ budget.cycles > 0 /\ NoAnswer
     \/ budget.cycles > 0 /\ fetch_agent_snapshot
     \/ \E reply \in Replies : budget.cycles > 0 /\ send_eybond_voltronic(reply)
  /\ UNCHANGED <<modbusVars, attempt, known, sensorVars, conf, added, saved, clock, budget, historyVars>>

ModbusQuery ==
  /\ budget.cycles > 0 /\ ModbusStep
  /\ UNCHANGED <<attempt, known, sensorVars, conf, added, saved, clock, budget, historyVars>>

Next ==
  \/ Query
  \/ ModbusQuery
  \/ GetData
  \/ \E e \in Edits : async_set_native_value(e.key, e.value)
  \/ \E option \in Options : async_select_option(option)
  \/ \E on \in BOOLEAN : async_turn(on)
  \/ Dump
  \/ \E orderly \in BOOLEAN : Restart(orderly)
  \/ AddSensors
  \/ AddNumbers
  \/ AddSelect
  \/ AddSwitch

Spec == Init /\ [][Next]_vars
-----------------------------------------------------------------------------
(* Properties.                                                              *)

Estimator == [cap : {None} \cup (Nat \ {0}), mode : Modes, deadband : BOOLEAN, window : Nat,
              floor : Nat, acc : Int, ticks : Nat, prev : {None} \cup Int, age : Nat,
              sync : {None} \cup Nat, soc : {None} \cup SocRange]

SocSensor == [est : Estimator, native : {None} \cup SocRange, override : Nat]
Meter     == [wh : Nat, prev : {None} \cup Int, age : Nat]
Times     == [floor : {None} \cup Nat, full : {None} \cup Nat, backup : {None} \cup Nat,
              sync : {None} \cup Nat]

SensorTypeOK ==
  /\ attempt \in 1..2 /\ clock \in Nat
  /\ known.r \in Reading /\ known.how \in {"intact", "shifted", "damaged", "blank"}
  /\ acc \in [Kinds -> Meter] /\ soc \in SocSensor /\ eta \in Times
  /\ conf \in Config /\ added \subseteq Platforms /\ saved \in Store
  /\ earned \in Nat /\ shown \in {None} \cup SocRange
  /\ last \in [Kinds -> [p : Int, age : Nat, gap : BOOLEAN]]

TelemetryTypeOK == SingleShotTypeOK /\ ModbusTypeOK /\ SensorTypeOK

\* What the sensors hold, and what the configuration and the histories say of it.
SensorsAgree ==
  /\ "sensor" \notin added => soc = NewSoc
  /\ {"sensor", "select"} \subseteq added => soc.est.mode = conf.mode
  /\ \A k \in Kinds :
       /\ acc[k].prev # None => acc[k].prev = last[k].p /\ acc[k].age = last[k].age
       /\ acc[k].prev # None /\ k \in {"pv2", "battery_in", "battery_out"} => ~last[k].gap

\* No restart loses energy that was saved.
EnergyIsKept == "sensor" \in added => \A k \in Kinds : acc[k].wh >= saved.wh[k]

\* The estimator holds no more than n, and its SoC is no less than its charge.
Within(e, n) ==
  /\ e.soc # None => e.soc <= n
  /\ e.cap # None => Percent(e.acc, e.cap) <= n
  /\ e.cap # None /\ e.soc # None => Percent(e.acc, e.cap) <= e.soc

\* The SoC that was last shown is an upper bound of what the estimator holds.
ShownBounds ==
  /\ "sensor" \notin added => shown = saved.soc
  /\ "sensor" \in added => shown # None /\ Within(soc.est, shown)
  /\ soc.native # None => shown = soc.native

\* The states are well-formed; a query that has ended leaves no connection open, also
\* when its reply was lost or came too late; no restart loses energy that was saved.
TelemetryInv ==
  /\ TelemetryTypeOK
  /\ NoSocketLeft /\ FrameIsReceived /\ OperationHolds
  /\ SensorsAgree /\ EnergyIsKept /\ ShownBounds

\* With strict_crc a damaged frame never becomes a sensor value on a TCP or serial line,
\* however its bytes were split and whatever came around it; Modbus is always strict.
\* wiki/Configuration.md:164-167 makes no exception, the code makes two: bytes in front
\* of a PI30 frame, which the validator skips and the decoder does not; and everything
\* that comes through an EyBond dongle, whose adapter ignores the option.
IsChecked == IsModbus \/ (strict /\ family \in Lines)

StrictKeepsDamageOut ==
  IsChecked => /\ known.how # "damaged"
               /\ family = "pi18" \/ IsModbus => known.how # "shifted"

\* A unit of charge (0.01 Ah) in units of SoC (0.01 %), rounded up.
Grain(cap) == (cap + 99) \div cap

ChargeFits(e) ==
  e.cap # None =>
    /\ e.acc \in 0..Charge(e.cap)
    /\ e.soc # None => Magnitude(e.soc - Percent(e.acc, e.cap)) <= Grain(e.cap)

\* The SoC the estimator holds is the charge it holds, over any sequence of readings,
\* capacity edits, chemistry changes and restarts, to the resolution of the two; the
\* charge stays within the capacity.
SocAgreesWithCharge == ChargeFits(soc.est)

\* The snap to 100 % is earned: the debounce counter never exceeds the number of readings
\* at the sync voltage and a tail current since the last discharge, BMS reading, change
\* of chemistry or restart.  Readings at the float voltage count as well: the wiki says
\* that the snap never fires there, the code that it does.
SnapIsEarned == soc.est.ticks <= earned

\* A time to empty or to full, or a backup time, is shown only while the SoC it is
\* derived from is known: the sensors move in lockstep with the SoC sensor, also when
\* an unreadable reading makes it unknown.
EtaNeedsSoc ==
  soc.native = None => eta.floor = None /\ eta.full = None /\ eta.backup = None

Charging == \/ Field(known'.r.chg) > Field(known'.r.dis)
            \/ IF soc.est.prev = None THEN FALSE ELSE soc.est.prev > 0

\* A SoC above the last one shown has a reason: the battery was charging, or its BMS said
\* so, or the snap was earned, or the estimate had been lost (no capacity at a tick, or an
\* unknown value at the restart).
Explained ==
  soc'.native # None /\ shown # None =>
    \/ soc'.native <= shown
    \/ clock' # clock /\ Charging
    \/ clock' # clock /\ soc'.est.ticks >= Debounce
    \/ clock' # clock /\ soc.est.mode = LiBms /\ known'.r.bms # None
    \/ "sensor" \in added /\ soc.est.cap = None /\ soc.est.soc = None

\* The shown SoC never rises without a reason, over unknown periods, edits of the
\* configuration and restarts.
JumpsAreExplained == [][Explained]_vars

Metered(k) == "sensor" \in added /\ "sensor" \in added' /\ acc'[k].wh # acc[k].wh

\* The energies are TOTAL_INCREASING: no reading, negative power included, lowers one.
EnergyNeverFalls ==
  [][\A k \in Kinds : Metered(k) => acc'[k].wh >= acc[k].wh]_vars

\* Energy grows only from one usable sample to the next, by no more than the larger of
\* the two over the time between them; the battery's and the second string's never
\* grow across a reading without a sample.
EnergyIsMetered ==
  [][\A k \in Kinds : Metered(k) =>
       /\ last[k].p >= 0 \/ last'[k].p >= 0
       /\ acc'[k].wh - acc[k].wh <= (last[k].age + 1) * Greatest(last[k].p, last'[k].p)
       /\ last'[k].age = 0 /\ ~last'[k].gap
       /\ k \in {"pv2", "battery_in", "battery_out"} => ~last[k].gap]_vars
=============================================================================
