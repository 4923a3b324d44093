--------------------------- MODULE EnergySensors ---------------------------
(***************************************************************************)
(* The energy sensors (direct_energy_sensors.py) and the plausibility       *)
(* bounds (sanity.py): what a published reading makes of an accumulator.    *)
(*                                                                          *)
(* A reading gives each field a number, None (absent) or Bad (present, not  *)
(* a number).  Voltages are in 0.1 V, currents in 0.1 A, powers in W, times *)
(* in hours, energies in Wh.                                                *)
(***************************************************************************)
EXTENDS Integers

CONSTANTS
  None, Bad,
  Drop,       \* outcome of a handler: the sample breaks the trapezoid
  Skip        \* outcome of a handler: there is no sample

\* Bounds of sanity.py.
MinVoltage == 100
MaxVoltage == 1200
MaxCurrent == 3000
MaxPower   == 50000

IsNumber(x) == x # None /\ x # Bad

is_plausible_battery_current(x) == 0 <= x /\ x <= MaxCurrent
is_plausible_battery_voltage(x) == MinVoltage <= x /\ x <= MaxVoltage
is_plausible_power(x)           == -MaxPower <= x /\ x <= MaxPower

\* What the coordinator asks of a QPIGS reading: absent and unreadable fields pass.
is_plausible_qpigs(r) ==
  /\ IsNumber(r.v) => is_plausible_battery_voltage(r.v)
  /\ \A x \in {r.chg, r.dis} : IsNumber(x) => is_plausible_battery_current(x)

max_step_wh(h) == IF MaxPower * h >= 100 THEN MaxPower * h ELSE 100

-----------------------------------------------------------------------------
Kinds == {"pv", "pv2", "inverter_out", "battery_in", "battery_out"}

NewAccumulator(wh) == [wh |-> wh, prev |-> None, age |-> 0]

\* The base handler: PV and inverter output.
PowerSample(x) ==
  IF ~IsNumber(x) THEN Skip
  ELSE IF is_plausible_power(x) THEN x ELSE Drop

\* The second PV string: unlike the base handler, no sample breaks the trapezoid.
Pv2Sample_AsBase(x) == PowerSample(x)       \* mutant: as the base handler
Pv2Sample(x) == IF PowerSample(x) = Skip THEN Drop ELSE PowerSample(x)

\* One direction of the battery.
BatterySample(i, v) ==
  IF ~IsNumber(i) \/ ~IsNumber(v) THEN Drop
  ELSE IF is_plausible_battery_current(i) /\ is_plausible_battery_voltage(v)
  THEN (i * v) \div 100
  ELSE Drop

DirectPVEnergy(r)             == PowerSample(r.pv)
DirectPV2Energy(r)            == Pv2Sample(r.pv2)
DirectInverterOutputEnergy(r) == PowerSample(r.load)
DirectBatteryInEnergy(r)      == BatterySample(r.chg, r.v)
DirectBatteryOutEnergy(r)     == BatterySample(r.dis, r.v)

Sample(k, r) ==
  CASE k = "pv"           -> DirectPVEnergy(r)
    [] k = "pv2"          -> DirectPV2Energy(r)
    [] k = "inverter_out" -> DirectInverterOutputEnergy(r)
    [] k = "battery_in"   -> DirectBatteryInEnergy(r)
    [] k = "battery_out"  -> DirectBatteryOutEnergy(r)

\* update_energy_value: a step out of bounds is dropped and breaks the trapezoid.
StepWh(a, p) == (a.age * (a.prev + p)) \div 2

\* Mutant: no lower bound.
update_energy_value_Signed(a, p) ==
  IF a.prev = None THEN [a EXCEPT !.prev = p, !.age = 0]
  ELSE [wh |-> a.wh + StepWh(a, p), prev |-> p, age |-> 0]

update_energy_value(a, p) ==
  IF a.prev = None THEN [a EXCEPT !.prev = p, !.age = 0]
  ELSE IF 0 <= StepWh(a, p) /\ StepWh(a, p) <= max_step_wh(a.age)
  THEN [wh |-> a.wh + StepWh(a, p), prev |-> p, age |-> 0]
  ELSE NewAccumulator(a.wh)

\* Time passes; it matters only while there is a power to integrate from.
Older(a, h) == IF a.prev = None THEN a ELSE [a EXCEPT !.age = @ + h]

Handle(k, a, r) ==
  LET p == Sample(k, r)
  IN  CASE p = Skip -> a
        [] p = Drop -> NewAccumulator(a.wh)
        [] OTHER    -> update_energy_value(a, p)
=============================================================================
