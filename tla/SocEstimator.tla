---------------------------- MODULE SocEstimator ----------------------------
(***************************************************************************)
(* The Home-Assistant-free state-of-charge estimator (soc_core.py): what    *)
(* each of its operations makes of its state.                               *)
(*                                                                          *)
(* Integers stand for the code's floats: voltages in 0.1 V, currents in     *)
(* 0.1 A, charge in 0.01 Ah, SoC in 0.01 %, which is the resolution the     *)
(* code rounds it to.  Times are kept as the time since the last one.       *)
(***************************************************************************)
EXTENDS Integers

CONSTANT None      \* Python's None

LiVoltage == "Lithium (Voltage)"
LiBms     == "Lithium (BMS)"
LeadAcid  == "Lead-acid"
Modes     == {LiVoltage, LiBms, LeadAcid}

\* CHEMISTRY_PARAMS, in percent.
ChargeEff(m)    == IF m = LiVoltage THEN 99 ELSE IF m = LeadAcid THEN 90 ELSE 100
DischargeEff(m) == IF m = LeadAcid THEN 95 ELSE 100
TailRate(m)     == IF m = LeadAcid THEN 2 ELSE 5

Window     == 5     \* DEFAULT_FLOAT_VOLTAGE_WINDOW_V
NoiseFloor == 15    \* DEFAULT_FLOAT_NOISE_FLOOR_A
Debounce   == 3     \* SYNC_DEBOUNCE_TICKS
Full       == 10000

Least(a, b)      == IF a <= b THEN a ELSE b
Greatest(a, b)   == IF a <= b THEN b ELSE a
Clamp(x, lo, hi) == Greatest(lo, Least(hi, x))
Magnitude(x)     == Greatest(x, -x)

\* Charge in a capacity of cap Ah, and a charge as a rounded percentage of it.
Charge(cap)       == 100 * cap
Percent(acc, cap) == (2 * Full * acc + Charge(cap)) \div (2 * Charge(cap))

\* SocEstimator.__init__; prev is prev_effective_current_a, age the time since prev_ts.
NewEstimator ==
  [cap |-> None, mode |-> LiVoltage, deadband |-> TRUE, window |-> Window,
   floor |-> NoiseFloor, acc |-> 0, ticks |-> 0, prev |-> None, age |-> 0,
   sync |-> None, soc |-> None]

\* Time passes; it matters only while there is a current to integrate from.
Age(e, h) == IF e.prev = None THEN e ELSE [e EXCEPT !.age = @ + h]

\* Mutant: the debounce survives a change of chemistry.
set_mode_Sticky(e, m) == IF m \notin Modes THEN e ELSE [e EXCEPT !.mode = m]

set_mode(e, m) ==
  IF m \notin Modes THEN e
  ELSE [e EXCEPT !.mode = m, !.ticks = IF m # e.mode THEN 0 ELSE @]

set_deadband(e, enabled, window, floor) ==
  [e EXCEPT !.deadband = enabled, !.window = Greatest(0, window),
            !.floor = Greatest(0, floor)]

\* Mutants: an edit does not rescale the charge; a capacity starts from a full battery.
set_capacity_Unscaled(e, value) ==
  IF value = None THEN [e EXCEPT !.cap = None]
  ELSE IF value <= 0 THEN [e EXCEPT !.cap = None]
  ELSE IF e.cap = None
    THEN [e EXCEPT !.cap = value,
                   !.acc = IF e.soc = None THEN Charge(value)
                           ELSE (Clamp(e.soc, 0, Full) * Charge(value)) \div Full,
                   !.soc = IF @ = None THEN Full ELSE @]
    ELSE [e EXCEPT !.cap = value]

set_capacity_Full(e, value) ==
  IF value = None THEN [e EXCEPT !.cap = None]
  ELSE IF value <= 0 THEN [e EXCEPT !.cap = None]
  ELSE [e EXCEPT !.cap = value, !.acc = Charge(value), !.soc = Full]

\* An unconfigured estimator anchors its charge to the SoC it holds, or to a full
\* battery; a configured one keeps the fraction.
set_capacity(e, value) ==
  IF value = None THEN [e EXCEPT !.cap = None]
  ELSE IF value <= 0 THEN [e EXCEPT !.cap = None]
  ELSE IF e.cap = None
    THEN [e EXCEPT !.cap = value,
                   !.acc = IF e.soc = None THEN Charge(value)
                           ELSE (Clamp(e.soc, 0, Full) * Charge(value)) \div Full,
                   !.soc = IF @ = None THEN Full ELSE @]
    ELSE LET acc == Clamp(e.acc, 0, Charge(e.cap))
         IN  [e EXCEPT !.cap = value,
                       !.acc = (acc * value) \div e.cap,
                       !.soc = Percent(acc, e.cap)]

restore(e, soc, acc, sync) == [e EXCEPT !.soc = soc, !.acc = acc, !.sync = sync]

-----------------------------------------------------------------------------
(* update: i is the signed current, v the voltage, sync and float the two   *)
(* reference voltages, bms the BMS's SoC in percent, now the wall clock.    *)

\* Drop the trapezoid's baseline, or integrate up to this tick and start from it.
Effective(e, i) == IF i >= 0 THEN (i * ChargeEff(e.mode)) \div 10
                             ELSE -((-i * 1000) \div DischargeEff(e.mode))

InFloatDeadband(e, i, v, float) ==
  /\ e.deadband /\ float # None
  /\ Magnitude(v - float) < e.window
  /\ Magnitude(i) <= e.floor

Integrated(e, i, v, float) ==
  IF InFloatDeadband(e, i, v, float) THEN [e EXCEPT !.prev = None, !.age = 0]
  ELSE [e EXCEPT !.prev = Effective(e, i), !.age = 0,
                 !.acc  = IF e.prev = None THEN @
                          ELSE @ + (e.age * (e.prev + Effective(e, i))) \div 2]

\* Snap to 100 %: at the full-charge voltage with no more than a tail current.
TailCurrent(e) == (e.cap * TailRate(e.mode)) \div 10

FullThreshold(sync, float) == IF float = None THEN sync
                              ELSE IF float > 0 THEN Least(sync, float) ELSE sync

AtFull(e, i, v, sync, float) ==
  v >= FullThreshold(sync, float) /\ Magnitude(i) <= TailCurrent(e)

Ticks(e, i, v, sync, float) ==
  IF AtFull(e, i, v, sync, float) THEN e.ticks + 1
  ELSE IF i < -TailCurrent(e) THEN 0
  ELSE Greatest(0, e.ticks - 1)

Snapped(e, i, v, sync, float, now) ==
  LET t   == Ticks(e, i, v, sync, float)
      acc == IF t >= Debounce THEN Charge(e.cap) ELSE Clamp(e.acc, 0, Charge(e.cap))
  IN  [e EXCEPT !.ticks = t, !.acc = acc,
                !.sync = IF t = Debounce THEN now ELSE @,
                !.soc = Percent(acc, e.cap)]

\* BMS mirror.
Mirrored(e, bms) ==
  [e EXCEPT !.acc = (bms * Charge(e.cap)) \div 100, !.prev = None, !.age = 0,
            !.ticks = 0, !.soc = 100 * bms]

Mirrors(e, bms) == e.mode = LiBms /\ bms # None

update(e, i, v, sync, float, bms, now) ==
  IF e.cap = None THEN [e EXCEPT !.soc = None]
  ELSE IF Mirrors(e, bms) THEN Mirrored(e, bms)
  ELSE IF sync = None THEN [e EXCEPT !.soc = None]
  ELSE Snapped(Integrated(e, i, v, float), i, v, sync, float, now)
=============================================================================
