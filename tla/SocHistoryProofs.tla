-------------------------- MODULE SocHistoryProofs --------------------------
(***************************************************************************)
(* What Telemetry promises of the state of charge over time: the last value *)
(* shown bounds what the estimator holds, so that no edit, unknown period   *)
(* or restart can make the battery look fuller than it was shown to be.     *)
(***************************************************************************)
EXTENDS TelemetrySensorProofs

-----------------------------------------------------------------------------
(* The estimator.                                                           *)

\* More charge is no smaller a percentage.
LEMMA PercentMonotone ==
  ASSUME NEW a \in Nat, NEW b \in Nat, NEW c \in Nat \ {0}, a <= b
  PROVE  Percent(a, c) <= Percent(b, c)
<1> DEFINE p == Percent(a, c)
           q == Percent(b, c)
<1>1. p \in Nat /\ 2 * (c * p) <= 200 * a + c
  BY PercentBounds
<1>2. q \in Nat /\ 200 * b + c < 2 * (c * q) + 2 * c
  BY PercentBounds
<1> HIDE DEF p, q
<1>3. ASSUME p > q PROVE FALSE
  <2>1. c * p >= c * q + c
    BY <1>1, <1>2, <1>3
  <2>2. c * p \in Nat /\ c * q \in Nat
    BY <1>1, <1>2
  <2> QED BY <1>1, <1>2, <2>1, <2>2
<1> QED BY <1>1, <1>2, <1>3 DEF p, q

\* The bound after a step: what is shown now, or else what was shown last.
Latest(native, n) == IF native = None THEN n ELSE native

\* set_capacity: the SoC it shows bounds the estimate, and is no more than the bound
\* there was, unless there was no estimate.
LEMMA CapacityBounds ==
  ASSUME NEW e \in Estimator, ChargeFits(e), NEW v \in {None} \cup Int,
         NEW n \in SocRange, Within(e, n)
  PROVE  LET x == set_capacity(e, v)
         IN  /\ x.cap = None \/ x.soc = None => Within(x, n)
             /\ x.cap # None /\ x.soc # None =>
                  /\ Within(x, x.soc)
                  /\ x.soc <= n \/ (e.cap = None /\ e.soc = None)
<1>1. CASE v = None \/ (v \in Int /\ v <= 0)
  <2> DEFINE x == [e EXCEPT !.cap = None]
  <2>1. set_capacity(e, v) = x
    BY <1>1 DEF set_capacity
  <2>2. x.cap = None /\ x.soc = e.soc
    BY DEF Estimator
  <2> HIDE DEF x
  <2> QED BY <2>1, <2>2 DEF Within
<1>2. CASE v \in Int /\ v > 0 /\ e.cap = None /\ e.soc = None
  <2> DEFINE x == [e EXCEPT !.cap = v, !.acc = Charge(v), !.soc = Full]
  <2>1. set_capacity(e, v) = x
    BY <1>2, ValueAssumption DEF set_capacity
  <2>2. v \in Nat \ {0} /\ v # None /\ Full # None
    BY <1>2, ValueAssumption DEF Full
  <2>3. x.cap = v /\ x.acc = Charge(v) /\ x.soc = Full
    BY DEF Estimator
  <2>4. Percent(Charge(v), v) = Full
    BY <2>2, PercentIs DEF Charge, Full
  <2> HIDE DEF x
  <2>5. Within(x, x.soc)
    BY <2>3, <2>4 DEF Within, Full
  <2> QED BY <1>2, <2>1, <2>2, <2>3, <2>5
<1>3. CASE v \in Int /\ v > 0 /\ e.cap = None /\ e.soc # None
  <2> DEFINE a == (Clamp(e.soc, 0, Full) * Charge(v)) \div Full
             x == [e EXCEPT !.cap = v, !.acc = a, !.soc = e.soc]
  <2>1. set_capacity(e, v) = x
    BY <1>3, ValueAssumption DEF set_capacity
  <2>2. v \in Nat \ {0} /\ v # None /\ e.soc \in SocRange
    BY <1>3, ValueAssumption DEF Estimator
  <2>3. a = (e.soc * Charge(v)) \div Full
    BY <2>2, ClampKeeps
  <2> HIDE DEF a
  <2>4. Percent(a, v) <= e.soc
    BY <2>2, <2>3, Anchored
  <2>5. x.cap = v /\ x.acc = a /\ x.soc = e.soc
    BY DEF Estimator
  <2> HIDE DEF x
  <2>6. e.soc <= n /\ e.soc <= e.soc
    BY <1>3, <2>2 DEF Within, SocRange
  <2>7. Within(x, x.soc)
    BY <2>4, <2>5, <2>6 DEF Within
  <2> QED BY <1>3, <2>1, <2>2, <2>5, <2>6, <2>7
<1>4. CASE v \in Int /\ v > 0 /\ e.cap # None
  <2> DEFINE a == Clamp(e.acc, 0, Charge(e.cap))
             b == (a * v) \div e.cap
             p == Percent(a, e.cap)
             x == [e EXCEPT !.cap = v, !.acc = b, !.soc = p]
  <2>1. set_capacity(e, v) = x
    BY <1>4, ValueAssumption DEF set_capacity
  <2>2. v \in Nat \ {0} /\ v # None /\ e.cap \in Nat \ {0} /\ e.acc \in 0..Charge(e.cap)
    BY <1>4, ValueAssumption DEF Estimator, ChargeFits
  <2>3. a = e.acc
    BY <2>2 DEF Clamp, Greatest, Least, Charge
  <2> HIDE DEF a
  <2>4. Percent(b, v) <= p
    BY <2>2, <2>3, Rescaled
  <2>5. p \in SocRange /\ p # None /\ p <= p
    BY <2>2, <2>3, PercentRange, ValueAssumption DEF SocRange
  <2>6. p <= n
    BY <1>4, <2>3 DEF Within
  <2> HIDE DEF b, p
  <2>7. x.cap = v /\ x.acc = b /\ x.soc = p
    BY DEF Estimator
  <2> HIDE DEF x
  <2>8. Within(x, x.soc)
    BY <2>4, <2>5, <2>7 DEF Within
  <2> QED BY <2>1, <2>2, <2>5, <2>6, <2>7, <2>8
<1> QED BY <1>1, <1>2, <1>3, <1>4

\* The battery was charging at the last reading that was integrated.
Charged(e) == IF e.prev = None THEN FALSE ELSE e.prev > 0

\* Without a charging current the charge does not grow.
LEMMA IntegratedFalls ==
  ASSUME NEW e \in Estimator, NEW i \in Int, NEW v \in Int, NEW float \in {None} \cup Int,
         ~(i > 0), ~Charged(e)
  PROVE  Integrated(e, i, v, float).acc <= e.acc
<1> DEFINE f == Effective(e, i)
<1>1. e.acc \in Int /\ e.age \in Nat /\ e.prev \in {None} \cup Int
  BY DEF Estimator
<1>2. f \in Int /\ f <= 0
  <2>1. CASE i = 0
    BY <2>1 DEF Effective, ChargeEff
  <2>2. CASE i < 0
    <3>1. DischargeEff(e.mode) \in {95, 100}
      BY DEF DischargeEff
    <3>2. (-i * 1000) \div DischargeEff(e.mode) \in Nat
      BY <2>2, <3>1
    <3>3. f = -((-i * 1000) \div DischargeEff(e.mode))
      BY <2>2 DEF Effective
    <3> QED BY <3>2, <3>3
  <2> QED BY <2>1, <2>2
<1> HIDE DEF f
<1>3. CASE InFloatDeadband(e, i, v, float)
  <2>1. Integrated(e, i, v, float).acc = e.acc
    BY <1>3 DEF Integrated, Estimator
  <2> QED BY <1>1, <2>1
<1>4. CASE ~InFloatDeadband(e, i, v, float)
  <2> DEFINE b == IF e.prev = None THEN e.acc ELSE e.acc + (e.age * (e.prev + f)) \div 2
             x == [e EXCEPT !.prev = f, !.age = 0, !.acc = b]
  <2>1. Integrated(e, i, v, float) = x
    BY <1>4 DEF Integrated, f
  <2>2. b <= e.acc
    <3>1. CASE e.prev = None
      BY <1>1, <3>1
    <3>2. CASE e.prev # None
      <4>1. e.prev \in Int /\ e.prev <= 0
        BY <1>1, <3>2 DEF Charged
      <4>2. e.prev + f \in Int /\ e.prev + f <= 0
        BY <1>2, <4>1
      <4>3. e.age * (e.prev + f) \in Int /\ e.age * (e.prev + f) <= 0
        BY <1>1, <4>2
      <4>4. (e.age * (e.prev + f)) \div 2 <= 0 /\ (e.age * (e.prev + f)) \div 2 \in Int
        BY <4>3
      <4> QED BY <1>1, <3>2, <4>4
    <3> QED BY <3>1, <3>2
  <2> HIDE DEF b
  <2>3. x.acc = b
    BY DEF Estimator
  <2> QED BY <2>1, <2>2, <2>3
<1> QED BY <1>3, <1>4

\* What makes an update raise the SoC.
Raises(e, x, i, bms) == i > 0 \/ Charged(e) \/ x.ticks >= Debounce \/ Mirrors(e, bms)

\* update: the SoC it shows bounds the estimate, and is no more than the bound there was
\* without a reason.
LEMMA UpdateBounds ==
  ASSUME NEW e, NEW i, NEW v, NEW sync, NEW float, NEW bms, NEW now,
         Inputs(e, i, v, float, bms, now), NEW n \in SocRange, Within(e, n)
  PROVE  LET x == update(e, i, v, sync, float, bms, now)
         IN  /\ Within(x, Latest(x.soc, n))
             /\ x.soc # None => x.soc <= n \/ Raises(e, x, i, bms)
<1> USE DEF Inputs
<1> DEFINE x == update(e, i, v, sync, float, bms, now)
<1>1. CASE e.cap = None \/ (~Mirrors(e, bms) /\ sync = None)
  <2> DEFINE y == [e EXCEPT !.soc = None]
  <2>1. x = y
    BY <1>1 DEF update
  <2>2. y.cap = e.cap /\ y.acc = e.acc /\ y.soc = None
    BY DEF Estimator
  <2> HIDE DEF y
  <2>3. Within(y, n)
    BY <2>2 DEF Within
  <2> QED BY <2>1, <2>2, <2>3 DEF Latest
<1>2. CASE e.cap # None /\ Mirrors(e, bms)
  <2>1. x = Mirrored(e, bms) /\ bms \in 0..100
    BY <1>2 DEF update, Mirrors
  <2>2. x \in Estimator /\ x.cap = e.cap /\ x.soc # None /\ Percent(x.acc, e.cap) = x.soc
    BY <1>2, <2>1, MirroredFits
  <2> HIDE DEF x
  <2>3. x.soc \in Int /\ x.soc <= x.soc
    BY <2>2 DEF Estimator, SocRange
  <2>4. Within(x, x.soc)
    BY <2>2, <2>3 DEF Within
  <2> QED BY <1>2, <2>2, <2>4 DEF Latest, Raises, x
<1>3. CASE e.cap # None /\ ~Mirrors(e, bms) /\ sync # None
  <2> DEFINE d == Integrated(e, i, v, float)
  <2>1. x = Snapped(d, i, v, sync, float, now)
    BY <1>3 DEF update
  <2>2. d \in Estimator /\ d.cap = e.cap
    BY IntegratedKeeps
  <2>3. ~(i > 0) /\ ~Charged(e) => d.acc <= e.acc
    BY IntegratedFalls
  <2> HIDE DEF d
  <2>4. /\ x \in Estimator /\ ChargeFits(x) /\ x.cap = d.cap /\ x.soc # None
        /\ x.soc = Percent(x.acc, d.cap)
        /\ x.ticks < Debounce => x.acc = Clamp(d.acc, 0, Charge(d.cap))
    BY <1>3, <2>1, <2>2, SnappedFits
  <2> HIDE DEF x
  <2>5. x.soc \in Int /\ x.soc <= x.soc /\ x.ticks \in Nat
    BY <2>4 DEF Estimator, SocRange
  <2>6. Within(x, x.soc)
    BY <2>4, <2>5 DEF Within
  <2>7. ASSUME ~Raises(e, x, i, bms) PROVE x.soc <= n
    <3>1. ~(i > 0) /\ ~Charged(e) /\ x.ticks < Debounce
      BY <2>5, <2>7 DEF Raises, Debounce
    <3>2. d.acc <= e.acc /\ x.acc = Clamp(d.acc, 0, Charge(d.cap))
      BY <2>3, <2>4, <3>1
    <3>3. e.cap \in Nat \ {0} /\ e.acc \in 0..Charge(e.cap) /\ d.acc \in Int
      BY <1>3, <2>2 DEF Estimator, ChargeFits
    <3>4. x.acc \in Nat /\ e.acc \in Nat /\ x.acc <= e.acc
      BY <2>2, <3>2, <3>3 DEF Clamp, Greatest, Least, Charge
    <3>5. Percent(x.acc, e.cap) <= Percent(e.acc, e.cap)
      BY <3>3, <3>4, PercentMonotone
    <3>6. Percent(e.acc, e.cap) <= n /\ Percent(e.acc, e.cap) \in SocRange
      BY <1>3, <3>3, PercentRange DEF Within
    <3>7. x.soc = Percent(x.acc, e.cap)
      BY <2>2, <2>4
    <3> HIDE DEF Percent
    <3> QED BY <2>5, <3>5, <3>6, <3>7 DEF SocRange
  <2> QED BY <2>4, <2>6, <2>7 DEF Latest, x
<1> QED BY <1>1, <1>2, <1>3

-----------------------------------------------------------------------------
(* The SoC sensor and its listeners.                                        *)

\* The sensor holds no more than n, and shows n if it shows anything.
Bounded(s, n) ==
  /\ SocOK(s) /\ n \in SocRange /\ Within(s.est, n)
  /\ s.native # None => n = s.native

\* A step from s to t: what is shown now bounds the sensor, and is no more than the
\* bound there was, unless there was no estimate.
Settles(s, t, n) ==
  /\ Bounded(t, Latest(t.native, n))
  /\ t.native # None => t.native <= n \/ (s.est.cap = None /\ s.est.soc = None)

\* The estimate and the value stay.
Same(s, t) ==
  /\ SocOK(t) /\ t.native = s.native
  /\ t.est.cap = s.est.cap /\ t.est.acc = s.est.acc /\ t.est.soc = s.est.soc

\* A value that stays is bounded as before.
LEMMA SameSettles ==
  ASSUME NEW s, NEW t, NEW n, Bounded(s, n), Same(s, t)
  PROVE  Settles(s, t, n)
<1>1. Within(t.est, n)
  BY DEF Bounded, Same, Within
<1>2. Latest(t.native, n) = n
  BY DEF Latest, Bounded, Same
<1>3. t.native # None => t.native <= n
  BY DEF Bounded, Same, SocRange
<1>4. Bounded(t, n)
  BY <1>1 DEF Bounded, Same
<1> QED BY <1>2, <1>3, <1>4 DEF Settles

\* It may stay after the step as well.
LEMMA SettlesThenSame ==
  ASSUME NEW s, NEW t, NEW u, NEW n, Settles(s, t, n), Same(t, u)
  PROVE  Settles(s, u, n)
<1> DEFINE m == Latest(t.native, n)
<1>1. Bounded(t, m) /\ u.native = t.native
  BY DEF Settles, Same
<1> HIDE DEF m
<1>2. Within(u.est, m)
  BY <1>1 DEF Bounded, Same, Within
<1>3. Bounded(u, m)
  BY <1>1, <1>2 DEF Bounded, Same
<1>4. Latest(u.native, n) = m
  BY <1>1 DEF m
<1> QED BY <1>1, <1>3, <1>4 DEF Settles

\* The number of the capacity.
LEMMA CapacitySettles ==
  ASSUME NEW s, NEW n, Bounded(s, n), NEW v \in {None} \cup Int
  PROVE  Settles(s, _update_battery_capacity_from_state(s, v), n)
<1> DEFINE e == set_capacity(s.est, v)
           m == IF e.cap # None /\ e.soc # None THEN e.soc ELSE s.native
           t == [s EXCEPT !.est = e, !.native = m]
<1>1. _update_battery_capacity_from_state(s, v) = t
  BY DEF _update_battery_capacity_from_state
<1>2. /\ s \in SocSensor /\ s.est \in Estimator /\ ChargeFits(s.est) /\ n \in SocRange
      /\ Within(s.est, n) /\ SocOK(s)
  BY DEF Bounded, SocOK, SocSensor
<1>3. e \in Estimator
  BY <1>2, SetCapacity
<1>4. /\ e.cap = None \/ e.soc = None => Within(e, n)
      /\ e.cap # None /\ e.soc # None =>
           /\ Within(e, e.soc)
           /\ e.soc <= n \/ (s.est.cap = None /\ s.est.soc = None)
  BY <1>2, CapacityBounds
<1>5. SocOK(t)
  BY <1>1, <1>2, CapacityListener DEF Follows
<1> HIDE DEF e
<1>6. t.est = e /\ t.native = m
  BY <1>2 DEF SocSensor
<1> HIDE DEF t
<1>7. CASE e.cap # None /\ e.soc # None
  <2>1. m = e.soc /\ e.soc \in SocRange /\ Latest(t.native, n) = e.soc
    BY <1>3, <1>6, <1>7 DEF Estimator, Latest
  <2> QED BY <1>1, <1>4, <1>5, <1>6, <1>7, <2>1 DEF Settles, Bounded
<1>8. CASE e.cap = None \/ e.soc = None
  <2>1. m = s.native /\ Latest(t.native, n) = n /\ (t.native # None => t.native <= n)
    BY <1>2, <1>6, <1>8 DEF Latest, Bounded, SocRange
  <2>2. Bounded(t, n)
    BY <1>2, <1>4, <1>5, <1>6, <1>8, <2>1 DEF Bounded
  <2> QED BY <1>1, <2>1, <2>2 DEF Settles
<1> QED BY <1>7, <1>8

\* The number of the sync voltage.
LEMMA SyncSame ==
  ASSUME NEW s, SocOK(s), NEW v \in Int
  PROVE  Same(s, _update_sync_voltage_from_state(s, v))
<1> DEFINE g == Greatest(0, v)
           t == [s EXCEPT !.override = g]
<1>1. _update_sync_voltage_from_state(s, v) = t
  BY DEF _update_sync_voltage_from_state
<1>2. SocOK(t)
  BY <1>1, SyncListener DEF Follows
<1>3. t.est = s.est /\ t.native = s.native
  BY DEF SocOK, SocSensor
<1> QED BY <1>1, <1>2, <1>3 DEF Same

\* The select of the chemistry.
LEMMA ModeSame ==
  ASSUME NEW s, SocOK(s), NEW m \in Modes
  PROVE  Same(s, _update_battery_mode_from_state(s, m))
<1> DEFINE e == set_mode(s.est, m)
           t == [s EXCEPT !.est = e]
<1>1. _update_battery_mode_from_state(s, m) = t
  BY DEF _update_battery_mode_from_state
<1>2. SocOK(t)
  BY <1>1, ModeListener DEF Follows
<1>3. s \in SocSensor /\ s.est \in Estimator
  BY DEF SocOK, SocSensor
<1>4. e.cap = s.est.cap /\ e.acc = s.est.acc /\ e.soc = s.est.soc
  BY <1>3, SetMode
<1>5. t.est = e /\ t.native = s.native
  BY <1>3 DEF SocSensor
<1> QED BY <1>1, <1>2, <1>4, <1>5 DEF Same

\* The switch and the numbers of the deadband.
LEMMA DeadbandSame ==
  ASSUME NEW s, SocOK(s), NEW c \in Config, NEW a
  PROVE  Same(s, _refresh_float_deadband_config(s, c, a))
<1> DEFINE d == Seen("deadband", c, a)
           w == Seen("window", c, a)
           f == Seen("floor", c, a)
           e == set_deadband(s.est, d, w, f)
           t == [s EXCEPT !.est = e]
<1>1. _refresh_float_deadband_config(s, c, a) = t
  BY DEF _refresh_float_deadband_config
<1>2. SocOK(t)
  BY <1>1, DeadbandListener DEF Follows
<1>3. s \in SocSensor /\ s.est \in Estimator
  BY DEF SocOK, SocSensor
<1>4. d \in BOOLEAN
  BY DEF Seen, Config, Defaults, PlatformOf
<1>5. w \in Int /\ f \in Int
  BY DEF Seen, Config, Defaults, PlatformOf, Window, NoiseFloor
<1> HIDE DEF d, w, f
<1>6. e.cap = s.est.cap /\ e.acc = s.est.acc /\ e.soc = s.est.soc
  BY <1>3, <1>4, <1>5, SetDeadband
<1> HIDE DEF e
<1>7. t.est = e /\ t.native = s.native
  BY <1>3 DEF SocSensor
<1> QED BY <1>1, <1>2, <1>6, <1>7 DEF Same

\* All entities but the capacity leave the estimate alone.
LEMMA ListenerSame ==
  ASSUME NEW s, SocOK(s), NEW c \in Config, NEW a, NEW key \in Keys \ {"cap"}
  PROVE  Same(s, Listener(s, key, c, a))
<1>1. c.override \in Int /\ c.mode \in Modes
  BY DEF Config
<1>2. CASE key = "override"
  BY <1>1, <1>2, SyncSame DEF Listener
<1>3. CASE key = "mode"
  BY <1>1, <1>3, ModeSame DEF Listener
<1>4. CASE key = "target"
  BY <1>4 DEF Listener, Same
<1>5. CASE key \in {"window", "floor", "deadband"}
  <2>1. Listener(s, key, c, a) = _refresh_float_deadband_config(s, c, a)
    BY <1>5 DEF Listener
  <2> QED BY <2>1, DeadbandSame
<1> QED BY <1>2, <1>3, <1>4, <1>5 DEF Keys

\* Whatever entity changes, its listener settles.
LEMMA ListenerSettles ==
  ASSUME NEW s, NEW n, Bounded(s, n), NEW c \in Config, NEW a, NEW key \in Keys
  PROVE  Settles(s, Listener(s, key, c, a), n)
<1>1. CASE key = "cap"
  <2>1. c.cap \in {None} \cup Int
    BY DEF Config
  <2> QED BY <1>1, <2>1, CapacitySettles DEF Listener
<1>2. CASE key # "cap"
  <2>1. Same(s, Listener(s, key, c, a))
    BY <1>2, ListenerSame DEF Bounded
  <2> QED BY <2>1, SameSettles
<1> QED BY <1>1, <1>2

\* The entities of a platform write their first states.
LEMMA AnnouncedSettles ==
  ASSUME NEW s, NEW n, Bounded(s, n), NEW c \in Config, NEW a,
         NEW p \in {"number", "select", "switch"}
  PROVE  Settles(s, Announced(s, p, c, a), n)
<1>1. CASE p = "number"
  <2> DEFINE t == Listener(s, "cap", c, a)
             u == Listener(t, "override", c, a)
             w == Listener(u, "window", c, a)
  <2>1. Announced(s, p, c, a) = w
    BY <1>1 DEF Announced
  <2>2. Settles(s, t, n)
    BY ListenerSettles DEF Keys
  <2>3. SocOK(t)
    BY <2>2 DEF Settles, Bounded
  <2> HIDE DEF t
  <2>4. Same(t, u)
    BY <2>3, ListenerSame DEF Keys
  <2>5. SocOK(u)
    BY <2>4 DEF Same
  <2> HIDE DEF u
  <2>6. Same(u, w)
    BY <2>5, ListenerSame DEF Keys
  <2> HIDE DEF w
  <2>7. Settles(s, u, n)
    BY <2>2, <2>4, SettlesThenSame
  <2>8. Settles(s, w, n)
    BY <2>6, <2>7, SettlesThenSame
  <2> QED BY <2>1, <2>8
<1>2. CASE p = "select"
  BY <1>2, ListenerSettles DEF Announced, Keys
<1>3. CASE p = "switch"
  BY <1>3, ListenerSettles DEF Announced, Keys
<1> QED BY <1>1, <1>2, <1>3

\* A sensor that is restored shows what was stored, or less, and is bounded by it.
LEMMA RestoredBounded ==
  ASSUME NEW value \in {None} \cup SocRange, NEW c \in Config, NEW a
  PROVE  LET t == Restored(value, c, a)
         IN  /\ Bounded(t, t.native) /\ t.native # None
             /\ value # None => t.native <= value
<1> DEFINE v  == IF value = None THEN Full ELSE value
           e  == restore(NewSoc.est, v, 0, None)
           s1 == [NewSoc EXCEPT !.est = e, !.native = v]
           s2 == _update_battery_capacity_from_state(s1, Seen("cap", c, a))
           s3 == _update_sync_voltage_from_state(s2, Seen("override", c, a))
           s4 == _update_battery_mode_from_state(s3, Seen("mode", c, a))
           s5 == _refresh_float_deadband_config(s4, c, a)
<1>1. Restored(value, c, a) = s5
  BY DEF Restored
<1>2. v \in SocRange /\ v # None /\ (value # None => v = value)
  BY ValueAssumption DEF SocRange, Full
<1> HIDE DEF v
<1>3. NewSoc \in SocSensor /\ NewSoc.est \in Estimator /\ NewSoc.est.cap = None
  BY NewSocOK DEF SocOK, SocSensor
<1>4. e \in Estimator /\ e.cap = None
  BY <1>2, <1>3, RestoreKeeps
<1>5. e.soc = v
  BY <1>3 DEF restore, Estimator
<1> HIDE DEF e
<1>6. s1 \in SocSensor /\ s1.est = e /\ s1.native = v
  BY <1>2, <1>3, <1>4 DEF SocSensor
<1> HIDE DEF s1
<1>7. Bounded(s1, v)
  <2>1. Within(e, v)
    BY <1>2, <1>4, <1>5 DEF Within, SocRange
  <2>2. SocOK(s1)
    BY <1>4, <1>6 DEF SocOK, ChargeFits
  <2> QED BY <1>2, <1>6, <2>1, <2>2 DEF Bounded
<1>8. /\ Seen("cap", c, a) \in {None} \cup Int /\ Seen("override", c, a) \in Int
      /\ Seen("mode", c, a) \in Modes
  BY DEF Seen, Config, Defaults, PlatformOf, Modes
<1>9. Settles(s1, s2, v)
  BY <1>7, <1>8, CapacitySettles
<1> HIDE DEF s2
<1>10. SocOK(s2)
  BY <1>9 DEF Settles, Bounded
<1>11. Same(s2, s3) /\ SocOK(s3)
  BY <1>8, <1>10, SyncSame DEF Same
<1> HIDE DEF s3
<1>12. Same(s3, s4) /\ SocOK(s4)
  BY <1>8, <1>11, ModeSame DEF Same
<1> HIDE DEF s4
<1>13. Same(s4, s5)
  BY <1>12, DeadbandSame
<1> HIDE DEF s5
<1>14. Settles(s1, s3, v)
  BY <1>9, <1>11, SettlesThenSame
<1>15. Settles(s1, s4, v)
  BY <1>12, <1>14, SettlesThenSame
<1>16. Settles(s1, s5, v)
  BY <1>13, <1>15, SettlesThenSame
<1>17. s5.native # None
  BY <1>1, RestoredOK
<1>18. Latest(s5.native, v) = s5.native /\ s1.est.soc # None
  BY <1>2, <1>5, <1>6, <1>17 DEF Latest
<1> QED BY <1>1, <1>2, <1>16, <1>17, <1>18 DEF Settles

-----------------------------------------------------------------------------
(* A published reading.                                                     *)

\* Time passes.
LEMMA AgedSame ==
  ASSUME NEW s, SocOK(s)
  PROVE  Same(s, Aged(s)) /\ Aged(s).override = s.override /\ Aged(s).est = Age(s.est, 1)
<1> DEFINE e == Age(s.est, 1)
           t == [s EXCEPT !.est = e]
<1>1. s \in SocSensor /\ s.est \in Estimator
  BY DEF SocOK, SocSensor
<1>2. e \in Estimator /\ e.cap = s.est.cap /\ e.acc = s.est.acc /\ e.soc = s.est.soc
  BY <1>1, AgeKeeps
<1>3. Aged(s) = t /\ SocOK(Aged(s))
  BY AgedKeeps DEF Aged
<1> HIDE DEF e
<1>4. t.est = e /\ t.native = s.native /\ t.override = s.override
  BY <1>1, <1>2 DEF SocSensor
<1> QED BY <1>2, <1>3, <1>4 DEF Same, e

\* What a reading may raise the SoC for.
Reason(s, t, r) ==
  \/ Field(r.chg) > Field(r.dis) \/ Charged(s.est)
  \/ t.est.ticks >= Debounce
  \/ s.est.mode = LiBms /\ r.bms # None

\* The SoC sensor's handler: what is shown now bounds the estimate, and is no more than
\* the bound there was without a reason.
LEMMA HandleSocBounds ==
  ASSUME NEW s, NEW n, Bounded(s, n), NEW r \in Reading, NEW now \in Nat
  PROVE  LET t == HandleSoc(Aged(s), r, now)
         IN  /\ Within(t.est, Latest(t.native, n))
             /\ t.native # None => t.native <= n \/ Reason(s, t, r)
<1> DEFINE a == Aged(s)
           e == Age(s.est, 1)
           t == HandleSoc(a, r, now)
           G == /\ Within(t.est, Latest(t.native, n))
                /\ t.native # None => t.native <= n \/ Reason(s, t, r)
<1>1. s \in SocSensor /\ s.est \in Estimator /\ ChargeFits(s.est) /\ SocOK(s) /\ n \in SocRange
  BY DEF Bounded, SocOK, SocSensor
<1>2. Settles(s, a, n)
  BY <1>1, AgedSame, SameSettles
<1>3. /\ SocOK(a) /\ a.est = e /\ a.native = s.native /\ a.override = s.override
      /\ e.cap = s.est.cap /\ e.acc = s.est.acc /\ e.soc = s.est.soc
  BY <1>1, AgedSame DEF Same
<1>4. e \in Estimator /\ e.mode = s.est.mode /\ e.prev = s.est.prev
  BY <1>1, AgeKeeps
<1>5. Within(e, n) /\ ChargeFits(e) /\ a \in SocSensor
  BY <1>1, <1>3 DEF Bounded, Within, ChargeFits, SocOK
<1> HIDE DEF a, e
<1>6. ASSUME IsUsable(r) PROVE G
  <2> DEFINE i    == Field(r.chg) - Field(r.dis)
             sync == get_full_charge_sync_voltage(a, r)
             flt  == Positive(r.float)
             bms  == _read_bms_soc(a, r)
             w    == r.v
             x    == update(e, i, w, sync, flt, bms, now)
             y    == [a EXCEPT !.est = x, !.native = x.soc]
  <2>1. t = y
    BY <1>3, <1>6 DEF HandleSoc, update_soc
  <2>2. i \in Int /\ w \in Int /\ (i > 0 => Field(r.chg) > Field(r.dis))
    BY <1>6, UsableReading
  <2>3. flt \in {None} \cup Int
    BY PositiveType DEF Reading
  <2>4. bms \in {None} \cup (0..100)
    BY BmsType
  <2>5. Mirrors(e, bms) => s.est.mode = LiBms /\ r.bms # None
    BY <1>3, <1>4, ValueAssumption DEF Mirrors, _read_bms_soc, IsNumber
  <2>6. Inputs(e, i, w, flt, bms, now)
    BY <1>4, <1>5, <2>2, <2>3, <2>4 DEF Inputs
  <2> HIDE DEF i, sync, flt, bms, w, x
  <2>7. Within(x, Latest(x.soc, n))
    BY <1>1, <1>5, <2>6, UpdateBounds DEF x
  <2>8. x.soc # None => x.soc <= n \/ Raises(e, x, i, bms)
    BY <1>1, <1>5, <2>6, UpdateBounds DEF x
  <2>9. y.est = x /\ y.native = x.soc
    BY <1>5 DEF SocSensor
  <2> HIDE DEF y
  <2>10. Charged(e) => Charged(s.est)
    BY <1>4 DEF Charged
  <2>11. Raises(e, x, i, bms) => Reason(s, y, r)
    BY <2>2, <2>5, <2>9, <2>10 DEF Raises, Reason
  <2> QED BY <2>1, <2>7, <2>8, <2>9, <2>11
<1>7. ASSUME ~IsUsable(r) /\ IsReadable(r) PROVE G
  <2>1. t = a
    BY <1>7 DEF HandleSoc
  <2>2. Latest(a.native, n) = n /\ (a.native # None => a.native <= n)
    BY <1>1, <1>3 DEF Latest, Bounded, SocRange
  <2> QED BY <1>3, <1>5, <2>1, <2>2
<1>8. ASSUME ~IsUsable(r) /\ ~IsReadable(r) PROVE G
  <2>1. t = [a EXCEPT !.native = None]
    BY <1>8 DEF HandleSoc
  <2>2. t.est = e /\ t.native = None
    BY <1>3, <1>5, <2>1 DEF SocSensor
  <2> QED BY <1>5, <2>2 DEF Latest
<1> QED BY <1>6, <1>7, <1>8 DEF a

-----------------------------------------------------------------------------
(* The steps.                                                               *)

\* The history by sensor.
LEMMA ByBound ==
  ASSUME SensorInv
  PROVE  /\ SocOK(soc) /\ conf \in Config /\ saved.soc \in {None} \cup SocRange
         /\ clock \in Nat /\ shown \in {None} \cup SocRange
         /\ "sensor" \notin added => soc = NewSoc
         /\ ShownBounds /\ "sensor" \in added => shown # None /\ Bounded(soc, shown)
<1>1. /\ SocOK(soc) /\ conf \in Config /\ saved.soc \in {None} \cup SocRange
      /\ clock \in Nat /\ shown \in {None} \cup SocRange
      /\ "sensor" \notin added => soc = NewSoc
  BY BySensor DEF SocAgrees, RestHolds, Store
<1> QED BY <1>1 DEF ShownBounds, Bounded

\* A sensor that is not there shows nothing.
LEMMA NewSocUnknown == NewSoc.native = None
BY DEF NewSoc

\* The sensor is there and settles.
LEMMA SettledStep ==
  ASSUME SensorInv, ShownBounds, "sensor" \in added, "sensor" \in added',
         Settles(soc, soc', shown), shown' = Shown(soc'.native)
  PROVE  ShownBounds' /\ Explained
<1>1. shown # None /\ shown' = Latest(soc'.native, shown)
  BY ByBound DEF Shown, Latest
<1>2. Bounded(soc', shown') /\ shown' # None
  BY <1>1, ValueAssumption DEF Settles, Bounded, SocRange
<1>3. ShownBounds'
  BY <1>1, <1>2 DEF ShownBounds, Bounded
<1>4. Explained
  BY <1>1 DEF Settles, Explained
<1> QED BY <1>3, <1>4

\* The sensor is not there, before or after.
LEMMA AbsentStep ==
  ASSUME SensorInv, ShownBounds, "sensor" \notin added, "sensor" \notin added',
         soc' = NewSoc, shown' = shown, saved'.soc = saved.soc
  PROVE  ShownBounds' /\ Explained
BY NewSocUnknown DEF ShownBounds, Explained

\* A step that leaves the sensor and what is shown alone.
LEMMA StillStep ==
  ASSUME SensorInv, ShownBounds, UNCHANGED <<soc, shown, added>>,
         "sensor" \notin added => saved'.soc = saved.soc
  PROVE  ShownBounds' /\ Explained
<1>1. CASE "sensor" \in added
  <2>1. Bounded(soc, shown) /\ shown # None
    BY <1>1, ByBound
  <2>2. soc.native # None => soc.native <= shown
    BY <2>1 DEF Bounded, SocRange
  <2> QED BY <1>1, <2>1, <2>2 DEF ShownBounds, Explained
<1>2. CASE "sensor" \notin added
  <2>1. soc = NewSoc
    BY <1>2, ByBound
  <2> QED BY <1>2, <2>1, AbsentStep
<1> QED BY <1>1, <1>2

\* A cycle ends.
LEMMA PublishBounds ==
  ASSUME SensorInv, ShownBounds, NEW r \in Reading, NEW how, Publish(r, how)
  PROVE  ShownBounds' /\ Explained
<1>1. /\ known' = [r |-> r, how |-> how] /\ clock' = clock + 1
      /\ UNCHANGED <<conf, added, saved>> /\ shown' = Shown(soc'.native)
      /\ soc' = IF Reaches(r) THEN HandleSoc(Aged(soc), r, clock + 1) ELSE Aged(soc)
  BY DEF Publish
<1>2. SocOK(soc) /\ clock \in Nat /\ clock' # clock /\ clock + 1 \in Nat
  BY <1>1, ByBound
<1>3. CASE Reaches(r)
  <2>1. "sensor" \in added
    BY <1>3 DEF Reaches
  <2>2. shown # None /\ Bounded(soc, shown) /\ shown \in SocRange
    BY <2>1, ByBound DEF Bounded
  <2>3. soc' = HandleSoc(Aged(soc), r, clock + 1)
    BY <1>1, <1>3
  <2>4. /\ Within(soc'.est, Latest(soc'.native, shown))
        /\ soc'.native # None => soc'.native <= shown \/ Reason(soc, soc', r)
    BY <1>2, <2>2, <2>3, HandleSocBounds
  <2>5. shown' = Latest(soc'.native, shown)
    BY <1>1 DEF Shown, Latest
  <2>6. ShownBounds'
    BY <1>1, <2>1, <2>2, <2>4, <2>5 DEF ShownBounds, Latest
  <2>7. known'.r = r
    BY <1>1
  <2>8. Charged(soc.est) => Charging
    BY DEF Charged, Charging
  <2>9. Field(r.chg) > Field(r.dis) => Charging
    BY <2>7 DEF Charging
  <2>10. Explained
    BY <1>2, <2>4, <2>7, <2>8, <2>9 DEF Explained, Reason
  <2> QED BY <2>6, <2>10
<1>4. CASE ~Reaches(r) /\ "sensor" \in added
  <2>1. Bounded(soc, shown)
    BY <1>4, ByBound
  <2>2. soc' = Aged(soc)
    BY <1>1, <1>4
  <2>3. Settles(soc, soc', shown)
    BY <1>2, <2>1, <2>2, AgedSame, SameSettles
  <2> QED BY <1>1, <1>4, <2>3, SettledStep
<1>5. CASE ~Reaches(r) /\ "sensor" \notin added
  <2>1. soc' = NewSoc
    BY <1>1, <1>5, ByBound, NewSocStays
  <2>2. shown' = shown
    BY <1>1, <2>1, NewSocUnknown DEF Shown
  <2> QED BY <1>1, <1>5, <2>1, <2>2, AbsentStep
<1> QED BY <1>3, <1>4, <1>5

\* The user changes a configuration entity.
LEMMA ChangedBounds ==
  ASSUME SensorInv, ShownBounds, NEW key \in Keys, NEW value, Changed(key, value),
         conf' \in Config
  PROVE  ShownBounds' /\ Explained
<1>1. /\ soc' = IF "sensor" \in added THEN Listener(soc, key, conf', added) ELSE soc
      /\ shown' = Shown(soc'.native) /\ UNCHANGED <<added, saved>>
  BY DEF Changed
<1>2. CASE "sensor" \in added
  <2>1. Bounded(soc, shown)
    BY <1>2, ByBound
  <2>2. Settles(soc, soc', shown)
    BY <1>1, <1>2, <2>1, ListenerSettles
  <2> QED BY <1>1, <1>2, <2>2, SettledStep
<1>3. CASE "sensor" \notin added
  <2>1. soc' = NewSoc
    BY <1>1, <1>3, ByBound
  <2>2. shown' = shown
    BY <1>1, <2>1, NewSocUnknown DEF Shown
  <2> QED BY <1>1, <1>3, <2>1, <2>2, AbsentStep
<1> QED BY <1>2, <1>3

\* The three ways to change one.
LEMMA EntityBounds ==
  ASSUME SensorInv, ShownBounds, SensorInv',
         \/ \E e \in Edits : async_set_native_value(e.key, e.value)
         \/ \E option \in Options : async_select_option(option)
         \/ \E on \in BOOLEAN : async_turn(on)
  PROVE  ShownBounds' /\ Explained
<1>1. conf' \in Config
  BY DEF SensorInv, SensorTypeOK
<1>2. ASSUME NEW e \in Edits, async_set_native_value(e.key, e.value)
      PROVE  ShownBounds' /\ Explained
  <2> DEFINE key   == e.key
             value == e.value
  <2>1. key \in Keys
    BY DataAssumption DEF Keys
  <2>2. Changed(key, value)
    BY <1>2 DEF async_set_native_value
  <2> HIDE DEF key, value
  <2> QED BY <1>1, <2>1, <2>2, ChangedBounds
<1>3. ASSUME NEW option \in Options, async_select_option(option)
      PROVE  ShownBounds' /\ Explained
  <2>1. Changed("mode", option)
    BY <1>3 DEF async_select_option
  <2> QED BY <1>1, <2>1, ChangedBounds DEF Keys
<1>4. ASSUME NEW on \in BOOLEAN, async_turn(on)
      PROVE  ShownBounds' /\ Explained
  <2>1. Changed("deadband", on)
    BY <1>4 DEF async_turn
  <2> QED BY <1>1, <2>1, ChangedBounds DEF Keys
<1> QED BY <1>2, <1>3, <1>4

\* The periodic save.
LEMMA DumpBounds ==
  ASSUME SensorInv, ShownBounds, Dump
  PROVE  ShownBounds' /\ Explained
<1>1. saved' = Snapshot /\ UNCHANGED <<soc, shown, added>>
  BY DEF Dump, sensorVars, historyVars
<1>2. "sensor" \notin added => saved'.soc = saved.soc
  BY <1>1 DEF Snapshot
<1> QED BY <1>1, <1>2, StillStep

\* Home Assistant stops.
LEMMA RestartBounds ==
  ASSUME SensorInv, ShownBounds, NEW orderly \in BOOLEAN, Restart(orderly)
  PROVE  ShownBounds' /\ Explained
<1>1. soc' = NewSoc /\ added' = {} /\ shown' = saved'.soc
  BY DEF Restart
<1> QED BY <1>1, NewSocUnknown DEF ShownBounds, Explained

\* The sensors are added: the value that was stored is what was shown.
LEMMA AddSensorsBounds ==
  ASSUME SensorInv, ShownBounds, AddSensors
  PROVE  ShownBounds' /\ Explained
<1>1. /\ "sensor" \notin added /\ added' = added \cup {"sensor"}
      /\ soc' = Restored(saved.soc, conf, added) /\ shown' = Shown(soc'.native)
  BY DEF AddSensors
<1>2. /\ Bounded(soc', soc'.native) /\ soc'.native # None
      /\ saved.soc # None => soc'.native <= saved.soc
  BY <1>1, ByBound, RestoredBounded
<1>3. shown' = soc'.native /\ shown = saved.soc
  BY <1>1, <1>2 DEF Shown, ShownBounds
<1>4. ShownBounds'
  BY <1>1, <1>2, <1>3 DEF ShownBounds, Bounded
<1>5. Explained
  BY <1>2, <1>3 DEF Explained
<1> QED BY <1>4, <1>5

\* The entities of another platform are added.
LEMMA AddedBounds ==
  ASSUME SensorInv, ShownBounds, SensorInv', NEW p \in {"number", "select", "switch"}, Added(p)
  PROVE  ShownBounds' /\ Explained
<1>1. /\ added' = added \cup {p} /\ shown' = Shown(soc'.native) /\ saved' = saved
      /\ soc' = IF "sensor" \in added THEN Announced(soc, p, conf', added') ELSE soc
  BY DEF Added
<1>2. conf' \in Config
  BY DEF SensorInv, SensorTypeOK
<1>3. CASE "sensor" \in added
  <2>1. Bounded(soc, shown)
    BY <1>3, ByBound
  <2>2. Settles(soc, soc', shown)
    BY <1>1, <1>2, <1>3, <2>1, AnnouncedSettles
  <2> QED BY <1>1, <1>3, <2>2, SettledStep
<1>4. CASE "sensor" \notin added
  <2>1. soc' = NewSoc
    BY <1>1, <1>4, ByBound
  <2>2. shown' = shown
    BY <1>1, <2>1, NewSocUnknown DEF Shown
  <2> QED BY <1>1, <1>4, <2>1, <2>2, AbsentStep
<1> QED BY <1>3, <1>4

\* The coordinator's verdict on an answer.
LEMMA VerdictBounds ==
  ASSUME SensorInv, ShownBounds, GetData
  PROVE  ShownBounds' /\ Explained
<1> DEFINE how == IF fut = None THEN "nothing" ELSE Decoded(fut)
<1>1. \/ \E r \in Reported : Accept(r, how)
      \/ \E r \in Garbled : Accept(r, how)
      \/ Retry
      \/ \E nak \in {fut # None /\ how = "nothing"} : GiveUp(nak)
  BY DEF GetData
<1> HIDE DEF how
<1>2. ASSUME NEW r \in Reported \cup Garbled, Accept(r, how)
      PROVE  ShownBounds' /\ Explained
  BY <1>2, ReportedIsReading, PublishBounds DEF Accept
<1>3. ASSUME Retry
      PROVE  ShownBounds' /\ Explained
  BY <1>3, StillStep DEF Retry, sensorVars, historyVars
<1>4. ASSUME NEW nak, GiveUp(nak)
      PROVE  ShownBounds' /\ Explained
  <2>1. known.r \in Reading
    BY DEF SensorInv, SensorTypeOK
  <2>2. CASE Publish(known.r, known.how)
    BY <2>1, <2>2, PublishBounds
  <2>3. CASE Publish(Blank, "blank")
    BY <2>3, ReportedIsReading, PublishBounds
  <2> QED BY <1>4, <2>2, <2>3 DEF GiveUp
<1> QED BY <1>1, <1>2, <1>3, <1>4

\* What is restored at the start is shown.
LEMMA BoundsInit == Init => ShownBounds
<1> SUFFICES ASSUME Init PROVE ShownBounds
  OBVIOUS
<1>1. /\ saved \in Installs /\ conf = saved.conf /\ added = Platforms
      /\ soc = Restored(saved.soc, conf, added) /\ shown = soc.native
  BY DEF Init
<1>2. saved.soc \in {None} \cup SocRange /\ conf \in Config
  BY <1>1, DataAssumption DEF Store
<1>3. Bounded(soc, shown) /\ shown # None
  BY <1>1, <1>2, RestoredBounded
<1> QED BY <1>1, <1>3 DEF ShownBounds, Bounded, Platforms

\* Every step.
LEMMA BoundsStep ==
  SensorInv /\ ShownBounds /\ [Next]_vars => ShownBounds' /\ Explained
<1> SUFFICES ASSUME SensorInv, ShownBounds, [Next]_vars PROVE ShownBounds' /\ Explained
  OBVIOUS
<1>1. SensorInv'
  BY SensorStep
<1>2. CASE Query
  BY <1>2, StillStep DEF Query, sensorVars, historyVars
<1>3. CASE ModbusQuery
  BY <1>3, StillStep DEF ModbusQuery, sensorVars, historyVars
<1>4. CASE GetData
  BY <1>4, VerdictBounds
<1>5. CASE \/ \E e \in Edits : async_set_native_value(e.key, e.value)
           \/ \E option \in Options : async_select_option(option)
           \/ \E on \in BOOLEAN : async_turn(on)
  BY <1>1, <1>5, EntityBounds
<1>6. CASE Dump
  BY <1>6, DumpBounds
<1>7. CASE \E orderly \in BOOLEAN : Restart(orderly)
  BY <1>7, RestartBounds
<1>8. CASE AddSensors
  BY <1>8, AddSensorsBounds
<1>9. CASE AddNumbers \/ AddSelect \/ AddSwitch
  BY <1>1, <1>9, AddedBounds DEF AddNumbers, AddSelect, AddSwitch
<1>10. CASE UNCHANGED vars
  BY <1>10, StillStep DEF vars, sensorVars, historyVars
<1> QED BY <1>2, <1>3, <1>4, <1>5, <1>6, <1>7, <1>8, <1>9, <1>10 DEF Next

-----------------------------------------------------------------------------
(* The specification.                                                       *)

LEMMA BoundsHold == Spec => [](SensorInv /\ ShownBounds)
<1>1. Init => SensorInv /\ ShownBounds
  BY SensorInit, BoundsInit
<1>2. SensorInv /\ ShownBounds /\ [Next]_vars => (SensorInv /\ ShownBounds)'
  BY SensorStep, BoundsStep
<1> QED BY <1>1, <1>2, PTL DEF Spec

\* The states are well-formed and agree, no query that has ended leaves a connection
\* open, no restart loses saved energy, and the last SoC shown bounds what the estimator
\* holds (elfin_tcp.py, serial_uart.py, pi18_tcp.py, direct_energy_sensors.py, soc_core.py).
THEOREM TelemetryInvHolds == Spec => []TelemetryInv
<1>1. WireInv /\ SensorInv /\ ShownBounds => TelemetryInv
  BY DEF WireInv, LineInv, BlockInv, SensorInv, TelemetryInv, TelemetryTypeOK
<1> QED BY <1>1, WireSafety, BoundsHold, PTL

\* The shown SoC rises only while the battery charges, when its BMS says so, by an earned
\* snap to 100 %, or after the estimate was lost: never by an edit of the capacity or of
\* the chemistry, by an unreadable reading or by a restart (SocEstimator.update,
\* set_capacity, restore; the SoC sensor's listeners).
THEOREM JumpsAreExplainedHolds == Spec => JumpsAreExplained
<1>1. SensorInv /\ ShownBounds /\ [Next]_vars => [Explained]_vars
  BY BoundsStep
<1> QED BY <1>1, BoundsHold, PTL DEF Spec, JumpsAreExplained
=============================================================================
