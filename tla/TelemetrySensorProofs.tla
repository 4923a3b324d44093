----------------------- MODULE TelemetrySensorProofs -----------------------
(***************************************************************************)
(* What Telemetry promises of the sensors, proved for all readings,         *)
(* registers, edits, stored values and budgets: the state of charge agrees  *)
(* with the charge, the snap to 100 % is earned, the derived times follow   *)
(* the state of charge, and energy is metered and never falls.              *)
(***************************************************************************)
EXTENDS TelemetryWireProofs

-----------------------------------------------------------------------------
(* Arithmetic.                                                              *)

\* What integer division is.
LEMMA Division ==
  ASSUME NEW a \in Nat, NEW b \in Nat \ {0}
  PROVE  a \div b \in Nat /\ b * (a \div b) <= a /\ a < b * (a \div b) + b
OBVIOUS

\* A percentage is the quotient, rounded to the nearest hundredth.
LEMMA PercentBounds ==
  ASSUME NEW a \in Nat, NEW c \in Nat \ {0}
  PROVE  /\ Percent(a, c) \in Nat
         /\ 2 * (c * Percent(a, c)) <= 200 * a + c
         /\ 200 * a + c < 2 * (c * Percent(a, c)) + 2 * c
<1> DEFINE n == 2 * Full * a + Charge(c)
           d == 2 * Charge(c)
           q == n \div d
<1>1. n = 20000 * a + 100 * c /\ d = 200 * c /\ n \in Nat /\ d \in Nat \ {0}
  BY DEF Full, Charge
<1>2. Percent(a, c) = q
  BY DEF Percent
<1> HIDE DEF n, d
<1>3. q \in Nat /\ d * q <= n /\ n < d * q + d
  BY <1>1
<1> HIDE DEF q
<1>4. d * q = 200 * (c * q)
  BY <1>1, <1>3
<1>5. c * q \in Nat
  BY <1>3
<1>6. 200 * (c * q) <= 20000 * a + 100 * c /\ 20000 * a + 100 * c < 200 * (c * q) + 200 * c
  BY <1>1, <1>3, <1>4
<1>7. 2 * (c * q) <= 200 * a + c /\ 200 * a + c < 2 * (c * q) + 2 * c
  BY <1>5, <1>6
<1> QED BY <1>2, <1>3, <1>7

\* A charge within the capacity is a percentage within the range.
LEMMA PercentRange ==
  ASSUME NEW c \in Nat \ {0}, NEW a \in 0..Charge(c)
  PROVE  Percent(a, c) \in SocRange
<1> DEFINE q == Percent(a, c)
<1>1. a \in Nat /\ a <= 100 * c
  BY DEF Charge
<1>2. q \in Nat /\ 2 * (c * q) <= 200 * a + c
  BY <1>1, PercentBounds
<1> HIDE DEF q
<1>3. ASSUME q > 10000 PROVE FALSE
  <2>1. c * q >= c * 10001
    BY <1>2, <1>3
  <2> QED BY <1>1, <1>2, <2>1
<1>4. q \in 0..10000
  BY <1>2, <1>3
<1> QED BY <1>4 DEF q, SocRange, Full

\* The numbers a percentage is determined by.
LEMMA PercentIs ==
  ASSUME NEW a \in Nat, NEW c \in Nat \ {0}, NEW s \in Nat, 100 * a = c * s
  PROVE  Percent(a, c) = s
<1> DEFINE q == Percent(a, c)
<1>1. q \in Nat /\ 2 * (c * q) <= 200 * a + c /\ 200 * a + c < 2 * (c * q) + 2 * c
  BY PercentBounds
<1> HIDE DEF q
<1>2. ASSUME q > s PROVE FALSE
  <2>1. c * q >= c * s + c
    BY <1>1, <1>2
  <2> QED BY <1>1, <2>1
<1>3. ASSUME q < s PROVE FALSE
  <2>1. c * q + c <= c * s
    BY <1>1, <1>3
  <2> QED BY <1>1, <2>1
<1> QED BY <1>1, <1>2, <1>3 DEF q

\* The resolution of the charge.
LEMMA GrainBounds ==
  ASSUME NEW c \in Nat \ {0}
  PROVE  Grain(c) \in Nat /\ c * Grain(c) >= 100
<1> DEFINE g == Grain(c)
<1>1. g \in Nat /\ c + 99 < c * g + c
  BY Division DEF Grain
<1> HIDE DEF g
<1>2. c * g \in Nat
  BY <1>1
<1>3. c * g >= 100
  BY <1>1, <1>2
<1> QED BY <1>1, <1>3 DEF g

\* A number within the bounds is not clamped.
LEMMA ClampKeeps ==
  ASSUME NEW s \in SocRange
  PROVE  Clamp(s, 0, Full) = s
BY DEF SocRange, Clamp, Greatest, Least, Full

\* A charge that is anchored to a percentage shows that percentage, up to the grain.
LEMMA Anchored ==
  ASSUME NEW c \in Nat \ {0}, NEW s \in SocRange
  PROVE  LET a == (s * Charge(c)) \div Full
         IN  /\ a \in 0..Charge(c)
             /\ Magnitude(s - Percent(a, c)) <= Grain(c) /\ Percent(a, c) <= s
<1> DEFINE a == (s * Charge(c)) \div Full
           q == Percent(a, c)
           g == Grain(c)
<1>1. s \in Nat /\ s <= 10000 /\ c * s \in Nat /\ c * s <= 10000 * c
  BY DEF SocRange, Full
<1>2. a = (100 * (c * s)) \div 10000
  BY <1>1 DEF Charge, Full
<1>3. a \in Nat /\ 100 * a <= c * s /\ c * s < 100 * a + 100
  BY <1>1, <1>2
<1> HIDE DEF a
<1>4. a \in 0..Charge(c)
  BY <1>1, <1>3 DEF Charge
<1>5. q \in Nat /\ 2 * (c * q) <= 200 * a + c /\ 200 * a + c < 2 * (c * q) + 2 * c
  BY <1>3, PercentBounds
<1>6. g \in Nat /\ c * g >= 100
  BY GrainBounds
<1> HIDE DEF q, g
<1>7. ASSUME q > s PROVE FALSE
  <2>1. c * q >= c * s + c
    BY <1>1, <1>5, <1>7
  <2> QED BY <1>1, <1>3, <1>5, <2>1
<1>8. ASSUME s > q + g PROVE FALSE
  <2>1. c * s >= c * q + c * g + c
    BY <1>1, <1>5, <1>6, <1>8
  <2>2. c * q \in Nat /\ c * g \in Nat
    BY <1>5, <1>6
  <2> QED BY <1>1, <1>3, <1>5, <1>6, <2>1, <2>2
<1>9. Magnitude(s - q) <= g
  BY <1>1, <1>5, <1>6, <1>7, <1>8 DEF Magnitude, Greatest
<1>10. q <= s
  BY <1>1, <1>5, <1>7
<1> QED BY <1>4, <1>9, <1>10 DEF a, q, g

\* A charge that is rescaled to another capacity shows the percentage it showed before,
\* up to the grain.
LEMMA Rescaled ==
  ASSUME NEW c \in Nat \ {0}, NEW a \in 0..Charge(c), NEW v \in Nat \ {0}
  PROVE  LET b == (a * v) \div c
         IN  /\ b \in 0..Charge(v)
             /\ Magnitude(Percent(a, c) - Percent(b, v)) <= Grain(v)
             /\ Percent(b, v) <= Percent(a, c)
<1> DEFINE b == (a * v) \div c
           p == Percent(a, c)
           q == Percent(b, v)
           g == Grain(v)
<1>1. a \in Nat /\ a <= 100 * c /\ a * v \in Nat
  BY DEF Charge
<1>2. b \in Nat /\ c * b <= a * v /\ a * v < c * b + c
  BY <1>1
<1> HIDE DEF b
<1>3. b \in 0..Charge(v)
  <2>1. ASSUME b > 100 * v PROVE FALSE
    <3>1. c * b >= c * (100 * v + 1)
      BY <1>2, <2>1
    <3>2. c * (100 * v + 1) = 100 * (c * v) + c
      OBVIOUS
    <3>3. a * v <= (100 * c) * v
      BY <1>1
    <3>4. (100 * c) * v = 100 * (c * v)
      OBVIOUS
    <3> QED BY <1>1, <1>2, <3>1, <3>2, <3>3, <3>4
  <2> QED BY <1>2, <2>1 DEF Charge
<1>4. p \in Nat /\ 2 * (c * p) <= 200 * a + c /\ 200 * a + c < 2 * (c * p) + 2 * c
  BY <1>1, PercentBounds
<1>5. q \in Nat /\ 2 * (v * q) <= 200 * b + v /\ 200 * b + v < 2 * (v * q) + 2 * v
  BY <1>2, PercentBounds
<1>6. g \in Nat /\ v * g >= 100
  BY GrainBounds
<1> HIDE DEF p, q, g
<1>7. /\ 2 * (c * (v * q)) <= 200 * (c * b) + c * v
      /\ 200 * (c * b) + c * v < 2 * (c * (v * q)) + 2 * (c * v)
  <2> DEFINE l == 2 * (v * q)
             m == 200 * b + v
             r == 2 * (v * q) + 2 * v
  <2>1. l \in Nat /\ m \in Nat /\ r \in Nat /\ l <= m /\ m < r
    BY <1>2, <1>5
  <2>2. c * l = 2 * (c * (v * q)) /\ c * m = 200 * (c * b) + c * v
    BY <1>2, <1>5
  <2>3. c * r = 2 * (c * (v * q)) + 2 * (c * v)
    BY <1>5
  <2> HIDE DEF l, m, r
  <2>4. c * l <= c * m /\ c * m < c * r
    BY <2>1
  <2> QED BY <2>2, <2>3, <2>4
<1>8. /\ 2 * (v * (c * p)) <= 200 * (a * v) + c * v
      /\ 200 * (a * v) + c * v < 2 * (v * (c * p)) + 2 * (c * v)
  <2> DEFINE l == 2 * (c * p)
             m == 200 * a + c
             r == 2 * (c * p) + 2 * c
  <2>1. l \in Nat /\ m \in Nat /\ r \in Nat /\ l <= m /\ m < r
    BY <1>1, <1>4
  <2>2. v * l = 2 * (v * (c * p)) /\ v * m = 200 * (a * v) + c * v
    BY <1>1, <1>4
  <2>3. v * r = 2 * (v * (c * p)) + 2 * (c * v)
    BY <1>4
  <2> HIDE DEF l, m, r
  <2>4. v * l <= v * m /\ v * m < v * r
    BY <2>1
  <2> QED BY <2>2, <2>3, <2>4
<1> DEFINE w == c * v
<1>9. c * (v * q) = w * q /\ v * (c * p) = w * p /\ w \in Nat \ {0}
  BY <1>4, <1>5
<1>10. w * g >= 100 * c
  <2>1. c * (v * g) >= c * 100
    BY <1>6
  <2>2. c * (v * g) = w * g
    BY <1>6
  <2> QED BY <2>1, <2>2
<1>11. c * b \in Nat /\ a * v \in Nat
  BY <1>1, <1>2
<1> DEFINE x == c * b
           y == a * v
<1>12. /\ 2 * (w * q) <= 200 * x + w /\ 200 * x + w < 2 * (w * q) + 2 * w
       /\ 2 * (w * p) <= 200 * y + w /\ 200 * y + w < 2 * (w * p) + 2 * w
       /\ x <= y /\ y < x + c /\ x \in Nat /\ y \in Nat
  BY <1>2, <1>7, <1>8, <1>9, <1>11
<1> HIDE DEF w, x, y
<1>13. ASSUME q > p PROVE FALSE
  <2>1. w * q >= w * p + w
    BY <1>4, <1>5, <1>9, <1>13
  <2>2. w * p \in Nat /\ w * q \in Nat
    BY <1>4, <1>5, <1>9
  <2> QED BY <1>9, <1>12, <2>1, <2>2
<1>14. ASSUME p > q + g PROVE FALSE
  <2>1. w * p >= w * q + w * g + w
    BY <1>4, <1>5, <1>6, <1>9, <1>14
  <2>2. w * p \in Nat /\ w * q \in Nat /\ w * g \in Nat
    BY <1>4, <1>5, <1>6, <1>9
  <2> QED BY <1>9, <1>10, <1>12, <2>1, <2>2
<1>15. Magnitude(p - q) <= g
  BY <1>4, <1>5, <1>6, <1>13, <1>14 DEF Magnitude, Greatest
<1>16. q <= p
  BY <1>4, <1>5, <1>13
<1> QED BY <1>3, <1>15, <1>16 DEF b, p, q, g

-----------------------------------------------------------------------------
(* The operations of the estimator.                                         *)

\* Time passes: only the age of the last current changes.
LEMMA AgeKeeps ==
  ASSUME NEW e \in Estimator
  PROVE  /\ Age(e, 1) \in Estimator
         /\ Age(e, 1).cap = e.cap /\ Age(e, 1).mode = e.mode /\ Age(e, 1).acc = e.acc
         /\ Age(e, 1).ticks = e.ticks /\ Age(e, 1).soc = e.soc /\ Age(e, 1).prev = e.prev
BY DEF Estimator, Age

\* set_mode: a change of chemistry starts the debounce again.
LEMMA SetMode ==
  ASSUME NEW e \in Estimator, NEW m \in Modes
  PROVE  /\ set_mode(e, m) \in Estimator
         /\ set_mode(e, m).cap = e.cap /\ set_mode(e, m).mode = m
         /\ set_mode(e, m).acc = e.acc /\ set_mode(e, m).soc = e.soc
         /\ set_mode(e, m).ticks = IF m = e.mode THEN e.ticks ELSE 0
BY DEF Estimator, set_mode

\* set_deadband leaves the estimate alone.
LEMMA SetDeadband ==
  ASSUME NEW e \in Estimator, NEW d \in BOOLEAN, NEW w \in Int, NEW f \in Int
  PROVE  LET x == set_deadband(e, d, w, f)
         IN  /\ x \in Estimator
             /\ x.cap = e.cap /\ x.mode = e.mode /\ x.acc = e.acc /\ x.soc = e.soc
             /\ x.ticks = e.ticks
<1> DEFINE gw == Greatest(0, w)
           gf == Greatest(0, f)
           x  == [e EXCEPT !.deadband = d, !.window = gw, !.floor = gf]
<1>1. gw \in Nat /\ gf \in Nat
  BY DEF Greatest
<1>2. set_deadband(e, d, w, f) = x
  BY DEF set_deadband
<1> HIDE DEF gw, gf
<1>3. x \in Estimator
  BY <1>1, Zenon DEF Estimator
<1>4. /\ x.cap = e.cap /\ x.mode = e.mode /\ x.acc = e.acc /\ x.soc = e.soc
      /\ x.ticks = e.ticks
  BY DEF Estimator
<1> QED BY <1>2, <1>3, <1>4

\* set_capacity: the charge fits the capacity it was given, and an estimate that there
\* was is not lost.
LEMMA SetCapacity ==
  ASSUME NEW e \in Estimator, ChargeFits(e), NEW v \in {None} \cup Int
  PROVE  LET x == set_capacity(e, v)
         IN  /\ x \in Estimator /\ ChargeFits(x)
             /\ x.mode = e.mode /\ x.ticks = e.ticks
<1>1. CASE v = None \/ (v \in Int /\ v <= 0)
  <2> DEFINE x == [e EXCEPT !.cap = None]
  <2>1. set_capacity(e, v) = x
    BY <1>1 DEF set_capacity
  <2>2. x \in Estimator /\ x.cap = None /\ x.mode = e.mode /\ x.ticks = e.ticks
    BY DEF Estimator
  <2> QED BY <2>1, <2>2 DEF ChargeFits
<1>2. CASE v \in Int /\ v > 0 /\ e.cap = None /\ e.soc = None
  <2> DEFINE x == [e EXCEPT !.cap = v, !.acc = Charge(v), !.soc = Full]
  <2>1. set_capacity(e, v) = x
    BY <1>2, ValueAssumption DEF set_capacity
  <2>2. v \in Nat \ {0} /\ Charge(v) \in Int /\ Full \in SocRange
    BY <1>2 DEF Charge, Full, SocRange
  <2>3. x \in Estimator
    BY <2>2 DEF Estimator
  <2>4. /\ x.cap = v /\ x.acc = Charge(v) /\ x.soc = Full
        /\ x.mode = e.mode /\ x.ticks = e.ticks
    BY DEF Estimator
  <2>5. Percent(Charge(v), v) = Full
    BY <2>2, PercentIs DEF Charge, Full
  <2>6. Magnitude(Full - Full) <= Grain(v) /\ Charge(v) \in 0..Charge(v)
    BY <2>2, GrainBounds DEF Magnitude, Greatest, Full, Charge
  <2> HIDE DEF x
  <2>7. ChargeFits(x)
    BY <2>4, <2>5, <2>6 DEF ChargeFits
  <2> QED BY <2>1, <2>3, <2>4, <2>7
<1>3. CASE v \in Int /\ v > 0 /\ e.cap = None /\ e.soc # None
  <2> DEFINE a == (Clamp(e.soc, 0, Full) * Charge(v)) \div Full
             x == [e EXCEPT !.cap = v, !.acc = a, !.soc = e.soc]
  <2>1. set_capacity(e, v) = x
    BY <1>3, ValueAssumption DEF set_capacity
  <2>2. v \in Nat \ {0} /\ e.soc \in SocRange
    BY <1>3 DEF Estimator
  <2>3. Clamp(e.soc, 0, Full) = e.soc
    BY <2>2, ClampKeeps
  <2>4. a = (e.soc * Charge(v)) \div Full
    BY <2>3
  <2> HIDE DEF a
  <2>5. a \in 0..Charge(v) /\ Magnitude(e.soc - Percent(a, v)) <= Grain(v)
    BY <2>2, <2>4, Anchored
  <2>6. a \in Int
    BY <2>2, <2>5 DEF Charge
  <2>7. x \in Estimator
    BY <2>2, <2>6 DEF Estimator
  <2>8. /\ x.cap = v /\ x.acc = a /\ x.soc = e.soc
        /\ x.mode = e.mode /\ x.ticks = e.ticks
    BY DEF Estimator
  <2> HIDE DEF x
  <2>9. ChargeFits(x)
    BY <2>5, <2>8 DEF ChargeFits
  <2> QED BY <2>1, <2>7, <2>8, <2>9
<1>4. CASE v \in Int /\ v > 0 /\ e.cap # None
  <2> DEFINE a == Clamp(e.acc, 0, Charge(e.cap))
             b == (a * v) \div e.cap
             p == Percent(a, e.cap)
             x == [e EXCEPT !.cap = v, !.acc = b, !.soc = p]
  <2>1. set_capacity(e, v) = x
    BY <1>4, ValueAssumption DEF set_capacity
  <2>2. v \in Nat \ {0} /\ e.cap \in Nat \ {0} /\ e.acc \in 0..Charge(e.cap)
    BY <1>4 DEF Estimator, ChargeFits
  <2>3. a \in 0..Charge(e.cap)
    BY <2>2 DEF Clamp, Greatest, Least, Charge
  <2> HIDE DEF a
  <2>4. b \in 0..Charge(v) /\ Magnitude(p - Percent(b, v)) <= Grain(v)
    BY <2>2, <2>3, Rescaled
  <2>5. p \in SocRange
    BY <2>2, <2>3, PercentRange
  <2> HIDE DEF b, p
  <2>6. b \in Int
    BY <2>2, <2>4 DEF Charge
  <2>7. x \in Estimator
    BY <2>2, <2>5, <2>6 DEF Estimator
  <2>8. /\ x.cap = v /\ x.acc = b /\ x.soc = p
        /\ x.mode = e.mode /\ x.ticks = e.ticks
    BY DEF Estimator
  <2> HIDE DEF x
  <2>9. ChargeFits(x)
    BY <2>4, <2>8 DEF ChargeFits
  <2> QED BY <2>1, <2>7, <2>8, <2>9
<1> QED BY <1>1, <1>2, <1>3, <1>4

\* restore: a value, and no charge yet.
LEMMA RestoreKeeps ==
  ASSUME NEW e \in Estimator, NEW v \in SocRange
  PROVE  /\ restore(e, v, 0, None) \in Estimator
         /\ restore(e, v, 0, None).cap = e.cap
         /\ restore(e, v, 0, None).ticks = e.ticks
<1> DEFINE z == 0
           x == [e EXCEPT !.soc = v, !.acc = z, !.sync = None]
<1>1. restore(e, v, 0, None) = x /\ z \in Int
  BY DEF restore
<1> HIDE DEF z
<1>2. x \in Estimator /\ x.cap = e.cap /\ x.ticks = e.ticks
  BY <1>1 DEF Estimator
<1> QED BY <1>1, <1>2

\* The integration changes the charge and what it is integrated from.
LEMMA IntegratedKeeps ==
  ASSUME NEW e \in Estimator, NEW i \in Int, NEW v \in Int, NEW float \in {None} \cup Int
  PROVE  LET x == Integrated(e, i, v, float)
         IN  /\ x \in Estimator
             /\ x.cap = e.cap /\ x.mode = e.mode /\ x.ticks = e.ticks /\ x.soc = e.soc
<1> DEFINE f == Effective(e, i)
<1>1. f \in Int
  BY DEF Effective, ChargeEff, DischargeEff
<1> HIDE DEF f
<1>2. CASE InFloatDeadband(e, i, v, float)
  <2> DEFINE x == [e EXCEPT !.prev = None, !.age = 0]
  <2>1. Integrated(e, i, v, float) = x
    BY <1>2 DEF Integrated
  <2>2. /\ x \in Estimator
        /\ x.cap = e.cap /\ x.mode = e.mode /\ x.ticks = e.ticks /\ x.soc = e.soc
    BY DEF Estimator
  <2> QED BY <2>1, <2>2
<1>3. CASE ~InFloatDeadband(e, i, v, float)
  <2> DEFINE b == IF e.prev = None THEN e.acc ELSE e.acc + (e.age * (e.prev + f)) \div 2
             x == [e EXCEPT !.prev = f, !.age = 0, !.acc = b]
  <2>1. Integrated(e, i, v, float) = x
    BY <1>3 DEF Integrated, f
  <2>2. b \in Int
    BY <1>1 DEF Estimator
  <2> HIDE DEF b
  <2>3. /\ x \in Estimator
        /\ x.cap = e.cap /\ x.mode = e.mode /\ x.ticks = e.ticks /\ x.soc = e.soc
    BY <1>1, <2>2 DEF Estimator
  <2> QED BY <2>1, <2>3
<1> QED BY <1>2, <1>3

\* Snapped: the charge is clamped or full, the SoC is its percentage, and the debounce
\* counts.
LEMMA SnappedFits ==
  ASSUME NEW e \in Estimator, e.cap # None, NEW i \in Int, NEW v, NEW sync, NEW float,
         NEW now \in Nat
  PROVE  LET x == Snapped(e, i, v, sync, float, now)
         IN  /\ x \in Estimator /\ ChargeFits(x)
             /\ x.cap = e.cap /\ x.mode = e.mode /\ x.soc # None
             /\ x.ticks = Ticks(e, i, v, sync, float)
             /\ x.soc = Percent(x.acc, e.cap)
             /\ x.ticks < Debounce => x.acc = Clamp(e.acc, 0, Charge(e.cap))
<1> DEFINE t == Ticks(e, i, v, sync, float)
           a == IF t >= Debounce THEN Charge(e.cap) ELSE Clamp(e.acc, 0, Charge(e.cap))
           y == IF t = Debounce THEN now ELSE e.sync
           p == Percent(a, e.cap)
           x == [e EXCEPT !.ticks = t, !.acc = a, !.sync = y, !.soc = p]
<1>1. Snapped(e, i, v, sync, float, now) = x
  BY DEF Snapped
<1>2. e.cap \in Nat \ {0} /\ e.acc \in Int /\ e.ticks \in Nat
  BY DEF Estimator
<1>3. t \in Nat
  BY <1>2 DEF Ticks, Greatest
<1>4. y \in {None} \cup Nat
  BY DEF Estimator
<1> HIDE DEF t, y
<1>a. t < Debounce => a = Clamp(e.acc, 0, Charge(e.cap))
  BY <1>3 DEF Debounce
<1>5. a \in 0..Charge(e.cap)
  BY <1>2 DEF Clamp, Greatest, Least, Charge
<1> HIDE DEF a
<1>6. p \in SocRange /\ p \in Nat
  BY <1>2, <1>5, PercentRange DEF SocRange
<1>7. a \in Int
  BY <1>2, <1>5 DEF Charge
<1>8. p = Percent(a, e.cap)
  OBVIOUS
<1> HIDE DEF p
<1>9. x \in Estimator
  BY <1>3, <1>4, <1>6, <1>7 DEF Estimator
<1>10. x.cap = e.cap /\ x.mode = e.mode /\ x.ticks = t /\ x.acc = a /\ x.soc = p
  BY DEF Estimator
<1> HIDE DEF x
<1>11. Magnitude(p - p) <= Grain(e.cap)
  BY <1>2, <1>6, GrainBounds DEF Magnitude, Greatest
<1>12. ChargeFits(x)
  BY <1>5, <1>8, <1>10, <1>11 DEF ChargeFits
<1>13. p # None
  BY <1>6, ValueAssumption
<1> QED BY <1>1, <1>a, <1>8, <1>9, <1>10, <1>12, <1>13 DEF t

\* The BMS mirror: the charge is the BMS's percentage of the capacity.
LEMMA MirroredFits ==
  ASSUME NEW e \in Estimator, e.cap # None, NEW bms \in 0..100
  PROVE  LET x == Mirrored(e, bms)
         IN  /\ x \in Estimator /\ ChargeFits(x) /\ x.mode = e.mode /\ x.ticks = 0
             /\ x.cap = e.cap /\ x.soc # None /\ Percent(x.acc, e.cap) = x.soc
<1> DEFINE a == (bms * Charge(e.cap)) \div 100
           p == 100 * bms
           x == [e EXCEPT !.acc = a, !.prev = None, !.age = 0, !.ticks = 0, !.soc = p]
<1>1. Mirrored(e, bms) = x
  BY DEF Mirrored
<1>2. e.cap \in Nat \ {0}
  BY DEF Estimator
<1>3. bms * Charge(e.cap) = 100 * (e.cap * bms) /\ e.cap * bms \in Nat /\ e.cap * bms <= 100 * e.cap
  BY <1>2 DEF Charge
<1>4. a = e.cap * bms
  BY <1>3
<1>5. a \in 0..Charge(e.cap) /\ a \in Nat /\ a \in Int
  BY <1>2, <1>3, <1>4 DEF Charge
<1>6. 100 * a = e.cap * p
  BY <1>2, <1>4
<1>7. p \in SocRange /\ p \in Nat
  BY DEF SocRange, Full
<1> HIDE DEF a, p
<1>8. Percent(a, e.cap) = p
  BY <1>2, <1>5, <1>6, <1>7, PercentIs
<1>9. x \in Estimator
  BY <1>5, <1>7 DEF Estimator
<1>10. x.cap = e.cap /\ x.mode = e.mode /\ x.ticks = 0 /\ x.acc = a /\ x.soc = p
  BY DEF Estimator
<1> HIDE DEF x
<1>11. Magnitude(p - p) <= Grain(e.cap)
  BY <1>2, <1>7, GrainBounds DEF Magnitude, Greatest
<1>12. ChargeFits(x)
  BY <1>5, <1>8, <1>10, <1>11 DEF ChargeFits
<1>13. p # None
  BY <1>7, ValueAssumption
<1> QED BY <1>1, <1>8, <1>9, <1>10, <1>12, <1>13

\* The estimator's ticks after a reading.
TicksAfter(e, i, v, sync, float, bms) ==
  IF e.cap = None THEN e.ticks
  ELSE IF Mirrors(e, bms) THEN 0
  ELSE IF sync = None THEN e.ticks
  ELSE Ticks(e, i, v, sync, float)

\* What an update is called with.
Inputs(e, i, v, float, bms, now) ==
  /\ e \in Estimator /\ ChargeFits(e)
  /\ i \in Int /\ v \in Int /\ float \in {None} \cup Int
  /\ bms \in {None} \cup (0..100) /\ now \in Nat

\* update: the charge fits, the chemistry stays, and the debounce counts.
LEMMA UpdateFits ==
  ASSUME NEW e, NEW i, NEW v, NEW sync, NEW float, NEW bms, NEW now,
         Inputs(e, i, v, float, bms, now)
  PROVE  LET x == update(e, i, v, sync, float, bms, now)
         IN  /\ x \in Estimator /\ ChargeFits(x) /\ x.mode = e.mode
             /\ x.ticks = TicksAfter(e, i, v, sync, float, bms)
<1> USE DEF Inputs
<1> DEFINE u == update(e, i, v, sync, float, bms, now)
<1>1. CASE e.cap = None \/ (~Mirrors(e, bms) /\ sync = None)
  <2> DEFINE x == [e EXCEPT !.soc = None]
  <2>1. u = x
    BY <1>1 DEF update
  <2>2. /\ x \in Estimator /\ x.cap = e.cap /\ x.acc = e.acc /\ x.soc = None
        /\ x.mode = e.mode /\ x.ticks = e.ticks
    BY DEF Estimator
  <2>3. ChargeFits(x)
    BY <2>2 DEF ChargeFits
  <2> QED BY <1>1, <2>1, <2>2, <2>3 DEF TicksAfter
<1>2. CASE e.cap # None /\ Mirrors(e, bms)
  <2>1. u = Mirrored(e, bms) /\ bms \in 0..100
    BY <1>2 DEF update, Mirrors
  <2> QED BY <1>2, <2>1, MirroredFits DEF TicksAfter
<1>3. CASE e.cap # None /\ ~Mirrors(e, bms) /\ sync # None
  <2> DEFINE d == Integrated(e, i, v, float)
  <2>1. u = Snapped(d, i, v, sync, float, now)
    BY <1>3 DEF update
  <2>2. /\ d \in Estimator
        /\ d.cap = e.cap /\ d.mode = e.mode /\ d.ticks = e.ticks /\ d.soc = e.soc
    BY IntegratedKeeps
  <2> HIDE DEF d
  <2>3. Ticks(d, i, v, sync, float) = Ticks(e, i, v, sync, float)
    BY <2>2 DEF Ticks, AtFull, TailCurrent
  <2>4. /\ u \in Estimator /\ ChargeFits(u) /\ u.mode = d.mode
        /\ u.ticks = Ticks(d, i, v, sync, float)
    BY <1>3, <2>1, <2>2, SnappedFits
  <2> QED BY <1>3, <2>2, <2>3, <2>4 DEF TicksAfter
<1> QED BY <1>1, <1>2, <1>3

-----------------------------------------------------------------------------
(* The SoC sensor and its listeners.                                        *)

SocOK(s) == s \in SocSensor /\ ChargeFits(s.est)

\* What no listener breaks: it neither counts a tick nor loses a value.
Follows(s, t) ==
  /\ SocOK(t)
  /\ t.est.ticks <= s.est.ticks
  /\ t.native = None => s.native = None

Keys == {"cap", "override", "window", "floor", "target", "mode", "deadband"}

\* One step after another.
LEMMA FollowsTwice ==
  ASSUME NEW s, NEW t, NEW u, SocOK(s), Follows(s, t), Follows(t, u)
  PROVE  Follows(s, u)
<1>1. s.est.ticks \in Nat /\ t.est.ticks \in Nat /\ u.est.ticks \in Nat
  BY DEF Follows, SocOK, SocSensor, Estimator
<1> QED BY <1>1 DEF Follows

\* The number of the capacity.
LEMMA CapacityListener ==
  ASSUME NEW s, SocOK(s), NEW v \in {None} \cup Int
  PROVE  LET t == _update_battery_capacity_from_state(s, v)
         IN  Follows(s, t) /\ t.est.mode = s.est.mode /\ t.est.ticks = s.est.ticks
<1> DEFINE e == set_capacity(s.est, v)
           n == IF e.cap # None /\ e.soc # None THEN e.soc ELSE s.native
           t == [s EXCEPT !.est = e, !.native = n]
<1>1. _update_battery_capacity_from_state(s, v) = t
  BY DEF _update_battery_capacity_from_state
<1>2. s.est \in Estimator /\ ChargeFits(s.est) /\ s \in SocSensor
  BY DEF SocOK, SocSensor
<1>3. e \in Estimator /\ ChargeFits(e) /\ e.mode = s.est.mode /\ e.ticks = s.est.ticks
  BY <1>2, SetCapacity
<1> HIDE DEF e
<1>4. n \in {None} \cup SocRange /\ (n = None => s.native = None)
  BY <1>2, <1>3 DEF Estimator, SocSensor
<1> HIDE DEF n
<1>5. t \in SocSensor /\ t.est = e /\ t.native = n
  BY <1>2, <1>3, <1>4 DEF SocSensor
<1>6. e.ticks \in Nat
  BY <1>3 DEF Estimator
<1> HIDE DEF t
<1>7. Follows(s, t)
  BY <1>3, <1>4, <1>5, <1>6 DEF Follows, SocOK
<1> QED BY <1>1, <1>3, <1>5, <1>7

\* The number of the sync voltage.
LEMMA SyncListener ==
  ASSUME NEW s, SocOK(s), NEW v \in Int
  PROVE  LET t == _update_sync_voltage_from_state(s, v)
         IN  Follows(s, t) /\ t.est.mode = s.est.mode /\ t.est.ticks = s.est.ticks
<1> DEFINE g == Greatest(0, v)
           t == [s EXCEPT !.override = g]
<1>1. _update_sync_voltage_from_state(s, v) = t
  BY DEF _update_sync_voltage_from_state
<1>2. g \in Nat
  BY DEF Greatest
<1> HIDE DEF g
<1>3. t \in SocSensor /\ t.est = s.est /\ t.native = s.native /\ s.est.ticks \in Nat
  BY <1>2 DEF SocOK, SocSensor, Estimator
<1> HIDE DEF t
<1>4. Follows(s, t)
  BY <1>3 DEF Follows, SocOK
<1> QED BY <1>1, <1>3, <1>4

\* The select of the chemistry.
LEMMA ModeListener ==
  ASSUME NEW s, SocOK(s), NEW m \in Modes
  PROVE  LET t == _update_battery_mode_from_state(s, m)
         IN  /\ Follows(s, t) /\ t.est.mode = m
             /\ t.est.ticks = IF m = s.est.mode THEN s.est.ticks ELSE 0
             /\ t.native = s.native
<1> DEFINE e == set_mode(s.est, m)
           t == [s EXCEPT !.est = e]
<1>1. _update_battery_mode_from_state(s, m) = t
  BY DEF _update_battery_mode_from_state
<1>2. s \in SocSensor /\ s.est \in Estimator /\ ChargeFits(s.est) /\ s.est.ticks \in Nat
  BY DEF SocOK, SocSensor, Estimator
<1>3. /\ e \in Estimator /\ e.cap = s.est.cap /\ e.mode = m
      /\ e.acc = s.est.acc /\ e.soc = s.est.soc
      /\ e.ticks = IF m = s.est.mode THEN s.est.ticks ELSE 0
  BY <1>2, SetMode
<1> HIDE DEF e
<1>4. ChargeFits(e)
  BY <1>2, <1>3 DEF ChargeFits
<1>5. t \in SocSensor /\ t.est = e /\ t.native = s.native
  BY <1>2, <1>3 DEF SocSensor
<1> HIDE DEF t
<1>6. Follows(s, t)
  BY <1>2, <1>3, <1>4, <1>5 DEF Follows, SocOK
<1> QED BY <1>1, <1>3, <1>5, <1>6

\* The switch and the numbers of the deadband.
LEMMA DeadbandListener ==
  ASSUME NEW s, SocOK(s), NEW c \in Config, NEW a
  PROVE  LET t == _refresh_float_deadband_config(s, c, a)
         IN  /\ Follows(s, t) /\ t.est.mode = s.est.mode /\ t.est.ticks = s.est.ticks
             /\ t.native = s.native
<1> DEFINE d == Seen("deadband", c, a)
           w == Seen("window", c, a)
           f == Seen("floor", c, a)
           e == set_deadband(s.est, d, w, f)
           t == [s EXCEPT !.est = e]
<1>1. _refresh_float_deadband_config(s, c, a) = t
  BY DEF _refresh_float_deadband_config
<1>2. s \in SocSensor /\ s.est \in Estimator /\ ChargeFits(s.est) /\ s.est.ticks \in Nat
  BY DEF SocOK, SocSensor, Estimator
<1>3. d \in BOOLEAN
  BY DEF Seen, Config, Defaults, PlatformOf
<1>4. w \in Int /\ f \in Int
  BY DEF Seen, Config, Defaults, PlatformOf, Window, NoiseFloor
<1> HIDE DEF d, w, f
<1>5. /\ e \in Estimator /\ e.cap = s.est.cap /\ e.mode = s.est.mode
      /\ e.acc = s.est.acc /\ e.soc = s.est.soc /\ e.ticks = s.est.ticks
  BY <1>2, <1>3, <1>4, SetDeadband
<1> HIDE DEF e
<1>6. ChargeFits(e)
  BY <1>2, <1>5 DEF ChargeFits
<1>7. t \in SocSensor /\ t.est = e /\ t.native = s.native
  BY <1>2, <1>5 DEF SocSensor
<1> HIDE DEF t
<1>8. Follows(s, t)
  BY <1>2, <1>5, <1>6, <1>7 DEF Follows, SocOK
<1> QED BY <1>1, <1>5, <1>7, <1>8

\* Whatever entity changes, its listener follows.
LEMMA ListenerFollows ==
  ASSUME NEW s, SocOK(s), NEW c \in Config, NEW a, NEW key \in Keys
  PROVE  LET t == Listener(s, key, c, a)
         IN  /\ Follows(s, t)
             /\ key # "mode" => t.est.mode = s.est.mode /\ t.est.ticks = s.est.ticks
             /\ key = "mode" => /\ t.est.mode = c.mode
                                /\ c.mode # s.est.mode => t.est.ticks = 0
<1>1. c.cap \in {None} \cup Int /\ c.override \in Int /\ c.mode \in Modes
  BY DEF Config
<1>2. s.est.ticks \in Nat
  BY DEF SocOK, SocSensor, Estimator
<1>3. CASE key = "cap"
  BY <1>1, <1>3, CapacityListener DEF Listener
<1>4. CASE key = "override"
  BY <1>1, <1>4, SyncListener DEF Listener
<1>5. CASE key = "mode"
  BY <1>1, <1>5, ModeListener DEF Listener
<1>6. CASE key = "target"
  BY <1>2, <1>6 DEF Listener, Follows
<1>7. CASE key \in {"window", "floor", "deadband"}
  <2>1. Listener(s, key, c, a) = _refresh_float_deadband_config(s, c, a)
    BY <1>7 DEF Listener
  <2> QED BY <1>7, <2>1, DeadbandListener
<1> QED BY <1>3, <1>4, <1>5, <1>6, <1>7 DEF Keys

\* The entities of a platform write their first states.
LEMMA AnnouncedFollows ==
  ASSUME NEW s, SocOK(s), NEW c \in Config, NEW a, NEW p \in {"number", "select", "switch"}
  PROVE  LET t == Announced(s, p, c, a)
         IN  /\ Follows(s, t)
             /\ t.est.mode = IF p = "select" THEN c.mode ELSE s.est.mode
<1>1. CASE p = "number"
  <2> DEFINE t == Listener(s, "cap", c, a)
             u == Listener(t, "override", c, a)
             w == Listener(u, "window", c, a)
  <2>1. Announced(s, p, c, a) = w
    BY <1>1 DEF Announced
  <2>2. Follows(s, t) /\ t.est.mode = s.est.mode
    BY ListenerFollows DEF Keys
  <2> HIDE DEF t
  <2>3. Follows(t, u) /\ u.est.mode = t.est.mode
    BY <2>2, ListenerFollows DEF Keys, Follows
  <2> HIDE DEF u
  <2>4. Follows(u, w) /\ w.est.mode = u.est.mode
    BY <2>3, ListenerFollows DEF Keys, Follows
  <2> HIDE DEF w
  <2>5. Follows(s, u)
    BY <2>2, <2>3, FollowsTwice
  <2>6. Follows(s, w)
    BY <2>4, <2>5, FollowsTwice
  <2> QED BY <1>1, <2>1, <2>2, <2>3, <2>4, <2>6
<1>2. CASE p = "select"
  BY <1>2, ListenerFollows DEF Announced, Keys
<1>3. CASE p = "switch"
  BY <1>3, ListenerFollows DEF Announced, Keys
<1> QED BY <1>1, <1>2, <1>3

\* A new sensor.
LEMMA NewSocOK ==
  SocOK(NewSoc) /\ NewSoc.est.ticks = 0 /\ NewSoc.est.cap = None
<1>1. NewSoc \in SocSensor
  BY DEF Estimator, SocSensor, NewSoc, NewEstimator, Modes, Window, NoiseFloor
<1>2. NewSoc.est.ticks = 0 /\ NewSoc.est.cap = None
  BY DEF NewSoc, NewEstimator
<1> QED BY <1>1, <1>2 DEF SocOK, ChargeFits

\* A sensor that is restored has a value, a chemistry and no ticks.
LEMMA RestoredOK ==
  ASSUME NEW value \in {None} \cup SocRange, NEW c \in Config, NEW a
  PROVE  LET t == Restored(value, c, a)
         IN  /\ SocOK(t) /\ t.native # None /\ t.est.ticks = 0
             /\ t.est.mode = Seen("mode", c, a)
<1> DEFINE v  == IF value = None THEN Full ELSE value
           e  == restore(NewSoc.est, v, 0, None)
           s1 == [NewSoc EXCEPT !.est = e, !.native = v]
           s2 == _update_battery_capacity_from_state(s1, Seen("cap", c, a))
           s3 == _update_sync_voltage_from_state(s2, Seen("override", c, a))
           s4 == _update_battery_mode_from_state(s3, Seen("mode", c, a))
           s5 == _refresh_float_deadband_config(s4, c, a)
<1>1. Restored(value, c, a) = s5
  BY DEF Restored
<1>2. v \in SocRange /\ v # None
  BY ValueAssumption DEF SocRange, Full
<1> HIDE DEF v
<1>3. NewSoc \in SocSensor /\ NewSoc.est.cap = None /\ NewSoc.est.ticks = 0
  BY NewSocOK DEF SocOK
<1>4. e \in Estimator /\ e.cap = None /\ e.ticks = 0
  <2>1. NewSoc.est \in Estimator
    BY <1>3 DEF SocSensor
  <2> QED BY <1>2, <1>3, <2>1, RestoreKeeps
<1> HIDE DEF e
<1>5. s1 \in SocSensor /\ s1.est = e /\ s1.native = v
  BY <1>2, <1>3, <1>4 DEF SocSensor
<1> HIDE DEF s1
<1>6. SocOK(s1) /\ s1.native # None /\ s1.est.ticks = 0
  BY <1>2, <1>4, <1>5 DEF SocOK, ChargeFits
<1>7. /\ Seen("cap", c, a) \in {None} \cup Int /\ Seen("override", c, a) \in Int
      /\ Seen("mode", c, a) \in Modes
  BY DEF Seen, Config, Defaults, PlatformOf, Modes
<1>8. Follows(s1, s2) /\ s2.est.ticks = 0
  BY <1>6, <1>7, CapacityListener
<1> HIDE DEF s2
<1>9. Follows(s2, s3) /\ s3.est.ticks = 0
  BY <1>7, <1>8, SyncListener DEF Follows
<1> HIDE DEF s3
<1>10. Follows(s3, s4) /\ s4.est.ticks = 0 /\ s4.est.mode = Seen("mode", c, a)
  BY <1>7, <1>9, ModeListener DEF Follows
<1> HIDE DEF s4
<1>11. Follows(s4, s5) /\ s5.est.ticks = 0 /\ s5.est.mode = s4.est.mode
  BY <1>10, DeadbandListener DEF Follows
<1> HIDE DEF s5
<1> QED BY <1>1, <1>6, <1>8, <1>9, <1>10, <1>11 DEF Follows

-----------------------------------------------------------------------------
(* A published reading.                                                     *)

\* A reference voltage is absent or positive.
LEMMA PositiveType ==
  ASSUME NEW x \in Number
  PROVE  Positive(x) \in {None} \cup Int
BY DEF Number, Positive, IsNumber

\* A field counts as a number unless it is unreadable.
LEMMA FieldType ==
  ASSUME NEW x \in Number, x # Bad
  PROVE  Field(x) \in Int
BY DEF Number, Field

\* What a usable reading has.
LEMMA UsableReading ==
  ASSUME NEW r \in Reading, IsUsable(r)
  PROVE  r.v \in Int /\ Field(r.chg) \in Int /\ Field(r.dis) \in Int
<1>1. r.v \in Number /\ r.chg \in Number /\ r.dis \in Number
  BY DEF Reading
<1>2. r.v # Bad /\ r.chg # Bad /\ r.dis # Bad
  BY DEF IsUsable, IsReadable
<1>3. Field(r.chg) \in Int /\ Field(r.dis) \in Int
  BY <1>1, <1>2, FieldType
<1>4. r.v # None
  BY DEF IsUsable, is_plausible_battery_voltage, Field, MinVoltage
<1> QED BY <1>1, <1>2, <1>3, <1>4 DEF Number

\* The BMS's percentage is absent or one.
LEMMA BmsType ==
  ASSUME NEW r \in Reading, NEW s
  PROVE  _read_bms_soc(s, r) \in {None} \cup (0..100)
<1>1. r.bms \in Number
  BY DEF Reading
<1> QED BY <1>1 DEF Number, _read_bms_soc, IsNumber, Clamp, Greatest, Least

\* The SoC sensor's handler: the charge fits, and no tick is counted that the reading
\* has not earned.
LEMMA HandleSocFits ==
  ASSUME NEW s, SocOK(s), NEW r \in Reading, NEW now \in Nat,
         earned \in Nat, s.est.ticks <= earned
  PROVE  LET t == HandleSoc(Aged(s), r, now)
         IN  /\ SocOK(t) /\ t.est.mode = s.est.mode
             /\ Earned(s, r) \in Nat /\ t.est.ticks <= Earned(s, r)
<1> DEFINE a == Aged(s)
           e == Age(s.est, 1)
           t == HandleSoc(a, r, now)
           G == /\ SocOK(t) /\ t.est.mode = s.est.mode
                /\ Earned(s, r) \in Nat /\ t.est.ticks <= Earned(s, r)
<1>1. s \in SocSensor /\ s.est \in Estimator /\ ChargeFits(s.est) /\ s.est.ticks \in Nat
  BY DEF SocOK, SocSensor, Estimator
<1>2. /\ e \in Estimator /\ e.cap = s.est.cap /\ e.mode = s.est.mode /\ e.acc = s.est.acc
      /\ e.ticks = s.est.ticks /\ e.soc = s.est.soc
  BY <1>1, AgeKeeps
<1>3. ChargeFits(e)
  BY <1>1, <1>2 DEF ChargeFits
<1>4. a = [s EXCEPT !.est = e]
  BY DEF Aged
<1> HIDE DEF e
<1>5. a \in SocSensor /\ a.est = e /\ a.native = s.native /\ a.override = s.override
  BY <1>1, <1>2, <1>4 DEF SocSensor
<1> HIDE DEF a
<1>6. ASSUME IsUsable(r) PROVE G
  <2> DEFINE i    == Field(r.chg) - Field(r.dis)
             sync == get_full_charge_sync_voltage(s, r)
             flt  == Positive(r.float)
             bms  == _read_bms_soc(s, r)
             x    == update(e, i, r.v, sync, flt, bms, now)
             y    == [a EXCEPT !.est = x, !.native = x.soc]
  <2>1. get_full_charge_sync_voltage(a, r) = sync /\ _read_bms_soc(a, r) = bms
    BY <1>2, <1>5 DEF get_full_charge_sync_voltage, _read_bms_soc
  <2>2. t = y
    BY <1>5, <1>6, <2>1 DEF HandleSoc, update_soc
  <2>3. i \in Int /\ r.v \in Int
    BY <1>6, UsableReading
  <2>4. flt \in {None} \cup Int
    BY PositiveType DEF Reading
  <2>5. bms \in {None} \cup (0..100)
    BY BmsType
  <2>6. Earned(s, r) = IF e.cap = None THEN earned
                       ELSE IF Mirrors(e, bms) THEN 0
                       ELSE IF sync = None THEN earned
                       ELSE IF AtFull(e, i, r.v, sync, flt) THEN earned + 1
                       ELSE IF i < -TailCurrent(e) THEN 0 ELSE earned
    <3>1. IsFullTick(s, r) <=> /\ Magnitude(i) <= TailCurrent(e)
                               /\ r.v >= sync \/ (IF flt = None THEN FALSE ELSE r.v >= r.float)
      BY <1>2 DEF IsFullTick, IsAtSync, IsAtFloat, TailCurrent
    <3>2. flt # None => flt = r.float /\ flt \in Int /\ flt > 0
      BY PositiveType DEF Reading, Positive, IsNumber
    <3>3. sync # None => sync \in Int
      BY <1>1, PositiveType DEF get_full_charge_sync_voltage, SocSensor, Reading
    <3>4. sync # None => (IsFullTick(s, r) <=> AtFull(e, i, r.v, sync, flt))
      BY <2>3, <3>1, <3>2, <3>3 DEF AtFull, FullThreshold, Least
    <3> QED BY <1>2, <1>6, <3>4 DEF Earned, Mirrors, TailCurrent
  <2> HIDE DEF i, sync, flt, bms
  <2>7. /\ x \in Estimator /\ ChargeFits(x) /\ x.mode = e.mode
        /\ x.ticks = TicksAfter(e, i, r.v, sync, flt, bms)
    <3>1. Inputs(e, i, r.v, flt, bms, now)
      BY <1>2, <1>3, <2>3, <2>4, <2>5 DEF Inputs
    <3> HIDE DEF x
    <3> DEFINE w == r.v
    <3>2. Inputs(e, i, w, flt, bms, now) /\ x = update(e, i, w, sync, flt, bms, now)
      BY <3>1 DEF x
    <3> HIDE DEF w
    <3>3. x \in Estimator
      BY <3>2, UpdateFits
    <3>4. ChargeFits(x)
      BY <3>2, UpdateFits
    <3>5. x.mode = e.mode
      BY <3>2, UpdateFits
    <3>6. x.ticks = TicksAfter(e, i, w, sync, flt, bms)
      BY <3>2, UpdateFits
    <3> QED BY <3>3, <3>4, <3>5, <3>6 DEF w
  <2> HIDE DEF x
  <2>8. x.ticks <= Earned(s, r) /\ Earned(s, r) \in Nat
    BY <1>1, <1>2, <2>6, <2>7 DEF TicksAfter, Ticks, Greatest
  <2>9. x.soc \in {None} \cup SocRange
    BY <2>7 DEF Estimator
  <2>10. y \in SocSensor /\ y.est = x
    BY <1>5, <2>7, <2>9 DEF SocSensor
  <2> HIDE DEF y
  <2> QED BY <1>2, <2>2, <2>7, <2>8, <2>10 DEF SocOK
<1>7. ASSUME ~IsUsable(r) /\ IsReadable(r) PROVE G
  <2>1. t = a /\ Earned(s, r) = earned
    BY <1>7 DEF HandleSoc, Earned
  <2> QED BY <1>2, <1>3, <1>5, <2>1 DEF SocOK
<1>8. ASSUME ~IsUsable(r) /\ ~IsReadable(r) PROVE G
  <2>1. t = [a EXCEPT !.native = None] /\ Earned(s, r) = earned
    BY <1>8 DEF HandleSoc, Earned
  <2>2. t \in SocSensor /\ t.est = e
    BY <1>5, <2>1 DEF SocSensor
  <2> QED BY <1>2, <1>3, <2>1, <2>2 DEF SocOK
<1> QED BY <1>6, <1>7, <1>8 DEF a

\* A time is a number, and there is none without a state of charge.
LEMMA HoursType ==
  ASSUME NEW s, SocOK(s), NEW from, NEW to, NEW i \in Int,
         s.native # None => from \in Int /\ to \in Int
  PROVE  Hours(s, from, to, i) \in {None} \cup Nat /\ (s.native = None => Hours(s, from, to, i) = None)
<1>1. CASE s.native = None \/ s.est.cap = None \/ i < 1
  BY <1>1 DEF Hours
<1>2. CASE s.native # None /\ s.est.cap # None /\ ~(i < 1)
  <2>1. s.est.cap \in Nat /\ from \in Int /\ to \in Int /\ i \in Nat \ {0}
    BY <1>2 DEF SocOK, SocSensor, Estimator
  <2>2. CASE from <= to
    BY <1>2, <2>2 DEF Hours
  <2>3. CASE ~(from <= to)
    <3> DEFINE n == (from - to) * s.est.cap
    <3>1. from - to \in Nat
      BY <2>1, <2>3
    <3>2. n \in Nat
      BY <2>1, <3>1
    <3>3. Hours(s, from, to, i) = n \div i
      BY <1>2, <2>3 DEF Hours
    <3> HIDE DEF n
    <3>4. n \div i \in Nat
      BY <2>1, <3>2
    <3> QED BY <1>2, <3>3, <3>4
  <2> QED BY <2>2, <2>3
<1> QED BY <1>1, <1>2

\* The derived sensors follow the SoC sensor.
LEMMA DerivedFollows ==
  ASSUME NEW s, SocOK(s), NEW r \in Reading, conf \in Config
  PROVE  LET d == Derived(s, r)
         IN  /\ d \in Times
             /\ s.native = None => d.floor = None /\ d.full = None /\ d.backup = None
<1>1. 100 * _read_target_floor \in Int
  BY DEF _read_target_floor, Seen, PlatformOf, Config, Defaults
<1>2. s.native # None => s.native \in Int
  <2>1. s.native \in {None} \cup SocRange
    BY DEF SocOK, SocSensor
  <2>2. \A n \in SocRange : n \in Int
    BY DEF SocRange, Full
  <2> QED BY <2>1, <2>2, Zenon
<1>3. _read_current_a(r.dis) \in Int /\ _read_current_a(r.chg) \in Int
  BY DEF _read_current_a, IsNumber, Reading, Number
<1>4. TimeToFloor(s, r) \in {None} \cup Nat /\ (s.native = None => TimeToFloor(s, r) = None)
  BY <1>1, <1>2, <1>3, HoursType DEF TimeToFloor
<1>5. TimeToFull(s, r) \in {None} \cup Nat /\ (s.native = None => TimeToFull(s, r) = None)
  BY <1>2, <1>3, HoursType DEF TimeToFull, Full
<1>6. BackupTime(s, r) \in {None} \cup Nat /\ (s.native = None => BackupTime(s, r) = None)
  <2>1. CASE Bad \in {r.load, r.pv, r.v}
    BY <2>1 DEF BackupTime
  <2>2. CASE Bad \notin {r.load, r.pv, r.v}
    <3>1. Field(r.load) \in Int /\ Field(r.pv) \in Int /\ Field(r.v) \in Int
      BY <2>2, FieldType DEF Reading
    <3>2. EquivalentDischarge(r) \in Int
      <4> DEFINE net == Greatest(0, Field(r.load) - Field(r.pv))
      <4>1. net \in Nat
        BY <3>1 DEF Greatest
      <4>2. Field(r.v) > 0 => r.v \in Nat \ {0}
        BY <2>2, <3>1 DEF Field, Reading, Number
      <4> HIDE DEF net
      <4> QED BY <3>1, <4>1, <4>2 DEF EquivalentDischarge, net
    <3> QED BY <1>1, <1>2, <2>2, <3>2, HoursType DEF BackupTime
  <2> QED BY <2>1, <2>2
<1>7. LastSync(s) \in {None} \cup Nat
  BY DEF LastSync, SocOK, SocSensor, Estimator
<1> QED BY <1>4, <1>5, <1>6, <1>7 DEF Derived, Times

-----------------------------------------------------------------------------
(* The energy meters.                                                       *)

Trace == [p : Int, age : Nat, gap : BOOLEAN]

Gapless == {"pv2", "battery_in", "battery_out"}

\* A meter's baseline is the last sample.
Linked(k, m, l) ==
  /\ m.prev # None => m.prev = l.p /\ m.age = l.age
  /\ m.prev # None /\ k \in Gapless => ~l.gap

\* From meter m, whose last sample is l, to meter n, whose last sample is o.
Grows(k, m, n, l, o) ==
  /\ n.wh >= m.wh
  /\ n.wh # m.wh =>
       /\ l.p >= 0 \/ o.p >= 0
       /\ n.wh - m.wh <= (l.age + 1) * Greatest(l.p, o.p)
       /\ o.age = 0 /\ ~o.gap
       /\ k \in Gapless => ~l.gap

Measures(k, m, n, l, o) == n \in Meter /\ o \in Trace /\ Linked(k, n, o) /\ Grows(k, m, n, l, o)

\* A sample is a power, or there is none.
LEMMA SampleType ==
  ASSUME NEW k \in Kinds, NEW r \in Reading
  PROVE  /\ Sample(k, r) \in Int \cup {Skip, Drop}
         /\ k \in Gapless => Sample(k, r) # Skip
<1>1. /\ r.pv \in Number /\ r.pv2 \in Number /\ r.load \in Number
      /\ r.chg \in Number /\ r.dis \in Number /\ r.v \in Number
  BY DEF Reading
<1>2. ASSUME NEW x \in Number
      PROVE  PowerSample(x) \in Int \cup {Skip, Drop}
  BY <1>2 DEF PowerSample, IsNumber, Number
<1>3. ASSUME NEW x \in Number
      PROVE  Pv2Sample(x) \in Int \cup {Skip, Drop} /\ Pv2Sample(x) # Skip
  BY <1>2, <1>3, ValueAssumption DEF Pv2Sample
<1>4. ASSUME NEW x \in Number, NEW y \in Number
      PROVE  BatterySample(x, y) \in Int \cup {Skip, Drop} /\ BatterySample(x, y) # Skip
  <2>1. CASE BatterySample(x, y) = Drop
    BY <2>1, ValueAssumption
  <2>2. CASE BatterySample(x, y) # Drop
    <3>1. x \in Int /\ y \in Int /\ BatterySample(x, y) = (x * y) \div 100
      BY <2>2 DEF BatterySample, IsNumber, Number
    <3>2. (x * y) \div 100 \in Int
      BY <3>1
    <3> QED BY <3>1, <3>2, ValueAssumption
  <2> QED BY <2>1, <2>2
<1>5. CASE k = "pv"
  BY <1>1, <1>2, <1>5 DEF Sample, DirectPVEnergy, Gapless
<1>6. CASE k = "pv2"
  BY <1>1, <1>3, <1>6 DEF Sample, DirectPV2Energy
<1>7. CASE k = "inverter_out"
  BY <1>1, <1>2, <1>7 DEF Sample, DirectInverterOutputEnergy, Gapless
<1>8. CASE k = "battery_in"
  BY <1>1, <1>4, <1>8 DEF Sample, DirectBatteryInEnergy
<1>9. CASE k = "battery_out"
  BY <1>1, <1>4, <1>9 DEF Sample, DirectBatteryOutEnergy
<1> QED BY <1>5, <1>6, <1>7, <1>8, <1>9 DEF Kinds

\* A trapezoid is no larger than the rectangle under its higher side, and not negative
\* only when one of its sides is not.
LEMMA Trapezoid ==
  ASSUME NEW h \in Nat \ {0}, NEW a \in Int, NEW b \in Int
  PROVE  LET q == (h * (a + b)) \div 2
         IN  /\ q \in Int
             /\ q <= h * Greatest(a, b)
             /\ q >= 0 => a >= 0 \/ b >= 0
<1> DEFINE g == Greatest(a, b)
           n == h * (a + b)
           q == n \div 2
<1>1. g \in Int /\ a <= g /\ b <= g
  BY DEF Greatest
<1> HIDE DEF g
<1>2. h * (a + b) <= h * (2 * g)
  BY <1>1
<1>3. n \in Int /\ n <= 2 * (h * g) /\ h * g \in Int
  BY <1>1, <1>2
<1>4. a < 0 /\ b < 0 => n < 0
  BY <1>1
<1> HIDE DEF n
<1>5. q \in Int /\ 2 * q <= n /\ n < 2 * q + 2
  BY <1>3
<1> HIDE DEF q
<1>6. q <= h * g
  BY <1>3, <1>5
<1>7. q >= 0 => a >= 0 \/ b >= 0
  BY <1>3, <1>4, <1>5
<1> QED BY <1>5, <1>6, <1>7 DEF q, n, g

\* Time passes for a meter and its last sample.
LEMMA OlderKeeps ==
  ASSUME NEW k \in Kinds, NEW m \in Meter, NEW l \in Trace, Linked(k, m, l)
  PROVE  Measures(k, m, Older(m, 1), l, [l EXCEPT !.age = @ + 1])
<1> DEFINE n == Older(m, 1)
           o == [l EXCEPT !.age = @ + 1]
<1>1. o \in Trace /\ o.p = l.p /\ o.age = l.age + 1 /\ o.gap = l.gap
  BY DEF Trace
<1>2. n \in Meter /\ n.wh = m.wh /\ n.prev = m.prev /\ (m.prev # None => n.age = m.age + 1)
  BY DEF Older, Meter
<1>3. m.wh \in Nat
  BY DEF Meter
<1> HIDE DEF n, o
<1>4. Linked(k, n, o)
  BY <1>1, <1>2 DEF Linked
<1>5. Grows(k, m, n, l, o)
  BY <1>2, <1>3 DEF Grows
<1> QED BY <1>1, <1>2, <1>4, <1>5 DEF Measures, n, o

\* A reading reaches a meter.
LEMMA HandleMeasures ==
  ASSUME NEW k \in Kinds, NEW m \in Meter, NEW r \in Reading,
         last[k] \in Trace, Linked(k, m, last[k])
  PROVE  Measures(k, m, Handle(k, Older(m, 1), r), last[k], Observed(k, r))
<1> DEFINE l == last[k]
           p == Sample(k, r)
           a == Older(m, 1)
           n == Handle(k, a, r)
           o == Observed(k, r)
           G == Measures(k, m, n, l, o)
<1>1. p \in Int \cup {Skip, Drop} /\ (k \in Gapless => p # Skip)
  BY SampleType
<1>2. a \in Meter /\ a.wh = m.wh /\ a.prev = m.prev /\ (m.prev # None => a.age = m.age + 1)
  BY DEF Older, Meter
<1>3. m.wh \in Nat /\ l.p \in Int /\ l.age \in Nat
  BY DEF Meter, Trace
<1>4. m.prev # None => m.prev = l.p /\ m.age = l.age /\ (k \in Gapless => ~l.gap)
  BY DEF Linked
<1>5. n = IF p = Skip THEN a ELSE IF p = Drop THEN NewAccumulator(a.wh)
          ELSE update_energy_value(a, p)
  BY ValueAssumption, Zenon DEF Handle
<1>6. o = IF p \in {Skip, Drop} THEN [l EXCEPT !.age = @ + 1, !.gap = TRUE]
          ELSE [p |-> p, age |-> 0, gap |-> FALSE]
  BY DEF Observed
<1> HIDE DEF p, a, n, o
<1>7. ASSUME p \in {Skip, Drop} PROVE o \in Trace /\ o.p = l.p /\ o.age = l.age + 1
  <2> DEFINE y == TRUE
  <2>1. l \in Trace /\ y \in BOOLEAN
    OBVIOUS
  <2>2. o = [l EXCEPT !.age = @ + 1, !.gap = y]
    BY <1>6, <1>7
  <2> HIDE DEF l, y
  <2>3. o.p = l.p /\ o.age = l.age + 1
    BY <2>1, <2>2 DEF Trace
  <2>4. o \in Trace
    <3> DEFINE b == [l EXCEPT !.age = @ + 1]
    <3>1. o = [b EXCEPT !.gap = y]
      BY <2>2
    <3>2. b \in Trace
      BY <2>1 DEF Trace
    <3> HIDE DEF b
    <3> QED BY <2>1, <3>1, <3>2 DEF Trace
  <2> QED BY <2>3, <2>4
<1>8. ASSUME p = Skip PROVE G
  <2>1. n = a /\ k \notin Gapless
    BY <1>1, <1>5, <1>8
  <2>2. Linked(k, n, o)
    BY <1>2, <1>4, <1>7, <1>8, <2>1 DEF Linked
  <2>3. Grows(k, m, n, l, o)
    BY <1>2, <1>3, <2>1 DEF Grows
  <2> QED BY <1>2, <1>7, <1>8, <2>1, <2>2, <2>3 DEF Measures
<1>9. ASSUME p = Drop PROVE G
  <2>1. n = NewAccumulator(m.wh)
    BY <1>2, <1>5, <1>9, ValueAssumption
  <2>2. n \in Meter /\ n.wh = m.wh /\ n.prev = None
    BY <1>3, <2>1 DEF NewAccumulator, Meter
  <2>3. Linked(k, n, o)
    BY <2>2 DEF Linked
  <2>4. Grows(k, m, n, l, o)
    BY <1>3, <2>2 DEF Grows
  <2> QED BY <1>7, <1>9, <2>2, <2>3, <2>4 DEF Measures
<1>10. ASSUME p \notin {Skip, Drop} PROVE G
  <2>1. p \in Int
    BY <1>1, <1>10
  <2>2. o = [p |-> p, age |-> 0, gap |-> FALSE]
    BY <1>6, <1>10
  <2>3. o \in Trace /\ o.p = p /\ o.age = 0 /\ ~o.gap
    BY <2>1, <2>2 DEF Trace
  <2>4. n = update_energy_value(a, p)
    BY <1>5, <1>10
  <2>5. CASE a.prev = None
    <3>1. n = [a EXCEPT !.prev = p, !.age = 0]
      BY <2>4, <2>5 DEF update_energy_value
    <3>2. n \in Meter /\ n.wh = m.wh /\ n.prev = p /\ n.age = 0
      BY <1>2, <2>1, <3>1 DEF Meter
    <3>3. Linked(k, n, o)
      BY <2>3, <3>2 DEF Linked
    <3>4. Grows(k, m, n, l, o)
      BY <1>3, <3>2 DEF Grows
    <3> QED BY <2>3, <3>2, <3>3, <3>4 DEF Measures
  <2>6. CASE a.prev # None
    <3> DEFINE q == StepWh(a, p)
               h == l.age + 1
    <3>1. a.prev = l.p /\ a.age = h /\ h \in Nat \ {0} /\ (k \in Gapless => ~l.gap)
      BY <1>2, <1>3, <1>4, <2>6
    <3>2. q = (h * (l.p + p)) \div 2
      BY <3>1 DEF StepWh
    <3> HIDE DEF h, q
    <3>3. q \in Int /\ q <= h * Greatest(l.p, p) /\ (q >= 0 => l.p >= 0 \/ p >= 0)
      BY <1>3, <2>1, <3>1, <3>2, Trapezoid
    <3>4. CASE 0 <= q /\ q <= max_step_wh(a.age)
      <4>1. n = [wh |-> a.wh + q, prev |-> p, age |-> 0]
        BY <2>4, <2>6, <3>4 DEF update_energy_value, q
      <4>2. m.wh + q \in Nat
        BY <1>3, <3>3, <3>4
      <4>3. n \in Meter /\ n.wh = m.wh + q /\ n.prev = p /\ n.age = 0
        BY <1>2, <2>1, <4>1, <4>2 DEF Meter
      <4>4. Linked(k, n, o)
        BY <2>3, <4>3 DEF Linked
      <4>5. n.wh >= m.wh /\ n.wh - m.wh = q
        BY <1>3, <3>3, <3>4, <4>3
      <4>6. Grows(k, m, n, l, o)
        BY <2>3, <3>1, <3>3, <3>4, <4>5 DEF Grows, h
      <4> QED BY <2>3, <4>3, <4>4, <4>6 DEF Measures
    <3>5. CASE ~(0 <= q /\ q <= max_step_wh(a.age))
      <4>1. n = NewAccumulator(m.wh)
        BY <1>2, <2>4, <2>6, <3>5 DEF update_energy_value, q
      <4>2. n \in Meter /\ n.wh = m.wh /\ n.prev = None
        BY <1>3, <4>1 DEF NewAccumulator, Meter
      <4>3. Linked(k, n, o)
        BY <4>2 DEF Linked
      <4>4. Grows(k, m, n, l, o)
        BY <1>3, <4>2 DEF Grows
      <4> QED BY <2>3, <4>2, <4>3, <4>4 DEF Measures
    <3> QED BY <3>4, <3>5
  <2> QED BY <2>5, <2>6
<1> QED BY <1>8, <1>9, <1>10 DEF n, o, a

-----------------------------------------------------------------------------
(* The data.                                                                *)

\* A device's registers make a reading.
LEMMA RegistersRead ==
  ASSUME NEW s \in Register
  PROVE  smg2_to_qpigs(s) \in Reading
<1> DEFINE i == _i16(s.i)
           chg  == IF i > 0 THEN Whole(i) ELSE 0
           dis  == IF i < 0 THEN Whole(-i) ELSE 0
           pv   == _i16(s.pv)
           load == AbsInt(_i16(s.load))
<1>1. /\ s.v \in Nat /\ s.i \in Nat /\ s.pv \in Nat /\ s.load \in Nat
      /\ s.bulk \in Nat /\ s.float \in Nat
  BY DEF Register
<1>2. \A n \in Nat : _i16(n) \in Int
  BY DEF _i16
<1>3. i \in Int /\ pv \in Int /\ _i16(s.load) \in Int
  BY <1>1, <1>2
<1> HIDE DEF i
<1>4. chg \in Int /\ dis \in Int
  BY <1>3 DEF Whole
<1>5. load \in Int
  BY <1>3 DEF AbsInt
<1>6. smg2_to_qpigs(s) = [v |-> s.v, chg |-> chg, dis |-> dis, pv |-> pv, load |-> load,
                          pv2 |-> None, bms |-> 100, bits |-> 0, bulk |-> s.bulk,
                          float |-> s.float]
  BY DEF smg2_to_qpigs, i
<1> HIDE DEF chg, dis, pv, load
<1>7. /\ s.v \in Number /\ chg \in Number /\ dis \in Number /\ pv \in Number
      /\ load \in Number /\ None \in Number /\ 100 \in Number /\ 0 \in Number
      /\ s.bulk \in Number /\ s.float \in Number
  BY <1>1, <1>3, <1>4, <1>5 DEF Number
<1> QED BY <1>6, <1>7 DEF Reading

\* What the coordinator publishes is a reading.
LEMMA ReportedIsReading ==
  /\ \A r \in Reported : r \in Reading
  /\ \A r \in Garbled : r \in Reading
  /\ Blank \in Reading
<1>1. \A r \in Readings : r \in Reading
  BY DataAssumption
<1>2. \A s \in Registers : smg2_to_qpigs(s) \in Reading
  BY DataAssumption, RegistersRead
<1>3. \A r \in Reported : r \in Reading
  BY <1>1, <1>2, Zenon DEF Reported
<1> QED BY <1>3, DataAssumption

-----------------------------------------------------------------------------
(* The invariant of the sensors.                                            *)

SensorInv ==
  /\ SensorTypeOK /\ SensorsAgree /\ EnergyIsKept
  /\ SocAgreesWithCharge /\ SnapIsEarned /\ EtaNeedsSoc

\* What a step may make of the meters.
MetersMove ==
  \A k \in Kinds : "sensor" \in added /\ "sensor" \in added' =>
    Grows(k, acc[k], acc'[k], last[k], last'[k])

Hows == {"intact", "shifted", "damaged", "blank"}

\* The meters and their last samples agree.
MetersLinked ==
  \A k \in Kinds : acc[k] \in Meter /\ last[k] \in Trace /\ Linked(k, acc[k], last[k])

\* The SoC sensor agrees with the configuration, the history and the derived sensors.
SocAgrees ==
  /\ SocOK(soc) /\ soc.est.ticks <= earned /\ earned \in Nat /\ eta \in Times
  /\ soc.native = None => eta.floor = None /\ eta.full = None /\ eta.backup = None
  /\ "sensor" \notin added => soc = NewSoc
  /\ {"sensor", "select"} \subseteq added => soc.est.mode = conf.mode

\* The rest.
RestHolds ==
  /\ attempt \in 1..2 /\ clock \in Nat
  /\ known.r \in Reading /\ known.how \in Hows
  /\ conf \in Config /\ added \subseteq Platforms /\ saved \in Store
  /\ shown \in {None} \cup SocRange

Tables == acc \in [Kinds -> Meter] /\ last \in [Kinds -> Trace]

\* The invariant by sensor instead of by property.
LEMMA BySensor ==
  SensorInv <=> Tables /\ MetersLinked /\ SocAgrees /\ RestHolds /\ EnergyIsKept
<1>1. SensorTypeOK <=> /\ Tables /\ RestHolds
                       /\ soc \in SocSensor /\ eta \in Times /\ earned \in Nat
  BY DEF SensorTypeOK, Tables, RestHolds, Hows, Trace
<1>2. ASSUME Tables
      PROVE  MetersLinked <=>
               \A k \in Kinds :
                 /\ acc[k].prev # None => acc[k].prev = last[k].p /\ acc[k].age = last[k].age
                 /\ acc[k].prev # None /\ k \in {"pv2", "battery_in", "battery_out"} => ~last[k].gap
  <2>1. \A k \in Kinds : acc[k] \in Meter /\ last[k] \in Trace
    BY <1>2 DEF Tables
  <2> QED BY <2>1, Zenon DEF MetersLinked, Linked, Gapless
<1> QED BY <1>1, <1>2, Zenon
        DEF SensorInv, SensorsAgree, SocAgreesWithCharge, SnapIsEarned, EtaNeedsSoc, SocAgrees,
            SocOK

\* The same of the state after a step.
LEMMA BySensorPrime ==
  SensorInv' <=> Tables' /\ MetersLinked' /\ SocAgrees' /\ RestHolds' /\ EnergyIsKept'
BY BySensor, PTL

\* Meters that stay as they are do not grow.
LEMMA MetersRest ==
  ASSUME MetersLinked, UNCHANGED <<acc, last>>
  PROVE  MetersMove
<1>1. \A k \in Kinds : acc[k].wh \in Nat
  BY DEF MetersLinked, Meter
<1> QED BY <1>1 DEF MetersMove, Grows

-----------------------------------------------------------------------------
(* The steps.                                                               *)

\* A step of the line alone, or another attempt.
LEMMA QuietStep ==
  ASSUME SensorInv, attempt' \in 1..2,
         UNCHANGED <<known, sensorVars, conf, added, saved, clock, historyVars>>
  PROVE  SensorInv' /\ MetersMove
<1> USE DEF sensorVars, historyVars
<1>1. MetersLinked
  BY BySensor
<1>2. MetersMove
  BY <1>1, MetersRest
<1>3. SensorInv'
  BY DEF SensorInv, SensorTypeOK, SensorsAgree, EnergyIsKept, SocAgreesWithCharge,
         SnapIsEarned, EtaNeedsSoc
<1> QED BY <1>2, <1>3

\* A sensor that is not there does not grow older.
LEMMA NewSocStays == Aged(NewSoc) = NewSoc
BY DEF Aged, Age, NewSoc, NewEstimator

\* Time passes for the SoC sensor.
LEMMA AgedKeeps ==
  ASSUME NEW s, SocOK(s)
  PROVE  /\ SocOK(Aged(s)) /\ Aged(s).native = s.native
         /\ Aged(s).est.mode = s.est.mode /\ Aged(s).est.ticks = s.est.ticks
<1> DEFINE e == Age(s.est, 1)
           t == [s EXCEPT !.est = e]
<1>1. s \in SocSensor /\ s.est \in Estimator /\ ChargeFits(s.est)
  BY DEF SocOK, SocSensor
<1>2. /\ e \in Estimator /\ e.cap = s.est.cap /\ e.mode = s.est.mode /\ e.acc = s.est.acc
      /\ e.ticks = s.est.ticks /\ e.soc = s.est.soc
  BY <1>1, AgeKeeps
<1>3. ChargeFits(e)
  BY <1>1, <1>2 DEF ChargeFits
<1> HIDE DEF e
<1>4. t \in SocSensor /\ t.est = e /\ t.native = s.native
  BY <1>1, <1>2 DEF SocSensor
<1> HIDE DEF t
<1>5. Aged(s) = t
  BY DEF Aged, e, t
<1> QED BY <1>2, <1>3, <1>4, <1>5 DEF SocOK

\* A cycle ends.
LEMMA PublishStep ==
  ASSUME SensorInv, NEW r \in Reading, NEW how \in Hows, Publish(r, how)
  PROVE  SensorInv' /\ MetersMove
<1>1. Tables /\ MetersLinked /\ SocAgrees /\ RestHolds /\ EnergyIsKept
  BY BySensor
<1>2. /\ known' = [r |-> r, how |-> how] /\ clock' = clock + 1 /\ attempt' = 1
      /\ UNCHANGED <<conf, added, saved>>
      /\ shown' = IF soc'.native = None THEN shown ELSE soc'.native
  BY DEF Publish, Shown
<1>3. conf \in Config /\ clock + 1 \in Nat
  BY <1>1 DEF RestHolds
<1>4. /\ SocOK(soc) /\ soc.est.ticks <= earned /\ earned \in Nat /\ eta \in Times
      /\ soc.native = None => eta.floor = None /\ eta.full = None /\ eta.backup = None
      /\ "sensor" \notin added => soc = NewSoc
      /\ {"sensor", "select"} \subseteq added => soc.est.mode = conf.mode
  BY <1>1 DEF SocAgrees
<1>5. \A k \in Kinds : Measures(k, acc[k], acc'[k], last[k], last'[k])
  <2> TAKE k \in Kinds
  <2>1. acc[k] \in Meter /\ last[k] \in Trace /\ Linked(k, acc[k], last[k])
    BY <1>1 DEF MetersLinked
  <2>2. CASE Reaches(r)
    <3>1. acc'[k] = Handle(k, Older(acc[k], 1), r) /\ last'[k] = Observed(k, r)
      BY <2>2 DEF Publish
    <3> QED BY <2>1, <3>1, HandleMeasures
  <2>3. CASE ~Reaches(r)
    <3>1. acc'[k] = Older(acc[k], 1) /\ last'[k] = [last[k] EXCEPT !.age = @ + 1]
      BY <2>3 DEF Publish
    <3> QED BY <2>1, <3>1, OlderKeeps
  <2> QED BY <2>2, <2>3
<1>6. Tables'
  <2>1. \A k \in Kinds : acc'[k] \in Meter /\ last'[k] \in Trace
    BY <1>5 DEF Measures
  <2>2. acc' = [k \in Kinds |-> acc'[k]] /\ last' = [k \in Kinds |-> last'[k]]
    BY DEF Publish
  <2> QED BY <2>1, <2>2 DEF Tables
<1>7. MetersLinked'
  BY <1>5 DEF MetersLinked, Measures
<1>8. MetersMove
  BY <1>5 DEF MetersMove, Measures
<1>9. EnergyIsKept'
  <2>1. \A k \in Kinds : /\ acc'[k].wh >= acc[k].wh /\ acc[k].wh \in Nat /\ acc'[k].wh \in Nat
                         /\ saved.wh[k] \in Nat
    BY <1>1, <1>5 DEF Measures, Grows, MetersLinked, Meter, RestHolds, Store
  <2> QED BY <1>1, <1>2, <2>1 DEF EnergyIsKept
<1>10. SocAgrees'
  <2>1. CASE Reaches(r)
    <3>1. soc' = HandleSoc(Aged(soc), r, clock + 1)
      BY <2>1 DEF Publish
    <3>2. earned' = Earned(soc, r)
      BY <2>1 DEF Publish
    <3>3. eta' = Derived(soc', r)
      BY <2>1 DEF Publish, LiveSoc
    <3>4. /\ SocOK(soc') /\ soc'.est.mode = soc.est.mode
          /\ earned' \in Nat /\ soc'.est.ticks <= earned'
      BY <1>3, <1>4, <3>1, <3>2, HandleSocFits
    <3>5. /\ eta' \in Times
          /\ soc'.native = None => eta'.floor = None /\ eta'.full = None /\ eta'.backup = None
      BY <1>3, <3>3, <3>4, DerivedFollows
    <3>6. "sensor" \in added
      BY <2>1 DEF Reaches
    <3> QED BY <1>2, <1>4, <3>4, <3>5, <3>6 DEF SocAgrees
  <2>2. CASE ~Reaches(r)
    <3>1. soc' = Aged(soc) /\ earned' = earned /\ eta' = eta
      BY <2>2 DEF Publish
    <3>2. /\ SocOK(soc') /\ soc'.native = soc.native
          /\ soc'.est.mode = soc.est.mode /\ soc'.est.ticks = soc.est.ticks
      BY <1>4, <3>1, AgedKeeps
    <3>3. "sensor" \notin added => soc' = NewSoc
      BY <1>4, <3>1, NewSocStays
    <3> QED BY <1>2, <1>4, <3>1, <3>2, <3>3 DEF SocAgrees
  <2> QED BY <2>1, <2>2
<1>11. RestHolds'
  <2>1. soc'.native \in {None} \cup SocRange
    BY <1>10 DEF SocAgrees, SocOK, SocSensor
  <2>2. shown' \in {None} \cup SocRange
    BY <1>1, <1>2, <2>1 DEF RestHolds
  <2> QED BY <1>1, <1>2, <1>3, <2>2 DEF RestHolds
<1> QED BY <1>6, <1>7, <1>8, <1>9, <1>10, <1>11, BySensorPrime

\* The listeners of a change that leaves the meters alone.
LEMMA ListenersStep ==
  ASSUME SensorInv, SocAgrees', RestHolds', UNCHANGED <<acc, last, saved>>,
         "sensor" \in added' => "sensor" \in added
  PROVE  SensorInv' /\ MetersMove
<1>1. Tables /\ MetersLinked /\ EnergyIsKept
  BY BySensor
<1>2. MetersMove
  BY <1>1, MetersRest
<1>3. Tables' /\ MetersLinked' /\ EnergyIsKept'
  BY <1>1 DEF Tables, MetersLinked, EnergyIsKept
<1> QED BY <1>2, <1>3, BySensorPrime

\* The user changes a configuration entity.
LEMMA ChangedStep ==
  ASSUME SensorInv, NEW key \in Keys, NEW value, Changed(key, value), conf' \in Config
  PROVE  SensorInv' /\ MetersMove
<1>1. SocAgrees /\ RestHolds
  BY BySensor
<1>2. /\ PlatformOf(key) \in added /\ conf[key] # value
      /\ conf' = [conf EXCEPT ![key] = value]
      /\ soc' = IF "sensor" \in added THEN Listener(soc, key, conf', added) ELSE soc
      /\ earned' = IF key = "mode" THEN 0 ELSE earned
      /\ shown' = IF soc'.native = None THEN shown ELSE soc'.native
      /\ UNCHANGED <<attempt, known, acc, eta, added, saved, clock, last>>
  BY DEF Changed, Shown
<1>3. /\ SocOK(soc) /\ soc.est.ticks <= earned /\ earned \in Nat /\ eta \in Times
      /\ soc.native = None => eta.floor = None /\ eta.full = None /\ eta.backup = None
      /\ "sensor" \notin added => soc = NewSoc
      /\ {"sensor", "select"} \subseteq added => soc.est.mode = conf.mode
  BY <1>1 DEF SocAgrees
<1>4. key # "mode" => conf'.mode = conf.mode
  BY <1>1, <1>2 DEF RestHolds, Config
<1>5. key = "mode" => /\ "select" \in added /\ conf'.mode = value /\ conf.mode # value
  BY <1>1, <1>2 DEF RestHolds, Config, PlatformOf
<1>6. SocAgrees'
  <2>1. CASE "sensor" \in added
    <3>1. soc' = Listener(soc, key, conf', added)
      BY <1>2, <2>1
    <3>2. /\ Follows(soc, soc')
          /\ key # "mode" => soc'.est.mode = soc.est.mode
          /\ key = "mode" => /\ soc'.est.mode = conf'.mode
                             /\ conf'.mode # soc.est.mode => soc'.est.ticks = 0
      BY <1>3, <3>1, ListenerFollows
    <3>3. SocOK(soc') /\ soc'.est.ticks <= soc.est.ticks /\ (soc'.native = None => soc.native = None)
      BY <3>2 DEF Follows
    <3>4. soc'.est.ticks \in Nat /\ soc.est.ticks \in Nat
      BY <1>3, <3>3 DEF SocOK, SocSensor, Estimator
    <3>5. earned' \in Nat /\ soc'.est.ticks <= earned'
      <4>1. CASE key = "mode"
        BY <1>2, <1>3, <1>5, <2>1, <3>2, <4>1
      <4>2. CASE key # "mode"
        BY <1>2, <1>3, <3>3, <3>4, <4>2
      <4> QED BY <4>1, <4>2
    <3>6. {"sensor", "select"} \subseteq added => soc'.est.mode = conf'.mode
      BY <1>3, <1>4, <3>2
    <3> QED BY <1>2, <1>3, <2>1, <3>3, <3>5, <3>6 DEF SocAgrees
  <2>2. CASE "sensor" \notin added
    <3>1. soc' = NewSoc /\ soc = NewSoc
      BY <1>2, <1>3, <2>2
    <3>2. soc'.est.ticks = 0
      BY <3>1, NewSocOK
    <3>3. earned' \in Nat /\ soc'.est.ticks <= earned'
      BY <1>2, <1>3, <3>2
    <3> QED BY <1>2, <1>3, <2>2, <3>1, <3>3 DEF SocAgrees
  <2> QED BY <2>1, <2>2
<1>7. RestHolds'
  <2>1. soc'.native \in {None} \cup SocRange
    BY <1>6 DEF SocAgrees, SocOK, SocSensor
  <2>2. shown' \in {None} \cup SocRange
    BY <1>1, <1>2, <2>1 DEF RestHolds
  <2> QED BY <1>1, <1>2, <2>2 DEF RestHolds
<1> QED BY <1>2, <1>6, <1>7, ListenersStep

\* The three ways to change one.
LEMMA EntityStep ==
  ASSUME SensorInv,
         \/ \E e \in Edits : async_set_native_value(e.key, e.value)
         \/ \E option \in Options : async_select_option(option)
         \/ \E on \in BOOLEAN : async_turn(on)
  PROVE  SensorInv' /\ MetersMove
<1>1. conf \in Config
  BY DEF SensorInv, SensorTypeOK
<1>2. ASSUME NEW e \in Edits, async_set_native_value(e.key, e.value)
      PROVE  SensorInv' /\ MetersMove
  <2> DEFINE key   == e.key
             value == e.value
  <2>1. key \in {"cap", "override", "window", "floor", "target"} /\ value \in Int
    BY DataAssumption
  <2>2. Changed(key, value)
    BY <1>2 DEF async_set_native_value
  <2> HIDE DEF key, value
  <2>3. conf' = [conf EXCEPT ![key] = value]
    BY <2>2 DEF Changed
  <2>4. conf' \in Config
    BY <1>1, <2>1, <2>3 DEF Config
  <2> QED BY <2>1, <2>2, <2>4, ChangedStep DEF Keys
<1>3. ASSUME NEW option \in Options, async_select_option(option)
      PROVE  SensorInv' /\ MetersMove
  <2>1. Changed("mode", option) /\ option \in Modes
    BY <1>3 DEF async_select_option
  <2>2. conf' = [conf EXCEPT !["mode"] = option]
    BY <2>1 DEF Changed
  <2>3. conf' \in Config
    BY <1>1, <2>1, <2>2 DEF Config
  <2> QED BY <2>1, <2>3, ChangedStep DEF Keys
<1>4. ASSUME NEW on \in BOOLEAN, async_turn(on)
      PROVE  SensorInv' /\ MetersMove
  <2>1. Changed("deadband", on)
    BY <1>4 DEF async_turn
  <2>2. conf' = [conf EXCEPT !["deadband"] = on]
    BY <2>1 DEF Changed
  <2>3. conf' \in Config
    BY <1>1, <2>2 DEF Config
  <2> QED BY <2>1, <2>3, ChangedStep DEF Keys
<1> QED BY <1>2, <1>3, <1>4

\* What is stored.
LEMMA SnapshotStored ==
  ASSUME SensorInv
  PROVE  /\ Snapshot \in Store
         /\ "sensor" \in added => \A k \in Kinds : Snapshot.wh[k] = acc[k].wh
<1>1. /\ conf \in Config /\ saved \in Store /\ acc \in [Kinds -> Meter]
      /\ soc.native \in {None} \cup SocRange
  BY DEF SensorInv, SensorTypeOK, SocSensor
<1> DEFINE wh == IF "sensor" \in added THEN [k \in Kinds |-> acc[k].wh] ELSE saved.wh
           sc == IF "sensor" \in added THEN soc.native ELSE saved.soc
           cf == [key \in DOMAIN conf |-> IF PlatformOf(key) \in added THEN conf[key]
                                          ELSE saved.conf[key]]
<1>2. Snapshot = [wh |-> wh, soc |-> sc, conf |-> cf]
  BY DEF Snapshot
<1>3. wh \in [Kinds -> Nat]
  <2>1. \A k \in Kinds : acc[k].wh \in Nat
    BY <1>1 DEF Meter
  <2>2. saved.wh \in [Kinds -> Nat]
    BY <1>1 DEF Store
  <2> QED BY <2>1, <2>2
<1>4. sc \in {None} \cup SocRange
  BY <1>1 DEF Store
<1>5. cf \in Config
  <2>1. saved.conf \in Config
    BY <1>1 DEF Store
  <2> QED BY <1>1, <2>1 DEF Config
<1>6. "sensor" \in added => \A k \in Kinds : wh[k] = acc[k].wh
  OBVIOUS
<1> HIDE DEF wh, sc, cf
<1>7. Snapshot \in Store /\ Snapshot.wh = wh
  BY <1>2, <1>3, <1>4, <1>5 DEF Store
<1> QED BY <1>6, <1>7

\* The periodic save.
LEMMA DumpStep ==
  ASSUME SensorInv, Dump
  PROVE  SensorInv' /\ MetersMove
<1>1. /\ saved' = Snapshot
      /\ UNCHANGED <<attempt, known, acc, soc, eta, conf, added, clock, earned, shown, last>>
  BY DEF Dump, sensorVars, historyVars
<1>2. saved' \in Store /\ ("sensor" \in added => \A k \in Kinds : saved'.wh[k] = acc[k].wh)
  BY <1>1, SnapshotStored
<1>3. Tables /\ MetersLinked /\ SocAgrees /\ RestHolds
  BY BySensor
<1>4. MetersMove
  BY <1>1, <1>3, MetersRest
<1>5. EnergyIsKept'
  <2>1. \A k \in Kinds : acc[k].wh \in Nat
    BY <1>3 DEF MetersLinked, Meter
  <2> QED BY <1>1, <1>2, <2>1 DEF EnergyIsKept
<1>6. Tables' /\ MetersLinked'
  BY <1>1, <1>3 DEF Tables, MetersLinked
<1>7. SocAgrees'
  BY <1>1, <1>3 DEF SocAgrees
<1>8. RestHolds'
  BY <1>1, <1>2, <1>3 DEF RestHolds
<1> QED BY <1>4, <1>5, <1>6, <1>7, <1>8, BySensorPrime

\* Meters that start over.
LEMMA NewMeters ==
  ASSUME NEW k \in Kinds, NEW wh \in Nat, NEW l \in Trace
  PROVE  LET m == NewAccumulator(wh)
         IN  m \in Meter /\ m.wh = wh /\ Linked(k, m, l)
<1>1. NewAccumulator(wh) \in Meter /\ NewAccumulator(wh).wh = wh /\ NewAccumulator(wh).prev = None
  BY DEF NewAccumulator, Meter
<1> QED BY <1>1 DEF Linked

LEMMA NoSampleType == NoSample \in Trace
BY DEF NoSample, Trace

\* No times yet.
LEMMA NoEtaType ==
  NoEta \in Times /\ NoEta.floor = None /\ NoEta.full = None /\ NoEta.backup = None
BY DEF NoEta, Times

\* The defaults are a configuration.
LEMMA DefaultsType == Defaults \in Config
BY DEF Defaults, Config, Modes, Window, NoiseFloor

\* Home Assistant stops, and everything but what is stored is gone.
LEMMA RestartSensors ==
  ASSUME SensorInv, NEW orderly \in BOOLEAN, Restart(orderly)
  PROVE  SensorInv' /\ MetersMove
<1>1. /\ saved' = IF orderly THEN Snapshot ELSE saved
      /\ attempt' = 1 /\ known' = [r |-> Blank, how |-> "blank"]
      /\ acc' = [k \in Kinds |-> NewAccumulator(0)]
      /\ soc' = NewSoc /\ eta' = NoEta /\ conf' = Defaults /\ added' = {}
      /\ earned' = 0 /\ shown' = saved'.soc /\ last' = [k \in Kinds |-> NoSample]
      /\ clock' = clock
  BY DEF Restart
<1>2. saved' \in Store
  <2>1. saved \in Store /\ Snapshot \in Store
    BY SnapshotStored DEF SensorInv, SensorTypeOK
  <2> QED BY <1>1, <2>1
<1>3. \A k \in Kinds : /\ NewAccumulator(0) \in Meter /\ NoSample \in Trace
                       /\ Linked(k, NewAccumulator(0), NoSample)
  BY NewMeters, NoSampleType
<1>4. Tables' /\ MetersLinked'
  <2>1. \A k \in Kinds : acc'[k] = NewAccumulator(0) /\ last'[k] = NoSample
    BY <1>1
  <2>2. Tables'
    BY <1>1, <1>3 DEF Tables
  <2> QED BY <1>3, <2>1, <2>2 DEF MetersLinked
<1>5. SocAgrees'
  <2>1. SocOK(soc') /\ soc'.est.ticks = 0
    BY <1>1, NewSocOK
  <2> QED BY <1>1, <2>1, NoEtaType DEF SocAgrees
<1>6. RestHolds'
  <2>1. saved'.soc \in {None} \cup SocRange
    BY <1>2 DEF Store
  <2>2. known'.r \in Reading /\ known'.how \in Hows
    BY <1>1, ReportedIsReading DEF Hows
  <2>3. clock \in Nat
    BY DEF SensorInv, SensorTypeOK
  <2> QED BY <1>1, <1>2, <2>1, <2>2, <2>3, DefaultsType DEF RestHolds
<1>7. EnergyIsKept' /\ MetersMove
  BY <1>1 DEF EnergyIsKept, MetersMove
<1> QED BY <1>4, <1>5, <1>6, <1>7, BySensorPrime

\* The sensors are added.
LEMMA AddSensorsStep ==
  ASSUME SensorInv, AddSensors
  PROVE  SensorInv' /\ MetersMove
<1>1. /\ "sensor" \notin added /\ added' = added \cup {"sensor"}
      /\ acc' = [k \in Kinds |-> NewAccumulator(saved.wh[k])]
      /\ soc' = Restored(saved.soc, conf, added)
      /\ shown' = IF soc'.native = None THEN shown ELSE soc'.native
      /\ UNCHANGED <<attempt, known, eta, conf, saved, clock, earned, last>>
  BY DEF AddSensors, Shown
<1>2. Tables /\ MetersLinked /\ SocAgrees /\ RestHolds
  BY BySensor
<1>3. /\ saved.soc \in {None} \cup SocRange /\ conf \in Config
      /\ \A k \in Kinds : saved.wh[k] \in Nat
  BY <1>2 DEF RestHolds, Store
<1>4. \A k \in Kinds : /\ acc'[k] \in Meter /\ acc'[k].wh = saved.wh[k]
                       /\ last'[k] \in Trace /\ Linked(k, acc'[k], last'[k])
  <2> TAKE k \in Kinds
  <2>1. last[k] \in Trace
    BY <1>2 DEF Tables
  <2>2. acc'[k] = NewAccumulator(saved.wh[k]) /\ last'[k] = last[k]
    BY <1>1
  <2> QED BY <1>3, <2>1, <2>2, NewMeters
<1>5. Tables' /\ MetersLinked' /\ EnergyIsKept'
  <2>1. acc' = [k \in Kinds |-> acc'[k]] /\ last' = last
    BY <1>1
  <2>2. Tables'
    BY <1>2, <1>4, <2>1 DEF Tables
  <2>3. MetersLinked'
    BY <1>4 DEF MetersLinked
  <2>4. EnergyIsKept'
    BY <1>1, <1>3, <1>4 DEF EnergyIsKept
  <2> QED BY <2>2, <2>3, <2>4
<1>6. SocAgrees'
  <2>1. /\ SocOK(soc') /\ soc'.native # None /\ soc'.est.ticks = 0
        /\ soc'.est.mode = Seen("mode", conf, added)
    BY <1>1, <1>3, RestoredOK
  <2>2. "select" \in added => soc'.est.mode = conf.mode
    BY <2>1 DEF Seen, PlatformOf
  <2> QED BY <1>1, <1>2, <2>1, <2>2 DEF SocAgrees
<1>7. RestHolds'
  <2>1. soc'.native \in {None} \cup SocRange
    BY <1>6 DEF SocAgrees, SocOK, SocSensor
  <2>2. shown' \in {None} \cup SocRange
    BY <1>1, <1>2, <2>1 DEF RestHolds
  <2> QED BY <1>1, <1>2, <2>2 DEF RestHolds, Platforms
<1>8. MetersMove
  BY <1>1 DEF MetersMove
<1> QED BY <1>5, <1>6, <1>7, <1>8, BySensorPrime

\* The entities of another platform are added.
LEMMA AddedStep ==
  ASSUME SensorInv, NEW p \in {"number", "select", "switch"}, Added(p)
  PROVE  SensorInv' /\ MetersMove
<1>1. /\ p \notin added /\ added' = added \cup {p}
      /\ conf' = [key \in DOMAIN conf |-> IF PlatformOf(key) = p THEN saved.conf[key]
                                          ELSE conf[key]]
      /\ soc' = IF "sensor" \in added THEN Announced(soc, p, conf', added') ELSE soc
      /\ shown' = IF soc'.native = None THEN shown ELSE soc'.native
      /\ UNCHANGED <<attempt, known, acc, eta, saved, clock, earned, last>>
  BY DEF Added, Shown
<1>2. SocAgrees /\ RestHolds
  BY BySensor
<1>3. conf \in Config /\ saved.conf \in Config
  BY <1>2 DEF RestHolds, Store
<1>4. conf' \in Config /\ conf'.mode = IF p = "select" THEN saved.conf.mode ELSE conf.mode
  BY <1>1, <1>3 DEF Config, PlatformOf
<1>5. /\ SocOK(soc) /\ soc.est.ticks <= earned /\ earned \in Nat /\ eta \in Times
      /\ soc.native = None => eta.floor = None /\ eta.full = None /\ eta.backup = None
      /\ "sensor" \notin added => soc = NewSoc
      /\ {"sensor", "select"} \subseteq added => soc.est.mode = conf.mode
  BY <1>2 DEF SocAgrees
<1>6. "sensor" \in added' => "sensor" \in added
  BY <1>1
<1>7. SocAgrees'
  <2>1. CASE "sensor" \in added
    <3>1. soc' = Announced(soc, p, conf', added')
      BY <1>1, <2>1
    <3>2. Follows(soc, soc') /\ soc'.est.mode = IF p = "select" THEN conf'.mode ELSE soc.est.mode
      BY <1>4, <1>5, <3>1, AnnouncedFollows
    <3>3. SocOK(soc') /\ soc'.est.ticks <= soc.est.ticks /\ (soc'.native = None => soc.native = None)
      BY <3>2 DEF Follows
    <3>4. soc'.est.ticks \in Nat /\ soc.est.ticks \in Nat
      BY <1>5, <3>3 DEF SocOK, SocSensor, Estimator
    <3>5. soc'.est.ticks <= earned'
      BY <1>1, <1>5, <3>3, <3>4
    <3>6. {"sensor", "select"} \subseteq added' => soc'.est.mode = conf'.mode
      BY <1>1, <1>4, <1>5, <3>2
    <3> QED BY <1>1, <1>5, <2>1, <3>3, <3>5, <3>6 DEF SocAgrees
  <2>2. CASE "sensor" \notin added
    BY <1>1, <1>5, <1>6, <2>2 DEF SocAgrees
  <2> QED BY <2>1, <2>2
<1>8. RestHolds'
  <2>1. soc'.native \in {None} \cup SocRange
    BY <1>7 DEF SocAgrees, SocOK, SocSensor
  <2>2. shown' \in {None} \cup SocRange
    BY <1>1, <1>2, <2>1 DEF RestHolds
  <2> QED BY <1>1, <1>2, <1>4, <2>2 DEF RestHolds, Platforms
<1> QED BY <1>1, <1>6, <1>7, <1>8, ListenersStep

-----------------------------------------------------------------------------
(* The specification.                                                       *)

\* What is stored when the model starts is restored.
LEMMA SensorInit == Init => SensorInv
<1> SUFFICES ASSUME Init PROVE SensorInv
  OBVIOUS
<1>1. /\ attempt = 1 /\ known = [r |-> Blank, how |-> "blank"]
      /\ saved \in Installs /\ conf = saved.conf /\ added = Platforms
      /\ acc = [k \in Kinds |-> NewAccumulator(saved.wh[k])]
      /\ soc = Restored(saved.soc, conf, added) /\ eta = NoEta /\ clock = 0
      /\ earned = 0 /\ shown = soc.native /\ last = [k \in Kinds |-> NoSample]
  BY DEF Init
<1>2. saved \in Store
  BY <1>1, DataAssumption
<1>3. /\ saved.soc \in {None} \cup SocRange /\ conf \in Config
      /\ \A k \in Kinds : saved.wh[k] \in Nat
  BY <1>1, <1>2 DEF Store
<1>4. \A k \in Kinds : /\ acc[k] \in Meter /\ acc[k].wh = saved.wh[k]
                       /\ last[k] \in Trace /\ Linked(k, acc[k], last[k])
  <2> TAKE k \in Kinds
  <2>1. acc[k] = NewAccumulator(saved.wh[k]) /\ last[k] = NoSample
    BY <1>1
  <2> QED BY <1>3, <2>1, NewMeters, NoSampleType
<1>5. Tables
  <2>1. acc = [k \in Kinds |-> acc[k]] /\ last = [k \in Kinds |-> last[k]]
    BY <1>1
  <2> QED BY <1>4, <2>1 DEF Tables
<1>6. MetersLinked
  BY <1>4 DEF MetersLinked
<1>7. EnergyIsKept
  BY <1>3, <1>4 DEF EnergyIsKept
<1>8. SocAgrees
  <2>1. /\ SocOK(soc) /\ soc.native # None /\ soc.est.ticks = 0
        /\ soc.est.mode = Seen("mode", conf, added)
    BY <1>1, <1>3, RestoredOK
  <2>2. soc.est.mode = conf.mode /\ "sensor" \in added
    BY <1>1, <2>1 DEF Seen, PlatformOf, Platforms
  <2> QED BY <1>1, <2>1, <2>2, NoEtaType DEF SocAgrees
<1>9. RestHolds
  <2>1. soc.native \in {None} \cup SocRange
    BY <1>8 DEF SocAgrees, SocOK, SocSensor
  <2>2. known.r \in Reading /\ known.how \in Hows
    BY <1>1, ReportedIsReading DEF Hows
  <2> QED BY <1>1, <1>2, <1>3, <2>1, <2>2 DEF RestHolds
<1> QED BY <1>5, <1>6, <1>7, <1>8, <1>9, BySensor

\* The coordinator's verdict on an answer.
LEMMA VerdictStep ==
  ASSUME SensorInv, GetData
  PROVE  SensorInv' /\ MetersMove
<1> DEFINE how == IF fut = None THEN "nothing" ELSE Decoded(fut)
<1>1. \/ \E r \in Reported : how = "intact" /\ Accept(r, how)
      \/ \E r \in Garbled : how \in {"shifted", "damaged"} /\ Accept(r, how)
      \/ Retry
      \/ \E nak \in {fut # None /\ how = "nothing"} : GiveUp(nak)
  BY DEF GetData
<1> HIDE DEF how
<1>2. ASSUME NEW r \in Reported, how = "intact", Accept(r, how)
      PROVE  SensorInv' /\ MetersMove
  BY <1>2, ReportedIsReading, PublishStep DEF Accept, Hows
<1>3. ASSUME NEW r \in Garbled, how \in {"shifted", "damaged"}, Accept(r, how)
      PROVE  SensorInv' /\ MetersMove
  BY <1>3, ReportedIsReading, PublishStep DEF Accept, Hows
<1>4. ASSUME Retry
      PROVE  SensorInv' /\ MetersMove
  BY <1>4, QuietStep DEF Retry
<1>5. ASSUME NEW nak, GiveUp(nak)
      PROVE  SensorInv' /\ MetersMove
  <2>1. known.r \in Reading /\ known.how \in Hows
    BY DEF SensorInv, SensorTypeOK, Hows
  <2>2. CASE Publish(known.r, known.how)
    BY <2>1, <2>2, PublishStep
  <2>3. CASE Publish(Blank, "blank")
    BY <2>3, ReportedIsReading, PublishStep DEF Hows
  <2> QED BY <1>5, <2>2, <2>3 DEF GiveUp
<1> QED BY <1>1, <1>2, <1>3, <1>4, <1>5

\* Every step.
LEMMA SensorStep == SensorInv /\ [Next]_vars => SensorInv' /\ MetersMove
<1> SUFFICES ASSUME SensorInv, [Next]_vars PROVE SensorInv' /\ MetersMove
  OBVIOUS
<1>1. attempt \in 1..2
  BY DEF SensorInv, SensorTypeOK
<1>2. CASE Query
  BY <1>1, <1>2, QuietStep DEF Query
<1>3. CASE ModbusQuery
  BY <1>1, <1>3, QuietStep DEF ModbusQuery
<1>4. CASE GetData
  BY <1>4, VerdictStep
<1>5. CASE \/ \E e \in Edits : async_set_native_value(e.key, e.value)
           \/ \E option \in Options : async_select_option(option)
           \/ \E on \in BOOLEAN : async_turn(on)
  BY <1>5, EntityStep
<1>6. CASE Dump
  BY <1>6, DumpStep
<1>7. CASE \E orderly \in BOOLEAN : Restart(orderly)
  BY <1>7, RestartSensors
<1>8. CASE AddSensors
  BY <1>8, AddSensorsStep
<1>9. CASE AddNumbers \/ AddSelect \/ AddSwitch
  BY <1>9, AddedStep DEF AddNumbers, AddSelect, AddSwitch
<1>10. CASE UNCHANGED vars
  BY <1>1, <1>10, QuietStep DEF vars
<1> QED BY <1>2, <1>3, <1>4, <1>5, <1>6, <1>7, <1>8, <1>9, <1>10 DEF Next

\* The sensors' state is well-formed, and their values agree with one another, with the
\* configuration, the history and what is stored, in every behaviour.
THEOREM SensorSafety == Spec => []SensorInv
<1>1. SensorInv /\ [Next]_vars => SensorInv'
  BY SensorStep
<1> QED BY <1>1, SensorInit, PTL DEF Spec

\* The SoC the estimator holds is the charge it holds, to the resolution of the two, and
\* the charge is within the capacity, over all readings, edits, changes of chemistry and
\* restarts (SocEstimator.update, set_capacity, restore).
THEOREM SocAgreesWithChargeHolds == Spec => []SocAgreesWithCharge
<1>1. SensorInv => SocAgreesWithCharge
  BY DEF SensorInv
<1> QED BY <1>1, SensorSafety, PTL

\* The debounce never counts a reading that was not full, nor one from before a
\* discharge, a BMS reading, a change of chemistry or a restart (SocEstimator.update,
\* set_mode).
THEOREM SnapIsEarnedHolds == Spec => []SnapIsEarned
<1>1. SensorInv => SnapIsEarned
  BY DEF SensorInv
<1> QED BY <1>1, SensorSafety, PTL

\* The derived sensors are unknown whenever the SoC is (direct_energy_sensors.py,
\* DirectBatteryTimeToFloorSensor and its siblings).
THEOREM EtaNeedsSocHolds == Spec => []EtaNeedsSoc
<1>1. SensorInv => EtaNeedsSoc
  BY DEF SensorInv
<1> QED BY <1>1, SensorSafety, PTL

\* No reading lowers an energy (update_energy_value).
THEOREM EnergyNeverFallsHolds == Spec => EnergyNeverFalls
<1>1. SensorInv /\ [Next]_vars =>
        [\A k \in Kinds : Metered(k) => acc'[k].wh >= acc[k].wh]_vars
  BY SensorStep DEF MetersMove, Metered, Grows
<1> QED BY <1>1, SensorSafety, PTL DEF Spec, EnergyNeverFalls

\* Energy grows only between two samples, by no more than their trapezoid allows, and
\* the battery's and the second string's never across a gap (update_energy_value and the
\* handlers of the energy sensors).
THEOREM EnergyIsMeteredHolds == Spec => EnergyIsMetered
<1>1. SensorInv /\ [Next]_vars =>
        [\A k \in Kinds : Metered(k) =>
           /\ last[k].p >= 0 \/ last'[k].p >= 0
           /\ acc'[k].wh - acc[k].wh <= (last[k].age + 1) * Greatest(last[k].p, last'[k].p)
           /\ last'[k].age = 0 /\ ~last'[k].gap
           /\ k \in {"pv2", "battery_in", "battery_out"} => ~last[k].gap]_vars
  BY SensorStep, Zenon DEF MetersMove, Metered, Grows, Gapless
<1> QED BY <1>1, SensorSafety, PTL DEF Spec, EnergyIsMetered
=============================================================================
