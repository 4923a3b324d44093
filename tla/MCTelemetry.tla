----------------------------- MODULE MCTelemetry -----------------------------
(* Instances of Telemetry for TLC.                                          *)
EXTENDS Telemetry, TLC

\* A bank of 24 V, nominal readings.
Nominal == [v |-> 265, chg |-> 0, dis |-> 0, pv |-> 0, load |-> 1000, pv2 |-> None,
            bms |-> 60, bits |-> 0, bulk |-> 282, float |-> 270]

Charge40  == [Nominal EXCEPT !.chg = 400, !.pv = 2000, !.pv2 = 500]
Drain40   == [Nominal EXCEPT !.v = 250, !.dis = 400]
Absorbed  == [Nominal EXCEPT !.v = 282, !.chg = 20]
FloatTick == [Nominal EXCEPT !.v = 270, !.dis = 10, !.pv = -600]
NoRatings == [Nominal EXCEPT !.chg = 100, !.bms = None, !.bulk = None, !.float = None]
Spike     == [Nominal EXCEPT !.v = 3000]

MCReadings == {Charge40, Drain40, Absorbed, FloatTick, NoRatings, Spike}

\* A frame's fields in the wrong places, or no numbers at all.
Displaced  == [Nominal EXCEPT !.v = 500, !.pv = 60000, !.bits = Bad]
Unreadable == [Nominal EXCEPT !.v = Bad, !.dis = Bad, !.load = Bad, !.pv2 = Bad]
MCGarbled  == {Displaced, Unreadable, Spike}

MCBlank == [f \in DOMAIN Nominal |-> IF f \in {"bulk", "float"} THEN Nominal[f] ELSE None]

MCReplies == {<<"(", "p", "c", "CR">>, <<"x", "(", "p", "c", "CR">>, <<"(", "N", "c", "CR">>,
              <<"(", "x", "c", "CR">>, <<"(", "p", "LF">>, <<"(", "p">>}

\* An SMG-II: charging, drawing 40.5 A, and 0.9 A of noise while it exports power.
Smg == [v |-> 265, i |-> 0, pv |-> 0, load |-> 1000, bulk |-> 282, float |-> 270]
MCRegisters == {[Smg EXCEPT !.i = 400, !.pv = 2000], [Smg EXCEPT !.i = 65536 - 405],
                [Smg EXCEPT !.i = 9, !.pv = 65536 - 300, !.load = 65536 - 500]}

MCReadReplies == {Intact, Enough, <<"u", "e", "k", "c">>, <<"u", "f", "t", "d", "c">>,
                  <<"u", "f", "n", "x", "c">>, <<"u", "x", "n", "d", "c">>, <<"u", "f", "n">>}
MCWriteReplies == {Echo, <<"u", "e", "k", "c">>, <<"u", "x", "k", "c">>,
                   <<"u", "f", "a", "v", "x">>, <<"u", "f", "a", "w", "c">>, <<"u", "f", "a">>}

MCEdits == {[key |-> "cap", value |-> 0], [key |-> "cap", value |-> 200],
            [key |-> "cap", value |-> 100], [key |-> "override", value |-> 265],
            [key |-> "window", value |-> 0],
            [key |-> "floor", value |-> 0], [key |-> "target", value |-> 70]}

Meters == [k \in Kinds |-> 1000]

\* A first start, and a bank of 100 Ah at 50 %.
MCInstalls == {[wh |-> Meters, soc |-> None, conf |-> Defaults],
               [wh |-> Meters, soc |-> 5000, conf |-> [Defaults EXCEPT !.cap = 100]]}

Budget(cycles, edits, restarts) == [cycles |-> cycles, edits |-> edits, restarts |-> restarts]

\* Long runs of readings, and short ones with edits and restarts, from the agent; short
\* ones, byte by byte, from the other transports.
MCBudgets(f) == CASE f = "agent"         -> {Budget(5, 0, 0), Budget(3, 2, 0), Budget(2, 1, 1)}
                  [] f = "eybond-modbus" -> {Budget(1, 0, 0)}
                  [] OTHER               -> {Budget(2, 0, 0)}
=============================================================================
