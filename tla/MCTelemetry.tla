------------------------------ MODULE MCTelemetry ------------------------------
\* Two looks of the pack (one with an overridden cell beyond 13 bits and one frozen sensor),
\* and a trip of three rows, each with one temperature, that is advanced two rows at a time; the
\* vECU reads a plausible lowest and an implausible highest temperature, and overrides one.
EXTENDS CellTelemetry

Look(v, t) == [volts |-> [i \in Cells |-> v + i], temps |-> [k \in Sensors |-> t + 3 * k]]

Even == Look(3600, 248)
Odd  == [Look(3700, 260) EXCEPT !.volts[3] = 9000, !.temps[1] = -200, !.temps[2] = 3000]

MCProfiles == {Even, Odd}
Row(v, t) == [volts |-> [i \in Cells |-> v + i], temps |-> [k \in Sensors |-> t]]
MCTrip == <<Row(3500, 100), Row(3550, 120), Row(3600, 140)>>
MCTempRanges == {[min |-> 235, max |-> 32767]}
MCTempOverrides == {{-300}}
MCInvalid == [min |-> 32767, max |-> -32768]
MCOverrideValues == {12000 + 65536}

=============================================================================
