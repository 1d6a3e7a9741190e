----------------------------- MODULE CellTelemetry -----------------------------
(***************************************************************************)
(* What the ML sidecar knows of the cells: a plant process (plant_model.py *)
(* or the trip replay) sends all voltages and temperatures every tick as   *)
(* multiplexed 0x270 and 0x280 frames, the vECU sends the ranges it has    *)
(* measured as 0x7F4 and 0x7F6, and the sidecar, between inferences, folds *)
(* whatever arrives into one array per quantity.  The processes run concurrently;   *)
(* the receive buffer of the sidecar's socket is bounded and an inference  *)
(* takes time.                                                             *)
(*                                                                         *)
(* Left out: the frames of other signals, the time of day, the windows the *)
(* models read and the models themselves.                                  *)
(***************************************************************************)
EXTENDS SignalCodec, DbInject, Sequences

CONSTANTS
  Profiles,       \* what the plant's cells may look like: [volts, temps], in mV and 1/10 degree
  Trip,           \* the rows of the trip file: a sequence of profiles
  TicksPerRow,    \* 100: ticks until the replay advances
  RowsPerAdvance, \* rows_per_100_ticks
  MaxTicks,       \* bound: rounds the plant sends
  MaxReplayTicks, \* bound: rounds the replay sends
  RxSize,         \* frames the socket buffer of the sidecar holds
  MaxLost,        \* bound: frames that find it full
  MaxVecuSteps,   \* bound: steps of the vECU
  TempRanges,     \* what a read of the MIN_MAX block may give of the temperatures, in 1/10 degree
  TempOverrides   \* the sets of temperature overrides that may be in force, as int16

Cells   == 0 .. 17
Sensors == 0 .. 7
Looks   == [volts: [Cells -> Int], temps: [Sensors -> Int]]

ASSUME TelemetryAssumption ==
  /\ Profiles \subseteq Looks
  /\ Trip \in Seq(Looks) /\ Trip # <<>>
  /\ {TicksPerRow, RowsPerAdvance, RxSize} \subseteq Nat \ {0}
  /\ {MaxTicks, MaxReplayTicks, MaxLost, MaxVecuSteps} \subseteq Nat
  /\ TempRanges \subseteq Ranges
  /\ TempOverrides \subseteq SUBSET Int16Values

VARIABLES
  source,   \* which plant runs: "plant", "replay" or "replay-loop"
  rounds,   \* the profiles sent so far, one per tick; the last one may still be on its way
  rows,     \* rows[n]: the trip's row in the n-th round, 0 for the plant
  nextRow,  \* data_idx + 1: the row of the next tick
  ended,    \* the replay has left its loop
  unsent,   \* frames of this tick still to be sent
  buffer,   \* the socket buffer of the sidecar
  lost,     \* frames that found the buffer full
  vecuSteps, \* steps the vECU has taken
  probing,  \* the probe has sent its 0x7F4 and not yet its 0x7F6
  tMin,     \* posix_sil_cell_t_min
  tMax,     \* posix_sil_cell_t_max
  volts,    \* cell_voltages_mv in 1/18 mV, so that the interpolation stays whole
  temps,    \* cell_temps_ddegc in 1/7 of 1/10 degree, for the same reason
  voltsOf,  \* the round each voltage is from: 0 initially, -1 for one a range of the vECU gave
  tempsOf   \* likewise for the temperatures

plantVars   == <<source, rounds, rows, nextRow, ended>>
vecuVars    == <<vecuSteps, probing, tMin, tMax>>
sidecarVars == <<volts, temps, voltsOf, tempsOf>>
vars == <<plantVars, unsent, buffer, lost, vecuVars, sidecarVars, dbVars>>

Summarised == -1

Bits(n)   == {k \in 0 .. 30 : (n \div 2 ^ k) % 2 = 1}   \* as n >> k & 1 has them, for an int32
Number(S) == LET of[k \in 0 .. 13] ==
                   IF k = 0 THEN 0 ELSE of[k - 1] + (IF k - 1 \in S THEN 2 ^ (k - 1) ELSE 0)
             IN  of[13]

Clamp(lo, hi, n) == IF n < lo THEN lo ELSE IF n > hi THEN hi ELSE n

Init ==
  /\ source \in {"plant", "replay", "replay-loop"}
  /\ rounds = <<>> /\ rows = <<>> /\ nextRow = 1 /\ ended = FALSE
  /\ unsent = <<>> /\ buffer = <<>> /\ lost = 0
  /\ vecuSteps = 0 /\ probing = FALSE /\ tMin = 250 /\ tMax = 250
  /\ volts = [i \in Cells |-> 18 * 3700]
  /\ temps = [k \in Sensors |-> 7 * 250]
  /\ voltsOf = [i \in Cells |-> 0]
  /\ tempsOf = [k \in Sensors |-> 0]
  /\ DbInit
-----------------------------------------------------------------------------
(* The plants *)

\* one of five 0x270 frames; the last two places of the fifth have no cell
VoltageGroup(p, mux) ==
  LET at(j) == IF 4 * mux + j \in Cells THEN Bits(p.volts[4 * mux + j]) ELSE {}
  IN  VoltageFrame(Bits(mux), at(0), at(1), at(2), at(3))

\* a faulty variant: whole degrees are put into the byte unclamped
DegreesUnclamped(t) == t \div 10

\* t // 10 and the clamp of encode_cell_temp_msg
Degrees(t) == Clamp(0, 255, t \div 10)

\* one of the plant's two 0x280 frames: sensors 0-5, then 6 and 7
TemperatureGroup(p, mux) ==
  LET n == IF mux = 0 THEN 6 ELSE 2
      t == [i \in 0 .. 5 |-> IF i < n THEN Bits(Degrees(p.temps[6 * mux + i])) ELSE {}]
  IN  TemperatureFrame(Bits(mux), t, n)

\* one of the replay's five 0x280 frames, with a gradient over the pack; the last is padded
ReplayTemperatureGroup(p, mux) ==
  LET t == p.temps[0] + (mux - 2) * 5
      v == Bits(IF t < 0 THEN 0 ELSE t)
  IN  ReplayTemperatureFrame(Bits(mux), v, v, IF mux < 4 THEN v ELSE {})

Frames270(p, n) == [g \in 1 .. 5 |-> [id |-> "0x270", bits |-> VoltageGroup(p, g - 1), round |-> n]]

Frames280(p, n) ==
  IF source = "plant"
  THEN [g \in 1 .. 2 |-> [id |-> "0x280", bits |-> TemperatureGroup(p, g - 1), round |-> n]]
  ELSE [g \in 1 .. 5 |-> [id |-> "0x280", bits |-> ReplayTemperatureGroup(p, g - 1), round |-> n]]

StartRound(p, row) ==
  /\ rounds' = Append(rounds, p)
  /\ rows' = Append(rows, row)
  /\ unsent' = Frames270(p, Len(rounds) + 1) \o Frames280(p, Len(rounds) + 1)

\* A tick of plant_model.py up to its first 0x270; what its cells look like is its own business.
PlantRound(p) ==
  /\ source = "plant" /\ unsent = <<>> /\ Len(rounds) < MaxTicks
  /\ StartRound(p, 0)
  /\ UNCHANGED <<source, nextRow, ended, buffer, lost, vecuVars, sidecarVars, dbVars>>

\* a faulty variant: the index is advanced one tick late
AdvancesLate   == Len(rounds) > 0 /\ Len(rounds) % TicksPerRow = 0

\* data_idx >= len(trip_data)
PastEnd == nextRow > Len(Trip)
\* tick % 100 == 0, for the tick that is beginning
Advances == (Len(rounds) + 1) % TicksPerRow = 0

\* A tick of plant_model_replay.py: the row is taken, then the index moves on.
ReplayRound ==
  /\ source # "plant" /\ ~ended /\ unsent = <<>> /\ Len(rounds) < MaxReplayTicks
  /\ PastEnd => source = "replay-loop"
  /\ LET row == IF PastEnd THEN 1 ELSE nextRow
     IN  /\ StartRound(Trip[row], row)
         /\ nextRow' = IF Advances THEN row + RowsPerAdvance ELSE row
  /\ UNCHANGED <<source, ended, buffer, lost, vecuVars, sidecarVars, dbVars>>

\* "Trip complete": without --loop the replay breaks out of its loop.
ReplayEnds ==
  /\ source = "replay" /\ ~ended /\ unsent = <<>>
  /\ PastEnd
  /\ ended' = TRUE
  /\ UNCHANGED <<source, rounds, rows, nextRow, unsent, buffer, lost, vecuVars, sidecarVars, dbVars>>

\* a frame reaches the sidecar's socket, or finds its buffer full
Arrives(f) ==
  IF Len(buffer) < RxSize
  THEN buffer' = Append(buffer, f) /\ UNCHANGED lost
  ELSE lost < MaxLost /\ lost' = lost + 1 /\ UNCHANGED buffer

\* can_send
SendFrame ==
  /\ unsent # <<>>
  /\ Arrives(Head(unsent))
  /\ unsent' = Tail(unsent)
  /\ UNCHANGED <<plantVars, vecuVars, sidecarVars, dbVars>>
-----------------------------------------------------------------------------
(* The vECU *)

\* The main loop is one thread: a probe that has begun is finished first.
VecuStep == ~probing /\ vecuSteps < MaxVecuSteps /\ vecuSteps' = vecuSteps + 1

\* foxBMS writes the range of the round that it has measured, or that nothing in it was valid.
Measure ==
  /\ VecuStep
  /\ rounds # <<>>
  /\ LET v == {rounds[Len(rounds)].volts[i] % 8192 : i \in Cells}
     IN  WriteMinMax([min |-> Least(v), max |-> Greatest(v)]) \/ WriteMinMax(Invalid)
  /\ UNCHANGED <<plantVars, unsent, buffer, lost, probing, tMin, tMax, sidecarVars>>

PlausibleTemps == -499 .. 999

\* The temperature half of the block: what foxBMS has made of its sensors and of the overrides
\* in force is any of TempRanges; each static keeps its value when the new one is implausible.
ReadTemperatures ==
  \E r \in TempRanges :
    /\ tMin' = IF r.min \in PlausibleTemps THEN r.min ELSE tMin
    /\ tMax' = IF r.max \in PlausibleTemps THEN r.max ELSE tMax

ReadDatabase ==
  /\ VecuStep
  /\ ReadMinMax /\ ReadTemperatures
  /\ UNCHANGED <<plantVars, unsent, buffer, lost, probing, sidecarVars>>

Command ==
  /\ VecuStep
  /\ \E c \in Overridden : (\E v \in OverrideValues : OverrideCell(c, v)) \/ ReleaseCell(c)
  /\ UNCHANGED <<plantVars, unsent, buffer, lost, probing, tMin, tMax, sidecarVars>>

\* the probes of the 100 ms task: 0x7F4, and then
SendSummary ==
  /\ VecuStep
  /\ Arrives([id |-> "0x7F4", min |-> vMin, max |-> vMax])
  /\ probing' = TRUE
  /\ UNCHANGED <<plantVars, unsent, tMin, tMax, sidecarVars, dbVars>>

\* 0x7F6, which is widened once more by the overrides that are in force now
SendRange ==
  /\ probing /\ probing' = FALSE
  /\ \E o \in TempOverrides :
       Arrives([id |-> "0x7F6", min |-> Least({tMin} \cup o), max |-> Greatest({tMax} \cup o)])
  /\ UNCHANGED <<plantVars, unsent, vecuSteps, tMin, tMax, sidecarVars, dbVars>>
-----------------------------------------------------------------------------
(* The sidecar: BMSSensorBuffers.update_from_can *)

\* what the sidecar makes of the bits of an 0x270, and of an 0x280
DecodeVoltages(m) ==
  [mux |-> Number(MuxOf(m)), value |-> [j \in 0 .. 3 |-> Number(VoltageOf(m, j))]]
DecodeTemperatures(m) ==
  [mux |-> Number(Byte(m, 0)), value |-> [b \in 2 .. 7 |-> Number(Byte(m, b))]]

\* The cells a decoded 0x270 is about; a voltage of 0 is skipped, be it padding or measured.
\* (the first is a faulty variant: the last group is taken to be mux 3)
HitShort(d) == {i \in Cells : d.mux < 4 /\ i \div 4 = d.mux /\ d.value[i % 4] > 0}
Hit(d)      == {i \in Cells : d.mux < 5 /\ i \div 4 = d.mux /\ d.value[i % 4] > 0}

FoldVoltages(f) ==
  \E d \in {DecodeVoltages(f.bits)} : \E hit \in {Hit(d)} :
    /\ volts' = [i \in Cells |-> IF i \in hit THEN 18 * d.value[i % 4] ELSE volts[i]]
    /\ voltsOf' = [i \in Cells |-> IF i \in hit THEN f.round ELSE voltsOf[i]]
    /\ UNCHANGED <<temps, tempsOf>>

\* 0x280: a byte per sensor, six sensors per frame
FoldTemperatures(f) ==
  \E d \in {DecodeTemperatures(f.bits)} : \E hit \in {{k \in Sensors : d.mux < 2 /\ k \div 6 = d.mux}} :
    /\ temps' = [k \in Sensors |-> IF k \in hit THEN 70 * d.value[2 + (k % 6)] ELSE temps[k]]
    /\ tempsOf' = [k \in Sensors |-> IF k \in hit THEN f.round ELSE tempsOf[k]]
    /\ UNCHANGED <<volts, voltsOf>>

\* 0x7F4: all cells are spread evenly over the range
FoldSummary(f) ==
  LET width == IF f.max - f.min > 2 THEN f.max - f.min ELSE 2
  IN  /\ IF f.min > 0 /\ f.max > 0
         THEN /\ volts' = [i \in Cells |-> 9 * (f.min + f.max) + (i - 9) * width]
              /\ voltsOf' = [i \in Cells |-> Summarised]
         ELSE UNCHANGED <<volts, voltsOf>>
      /\ UNCHANGED <<temps, tempsOf>>

\* 0x7F6: all sensors are spread evenly over the range
FoldRange(f) ==
  /\ temps' = [k \in Sensors |-> 7 * f.min + (f.max - f.min) * k]
  /\ tempsOf' = [k \in Sensors |-> Summarised]
  /\ UNCHANGED <<volts, voltsOf>>

Receive ==
  /\ buffer # <<>>
  /\ LET f == Head(buffer)
     IN  CASE f.id = "0x270" -> FoldVoltages(f)
           [] f.id = "0x280" -> FoldTemperatures(f)
           [] f.id = "0x7F4" -> FoldSummary(f)
           [] f.id = "0x7F6" -> FoldRange(f)
  /\ buffer' = Tail(buffer)
  /\ UNCHANGED <<plantVars, unsent, lost, vecuVars, dbVars>>

Next ==
  \/ \E p \in Profiles : PlantRound(p)
  \/ ReplayRound \/ ReplayEnds \/ SendFrame
  \/ Measure \/ ReadDatabase \/ Command \/ SendSummary \/ SendRange
  \/ Receive

Spec == Init /\ [][Next]_vars
-----------------------------------------------------------------------------
\* Every voltage the sidecar holds is the one the plant had for that very cell in the round it
\* came from, in 13 bits: no value ends up at another cell or spills into its neighbours.
CellsAsSent ==
  \A i \in Cells : voltsOf[i] > 0 => volts[i] = 18 * (rounds[voltsOf[i]].volts[i] % 8192)

\* Unless a frame was lost or a cell read 0 mV, the array never mixes more than two
\* successive rounds, except for cells that the vECU's range has overwritten since.
AtMostTwoRounds ==
  \/ lost > 0
  \/ \E n \in DOMAIN rounds, i \in Cells : rounds[n].volts[i] % 8192 = 0
  \/ LET held == {voltsOf[i] : i \in Cells} \ {Summarised}
     IN  \A m, n \in held : m - n <= 1

\* A temperature that the sidecar has of the plant, and not of the vECU's range that has
\* overwritten all sensors since, is that very sensor's and at most a degree too low; what a
\* byte of whole degrees cannot say stays at the nearer end of its range.
TemperaturesAsSent ==
  source = "plant" =>
    \A k \in Sensors : tempsOf[k] > 0 =>
      LET t == rounds[tempsOf[k]].temps[k]
      IN  /\ t \in 0 .. 2559 => 7 * t - temps[k] \in 0 .. 63
          /\ t < 0 => temps[k] = 0
          /\ t > 2559 => temps[k] = 7 * 2550

\* The trip replay encodes like the plant, so the same should hold for it, give or take its gradient.
ReplayAsPlant ==
  source # "plant" =>
    \A k \in Sensors : tempsOf[k] > 0 =>
      temps[k] - 7 * rounds[tempsOf[k]].temps[k] \in -140 .. 140

\* The row sent in a tick is the one the trip's clock calls for: the first row for a full
\* interval, then RowsPerAdvance rows on for each further one, and from the start again
\* (for as many intervals as one pass takes) when the replay loops.
RowMatchesClock ==
  LET perPass == (Len(Trip) + RowsPerAdvance - 1) \div RowsPerAdvance
      interval(n) == (n - 1) \div TicksPerRow
  IN  \A n \in DOMAIN rows : rows[n] > 0 =>
        /\ rows[n] = 1 + RowsPerAdvance * (interval(n) % perPass)
        /\ source = "replay" => interval(n) < perPass

=============================================================================
