------------------------------ MODULE PlantLoop ------------------------------
(***************************************************************************)
(* The closed loop of the simulation: the power switch of the vECU         *)
(* (SpsContactor) broadcasts its state on CAN 0x7F0, the battery plant     *)
(* (plant_model.py, a process of its own) reads the frames and lets        *)
(* current flow, which moves its state of charge.  The vECU may be         *)
(* stopped, killed and started again while the plant runs on; a test bench *)
(* may override the plant's current on CAN 0x6E0.                          *)
(***************************************************************************)
EXTENDS SpsContactor, Sequences

CONSTANTS
  SocStart, SocFull,        \* initial state of charge, and its upper limit
  SocLow, SocHigh,          \* SOC_LOW_THRESHOLD, SOC_HIGH_THRESHOLD
  DischargeRate, ChargeRate,  \* charge moved per tick: I_DISCHARGE_MA, I_CHARGE_MA
  BenchCurrent,             \* the current a test bench may impose
  BusSize,                  \* frames the plant's receive buffer holds
  MaxCommands               \* bound of the model: 0x6E0 frames ever sent

ASSUME PlantAssumption ==
  /\ MaxChannels >= 2
  /\ SocFull \in Nat /\ SocLow \in 0 .. SocFull /\ SocHigh \in SocLow .. SocFull
  /\ SocStart \in SocLow .. SocHigh
  /\ DischargeRate \in Nat \ {0} /\ ChargeRate \in Nat \ {0}
  /\ BenchCurrent \in Int
  /\ BusSize \in Nat \ {0} /\ MaxCommands \in Nat

\* The string contactors Main+ and Main-, bits 0 and 1 of the mask.
Mains == {0, 1}

VARIABLES
  alive,      \* the vECU process runs
  bus,        \* frames in the receive buffer of the plant's socket
  normal,     \* bms_state_normal: the plant takes the contactors for closed
  charging,   \* direction of the current
  current,    \* current_ma, in units of charge per tick; positive discharges
  soc,        \* soc_pct
  imposed,    \* the entry (0x03, 0) of plant_overrides is set
  commands    \* how many 0x6E0 frames were sent

plantVars == <<normal, charging, current, soc, imposed>>
loopVars == <<vars, alive, bus, plantVars, commands>>

\* The four 16-bit words of an SPS frame, of which the first two carry channels.
SpsFrames == [id : {"0x7F0"}, word0 : SUBSET Channels, word1 : SUBSET Channels]
CommandFrames == [id : {"0x6E0"}, active : BOOLEAN]

\* The plant's numbers stay in their range whatever current a test bench imposes.
PlantTypeOK ==
  /\ TypeOK
  /\ alive \in BOOLEAN
  /\ bus \in Seq(SpsFrames \cup CommandFrames) /\ Len(bus) <= BusSize
  /\ normal \in BOOLEAN /\ charging \in BOOLEAN
  /\ current \in {0, DischargeRate, -ChargeRate, BenchCurrent}
  /\ soc \in 0 .. SocFull
  /\ imposed \in BOOLEAN
  /\ commands \in 0 .. MaxCommands

PlantInit ==
  /\ Init /\ alive = TRUE /\ bus = << >>
  /\ normal = FALSE /\ charging = FALSE /\ current = 0 /\ soc = SocStart
  /\ imposed = FALSE /\ commands = 0

-----------------------------------------------------------------------------
(* The vECU.                                                               *)

\* A frame that finds the receive buffer full is dropped by the kernel.
Deliver(frame) == bus' = IF Len(bus) < BusSize THEN Append(bus, frame) ELSE bus

\* The frame sil_probe_4u16 builds of the last probe: the actual states first.
ProbeFrame == [id |-> "0x7F0", word0 |-> probe'.actual, word1 |-> probe'.requested]

\* A faulty variant: the frame is sent only when the states have changed.
CtrlDeliveredOnChange ==
  /\ alive /\ SpsCtrl
  /\ IF probe' # probe THEN Deliver(ProbeFrame) ELSE UNCHANGED bus
  /\ UNCHANGED <<alive, plantVars, commands>>

CtrlDelivered ==
  /\ alive /\ SpsCtrl
  /\ Deliver(ProbeFrame)
  /\ UNCHANGED <<alive, plantVars, commands>>

\* The write on the non-blocking socket fails; nobody looks at its result.
CtrlUnsent ==
  /\ alive /\ SpsCtrl
  /\ UNCHANGED <<alive, bus, plantVars, commands>>

VecuRequest ==
  /\ alive /\ Request
  /\ UNCHANGED <<alive, bus, plantVars, commands>>

\* A SIL command of the test bench (0x7E0).
VecuCommand ==
  /\ alive /\ Command
  /\ UNCHANGED <<alive, bus, plantVars, commands>>

\* SIGINT, timeout: all channels open, without a last call of SPS_Ctrl.
VecuStops ==
  /\ alive /\ alive' = FALSE
  /\ SpsSwitchOff
  /\ UNCHANGED <<bus, plantVars, commands>>

VecuKilled ==
  /\ alive /\ alive' = FALSE
  /\ UNCHANGED <<vars, bus, plantVars, commands>>

\* A new process: sil_init, SPS_Initialize.
VecuStarts ==
  /\ ~alive /\ alive' = TRUE
  /\ overrides' = [id \in OverrideIds |-> [ix \in Indices |-> [active |-> FALSE, value |-> 0]]]
  /\ AllOpen
  /\ UNCHANGED <<probe, bus, plantVars, commands>>

-----------------------------------------------------------------------------
(* The plant.                                                              *)

\* The last frame with this identifier that waits in the buffer.
Waiting(id) == {k \in 1 .. Len(bus) : bus[k].id = id}
Latest(id) == bus[CHOOSE k \in Waiting(id) : \A j \in Waiting(id) : j <= k]

\* Every 0x7F0 frame replaces the view; bytes 2-3 are taken for the actual states.
ViewAfterDrain ==
  IF Waiting("0x7F0") = {} THEN normal ELSE Mains \subseteq Latest("0x7F0").word1

\* A command sets the override, or removes it (with its key, or with all others).
ImposedAfterDrain ==
  IF Waiting("0x6E0") = {} THEN imposed ELSE Latest("0x6E0").active

\* Faulty variants: no hysteresis; a threshold that must be hit exactly.
NoHysteresis(view) == view /\ soc <= SocLow
ExactThreshold(view) ==
  /\ view
  /\ IF charging THEN soc # SocHigh ELSE soc = SocLow

\* The direction is kept between the two thresholds and forgotten when open.
ChargingAfter(view) ==
  /\ view
  /\ IF charging THEN soc < SocHigh ELSE soc <= SocLow

\* A faulty variant: the current is not reset when the contactors are open.
CurrentKept(view, bench) ==
  IF bench THEN BenchCurrent
  ELSE IF ~view THEN current
  ELSE IF ChargingAfter(view) THEN -ChargeRate ELSE DischargeRate

CurrentAfter(view, bench) ==
  IF bench THEN BenchCurrent
  ELSE IF ~view THEN 0
  ELSE IF ChargingAfter(view) THEN -ChargeRate ELSE DischargeRate

Clamped(s) == IF s < 0 THEN 0 ELSE IF s > SocFull THEN SocFull ELSE s

\* One turn of the plant's loop: empty the buffer, then current, then charge.
PlantTick ==
  /\ bus' = << >>
  /\ normal' = ViewAfterDrain
  /\ imposed' = ImposedAfterDrain
  /\ charging' = ChargingAfter(ViewAfterDrain)
  /\ current' = CurrentAfter(ViewAfterDrain, ImposedAfterDrain)
  /\ soc' = Clamped(soc - current')
  /\ UNCHANGED <<vars, alive, commands>>

\* A 0x6E0 frame of the test bench.
BenchCommand ==
  /\ commands < MaxCommands
  /\ commands' = commands + 1
  /\ \E active \in BOOLEAN : Deliver([id |-> "0x6E0", active |-> active])
  /\ UNCHANGED <<vars, alive, plantVars>>

PlantNext ==
  \/ CtrlDelivered \/ CtrlUnsent \/ VecuRequest \/ VecuCommand
  \/ VecuStops \/ VecuKilled \/ VecuStarts
  \/ PlantTick \/ BenchCommand

PlantSpec == PlantInit /\ [][PlantNext]_loopVars

\* Both processes run on, and a write fails now and then but not for ever.
FairPlantSpec == PlantSpec /\ WF_loopVars(PlantTick) /\ WF_loopVars(CtrlDelivered)

-----------------------------------------------------------------------------
(* Properties.                                                             *)

\* Unless a test bench interferes, the pack never leaves the band between the two
\* thresholds by more than one tick's charge, however often the contactors open,
\* frames are lost, or the vECU is killed and started anew.
SocInBand ==
  commands = 0 => soc \in SocLow - DischargeRate .. SocHigh + ChargeRate

\* The current turns round only at a threshold: frames that open and close the
\* contactors within one tick do not disturb the cycle.
ReversesAtThreshold ==
  [][commands = 0 /\ current # 0 /\ current' # 0 /\ current' # current
       => IF current' < 0 THEN soc <= SocLow ELSE soc >= SocHigh]_loopVars

RequestedMains == \A c \in Mains : requested[c] = CLOSED

\* Lost frames and a full buffer delay the plant but do not mislead it for ever: while
\* the vECU runs and its requests do not change, the plant's view settles on them.
PlantFollowsRequest ==
  /\ <>[](alive /\ RequestedMains) => <>[]normal
  /\ <>[](alive /\ ~RequestedMains) => <>[](~normal)

\* An override of the current that is taken back leaves no trace in the current: from
\* some point on it is again zero or one of the two currents of the cycle.
OverrideIsRevocable ==
  <>[](~imposed) => <>[](current \in {0, DischargeRate, -ChargeRate})

=============================================================================
