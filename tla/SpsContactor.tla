---------------------------- MODULE SpsContactor ----------------------------
(***************************************************************************)
(* The simulated smart power switch of the vECU (hal_stubs_posix.c, "GA-05")*)
(* together with the SIL override table it consults (sil_layer.c).         *)
(*                                                                         *)
(* The battery-management application requests contactor states; SPS_Ctrl, *)
(* called once per cyclic task, lets the actual state follow after a fixed *)
(* number of calls.  A test bench may, over CAN 0x7E0, force the actual    *)
(* state of a channel (SIL_SPS_FORCE) or fake its feedback                 *)
(* (SIL_CONTACTOR_FB).  All of this runs in one thread: every function     *)
(* below is one atomic step, and the order of the steps is free.           *)
(***************************************************************************)
EXTENDS Integers

CONSTANTS
  MaxOverrides,   \* SIL_MAX_OVERRIDES, rows of the override table
  MaxIndex,       \* SIL_MAX_INDEX, entries of a row
  MaxChannels,    \* SPS_MAX_CHANNELS
  Delay,          \* SPS_CONTACTOR_DELAY_CYCLES
  ByteSize,       \* 256: an override value is cast to uint8_t
  SPS_FORCE,      \* SIL_SPS_FORCE, row that forces the actual state
  CONTACTOR_FB,   \* SIL_CONTACTOR_FB, row that fakes the feedback
  SilValues,      \* the int32 values a test bench sends
  SilTargets      \* the <<row, index>> pairs it addresses, in the table or not

ASSUME SpsAssumption ==
  /\ MaxOverrides \in Nat /\ MaxIndex \in Nat /\ MaxChannels \in Nat
  /\ MaxChannels <= MaxIndex
  /\ Delay \in Nat \ {0}
  /\ ByteSize \in Nat /\ ByteSize > 1
  /\ SPS_FORCE \in 0 .. MaxOverrides - 1
  /\ CONTACTOR_FB \in 0 .. MaxOverrides - 1
  /\ SPS_FORCE # CONTACTOR_FB
  /\ SilValues \subseteq Int /\ 0 \in SilValues
  /\ SilTargets \subseteq Nat \X Nat

OPEN == 0
CLOSED == 1

OverrideIds == 0 .. MaxOverrides - 1
Indices     == 0 .. MaxIndex - 1
Channels    == 0 .. MaxChannels - 1
Bytes       == 0 .. ByteSize - 1

VARIABLES
  overrides,   \* sil_overrides: per row and index, whether active and its value
  requested,   \* sps_channel_requested_state
  actual,      \* sps_channel_actual_state; any byte a force writes, else OPEN/CLOSED
  pending,     \* sps_channel_pending: a transition is in progress
  delayCtr,    \* sps_channel_delay_ctr
  probe        \* the 0x7F0/0x7F1 frames sent last: sets of channels

spsVars == <<requested, actual, pending, delayCtr>>
vars == <<overrides, requested, actual, pending, delayCtr, probe>>

Entries == [active : BOOLEAN, value : SilValues]

\* Every array keeps its range: a force never writes more than a byte and the delay
\* counter, 32 bits wide in the code, never reaches Delay between two calls.
TypeOK ==
  /\ overrides \in [OverrideIds -> [Indices -> Entries]]
  /\ requested \in [Channels -> {OPEN, CLOSED}]
  /\ actual \in [Channels -> Bytes]
  /\ pending \in [Channels -> BOOLEAN]
  /\ delayCtr \in [Channels -> 0 .. Delay - 1]
  /\ probe \in [actual : SUBSET Channels, requested : SUBSET Channels,
                pending : SUBSET Channels]

-----------------------------------------------------------------------------
(* The SIL layer.                                                          *)

\* sil_init: the whole table is zeroed.
SilInit ==
  overrides = [id \in OverrideIds |->
                 [ix \in Indices |-> [active |-> FALSE, value |-> 0]]]

\* A command shorter than seven bytes, or one that names no table entry, is
\* silently ignored.
SilCommandAccepted(dlc, id, ix) ==
  dlc >= 7 /\ id \in OverrideIds /\ ix \in Indices

SilProcessCommand(dlc, id, ix, active, value) ==
  /\ overrides' =
       IF SilCommandAccepted(dlc, id, ix)
       THEN [overrides EXCEPT ![id][ix] = [active |-> active, value |-> value]]
       ELSE overrides
  /\ UNCHANGED <<spsVars, probe>>

SilOverrideActive(id, ix) ==
  id \in OverrideIds /\ ix \in Indices /\ overrides[id][ix].active

\* A faulty variant: the int32 value is stored without the cast to a byte.
SilOverrideUncast(id, ix) == overrides[id][ix].value

SilOverrideByte(id, ix) == overrides[id][ix].value % ByteSize

-----------------------------------------------------------------------------
(* The power switch.                                                       *)

AllOpen ==
  /\ requested' = [c \in Channels |-> OPEN]
  /\ actual'    = [c \in Channels |-> OPEN]
  /\ pending'   = [c \in Channels |-> FALSE]
  /\ delayCtr'  = [c \in Channels |-> 0]

SpsInit ==
  /\ requested = [c \in Channels |-> OPEN]
  /\ actual    = [c \in Channels |-> OPEN]
  /\ pending   = [c \in Channels |-> FALSE]
  /\ delayCtr  = [c \in Channels |-> 0]
  /\ probe     = [actual |-> {}, requested |-> {}, pending |-> {}]

Forced(c) == SilOverrideActive(SPS_FORCE, c)

\* Faulty variants: the transition takes one call too many, or one too few.
ExpiresLate(c) == pending[c] /\ ~Forced(c) /\ delayCtr[c] >= Delay
ExpiresEarly(c) == pending[c] /\ ~Forced(c) /\ delayCtr[c] + 2 >= Delay

\* The call of SPS_Ctrl at hand is the one that ends the transition of c.
Expires(c) == pending[c] /\ ~Forced(c) /\ delayCtr[c] + 1 >= Delay

\* A faulty variant: the loop breaks off at a forced channel instead of continuing.
SpsCtrlBreaksOff ==
  LET Reached(c) == \A d \in Channels : d < c => ~Forced(d)
      Ends(c)    == Reached(c) /\ Expires(c)
      Counts(c)  == Reached(c) /\ pending[c] /\ ~Forced(c) /\ ~Expires(c)
      Held(c)    == Reached(c) /\ Forced(c)
  IN /\ actual' = [c \in Channels |->
          CASE Held(c) -> SilOverrideByte(SPS_FORCE, c)
            [] Ends(c) -> requested[c]
            [] OTHER   -> actual[c]]
     /\ pending' = [c \in Channels |-> pending[c] /\ ~Held(c) /\ ~Ends(c)]
     /\ delayCtr' = [c \in Channels |->
          CASE Ends(c)   -> 0
            [] Counts(c) -> delayCtr[c] + 1
            [] OTHER     -> delayCtr[c]]
     /\ UNCHANGED <<overrides, requested, probe>>

\* One pass over all channels, then the two probe frames.  A force writes the
\* actual state and drops the transition in progress; its counter is left as is.
SpsCtrl ==
  /\ actual' = [c \in Channels |->
       CASE Forced(c)  -> SilOverrideByte(SPS_FORCE, c)
         [] Expires(c) -> requested[c]
         [] OTHER      -> actual[c]]
  /\ pending' = [c \in Channels |-> pending[c] /\ ~Forced(c) /\ ~Expires(c)]
  /\ delayCtr' = [c \in Channels |->
       CASE Expires(c)                 -> 0
         [] pending[c] /\ ~Forced(c) /\ ~Expires(c) -> delayCtr[c] + 1
         [] OTHER                      -> delayCtr[c]]
  /\ probe' = [actual    |-> {c \in Channels : actual'[c] # OPEN},
               requested |-> {c \in Channels : requested[c] # OPEN},
               pending   |-> {c \in Channels : pending'[c]}]
  /\ UNCHANGED <<overrides, requested>>

\* The request of a state the channel already has is ignored, and so is that of
\* a channel that does not exist; any other one (re)starts the delay.
RequestAccepted(ch, state) == ch \in Channels /\ state # requested[ch]

\* A faulty variant: the request of the opposite state, made while a transition is in
\* progress, cancels the transition.
SpsRequestCancels(ch, state) ==
  /\ IF RequestAccepted(ch, state)
     THEN /\ requested' = [requested EXCEPT ![ch] = state]
          /\ pending'   = [pending EXCEPT ![ch] = ~pending[ch]]
          /\ delayCtr'  = [delayCtr EXCEPT ![ch] = 0]
     ELSE UNCHANGED <<requested, pending, delayCtr>>
  /\ UNCHANGED <<overrides, actual, probe>>

SpsRequestContactorState(ch, state) ==
  /\ IF RequestAccepted(ch, state)
     THEN /\ requested' = [requested EXCEPT ![ch] = state]
          /\ pending'   = [pending EXCEPT ![ch] = TRUE]
          /\ delayCtr'  = [delayCtr EXCEPT ![ch] = 0]
     ELSE UNCHANGED <<requested, pending, delayCtr>>
  /\ UNCHANGED <<overrides, actual, probe>>

\* What the application reads back from a channel (all three feedback
\* functions compute it the same way).
SpsFeedback(ch) ==
  IF ch \notin Channels THEN OPEN
  ELSE IF SilOverrideActive(CONTACTOR_FB, ch) THEN SilOverrideByte(CONTACTOR_FB, ch)
  ELSE actual[ch]

\* A faulty variant: the requests are left as they are.
SpsSwitchOffKeepsRequests ==
  /\ actual'   = [c \in Channels |-> OPEN]
  /\ pending'  = [c \in Channels |-> FALSE]
  /\ delayCtr' = [c \in Channels |-> 0]
  /\ UNCHANGED <<overrides, requested, probe>>

\* SPS_SwitchOffAllGeneralIoChannels: everything opens at once, no delay.
SpsSwitchOff == AllOpen /\ UNCHANGED <<overrides, probe>>

-----------------------------------------------------------------------------
Init == SilInit /\ SpsInit

Command ==
  \E dlc \in {6, 7}, t \in SilTargets, active \in BOOLEAN, value \in SilValues :
    SilProcessCommand(dlc, t[1], t[2], active, value)

Request ==
  \E ch \in 0 .. MaxChannels, state \in {OPEN, CLOSED} :
    SpsRequestContactorState(ch, state)

Next == Command \/ Request \/ SpsCtrl \/ SpsSwitchOff

Spec == Init /\ [][Next]_vars

-----------------------------------------------------------------------------
(* Properties.                                                             *)

\* The last accepted request has been carried out, or is on its way.
Honoured(c) == pending[c] \/ actual[c] = requested[c]

\* SPS_Ctrl and the request function together never lose a request: the only
\* step after which a channel rests in another state than the requested one is
\* a step taken while a SIL force on that channel is active.
LostOnlyByForce ==
  [][\A c \in Channels : Honoured(c) /\ ~Honoured(c)' => Forced(c)]_vars

\* No transition stays in flight for ever: once a channel is no longer forced and
\* its request no longer changes, SPS_Ctrl ends the transition, however often the
\* other channels are commanded, requested and forced meanwhile.
TransitionsEnd ==
  \A c \in Channels :
    /\ <>[](~Forced(c))
    /\ <>[][requested'[c] = requested[c]]_vars
    => <>[](~pending[c])

\* The power switch keeps the promise a contactor makes to the application.
Promise == INSTANCE ContactorPromise WITH
  Contactors <- Channels, Positions <- Bytes, Open <- OPEN,
  wanted <- requested, at <- actual, moving <- pending,
  held <- [c \in Channels |-> Forced(c)]

\* Refinement: every step of the power switch is a step of that promise.
KeepsPromise == Promise!Spec

=============================================================================
