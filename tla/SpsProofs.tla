------------------------------ MODULE SpsProofs ------------------------------
(***************************************************************************)
(* Proofs about the simulated power switch, for every number of channels,  *)
(* every delay and every value a test bench may send, and about the plant  *)
(* it drives, for every pair of thresholds, rates, and size of the buffer. *)
(***************************************************************************)
EXTENDS SpsHistory, PlantHistory, SequenceTheorems, WellFoundedInduction, TLAPS

\* Type correctness of the power switch: every array keeps its range; the delay
\* counter never reaches Delay, and a cast override is always a byte.
LEMMA CastIsByte == \A v \in Int : v % ByteSize \in Bytes
  BY SpsAssumption DEF Bytes

LEMMA TypeInit == Init => TypeOK
  <1> SUFFICES ASSUME Init PROVE TypeOK
    OBVIOUS
  <1>1. 0 \in Bytes /\ 0 \in 0 .. Delay - 1
    BY SpsAssumption DEF Bytes
  <1>2. overrides \in [OverrideIds -> [Indices -> Entries]]
    BY SpsAssumption DEF Init, SilInit, Entries
  <1> QED
    BY <1>1, <1>2 DEF Init, SpsInit, TypeOK, OPEN, CLOSED

LEMMA TypeCommand ==
  ASSUME TypeOK, NEW dlc, NEW id, NEW ix, NEW active \in BOOLEAN,
         NEW value \in SilValues, SilProcessCommand(dlc, id, ix, active, value)
  PROVE  TypeOK'
  <1> DEFINE e == [active |-> active, value |-> value]
  <1>1. e \in Entries
    BY DEF Entries
  <1>2. overrides' \in [OverrideIds -> [Indices -> Entries]]
    <2>1. CASE SilCommandAccepted(dlc, id, ix)
      <3>1. overrides' = [overrides EXCEPT ![id][ix] = e]
        BY <2>1 DEF SilProcessCommand
      <3> QED
        BY <3>1, <2>1, <1>1 DEF TypeOK, SilCommandAccepted
    <2>2. CASE ~SilCommandAccepted(dlc, id, ix)
      BY <2>2 DEF SilProcessCommand, TypeOK
    <2> QED
      BY <2>1, <2>2
  <1> QED
    BY <1>2 DEF TypeOK, SilProcessCommand, spsVars

LEMMA TypeRequest ==
  ASSUME TypeOK, NEW ch, NEW state \in {OPEN, CLOSED},
         SpsRequestContactorState(ch, state)
  PROVE  TypeOK'
  <1>1. 0 \in 0 .. Delay - 1
    BY SpsAssumption
  <1>2. CASE RequestAccepted(ch, state)
    BY <1>1, <1>2 DEF TypeOK, SpsRequestContactorState
  <1>3. CASE ~RequestAccepted(ch, state)
    BY <1>3 DEF TypeOK, SpsRequestContactorState
  <1> QED
    BY <1>2, <1>3

LEMMA TypeCtrl == TypeOK /\ SpsCtrl => TypeOK'
  <1> SUFFICES ASSUME TypeOK, SpsCtrl PROVE TypeOK'
    OBVIOUS
  <1>1. ASSUME NEW c \in Channels PROVE actual'[c] \in Bytes
    <2>1. CASE Forced(c)
      <3>1. overrides[SPS_FORCE][c].value \in Int
        BY <2>1, SpsAssumption DEF Forced, SilOverrideActive, TypeOK, Entries
      <3> QED
        <4>1. actual'[c] = SilOverrideByte(SPS_FORCE, c)
          BY <2>1 DEF SpsCtrl, Expires
        <4> QED
          BY <4>1, <3>1, CastIsByte DEF SilOverrideByte
    <2>2. CASE ~Forced(c)
      <3>1. {OPEN, CLOSED} \subseteq Bytes
        BY SpsAssumption DEF Bytes, OPEN, CLOSED
      <3>2. actual'[c] = requested[c] \/ actual'[c] = actual[c]
        BY <2>2 DEF SpsCtrl
      <3>3. requested[c] \in {OPEN, CLOSED} /\ actual[c] \in Bytes
        BY DEF TypeOK
      <3> QED
        BY <3>1, <3>2, <3>3
    <2> QED
      BY <2>1, <2>2
  <1>2. actual' \in [Channels -> Bytes]
    BY <1>1 DEF SpsCtrl
  <1>3. pending' \in [Channels -> BOOLEAN]
    BY DEF SpsCtrl
  <1>4. ASSUME NEW c \in Channels PROVE delayCtr'[c] \in 0 .. Delay - 1
    <2>1. delayCtr[c] \in 0 .. Delay - 1 /\ Delay \in Nat \ {0}
      BY SpsAssumption DEF TypeOK
    <2>2. CASE Expires(c)
      BY <2>1, <2>2 DEF SpsCtrl
    <2>3. CASE pending[c] /\ ~Forced(c) /\ ~Expires(c)
      <3>1. ~(delayCtr[c] + 1 >= Delay)
        BY <2>3 DEF Expires
      <3>2. delayCtr'[c] = delayCtr[c] + 1
        BY <2>3 DEF SpsCtrl
      <3> QED
        BY <2>1, <3>1, <3>2
    <2>4. CASE ~Expires(c) /\ ~(pending[c] /\ ~Forced(c) /\ ~Expires(c))
      BY <2>1, <2>4 DEF SpsCtrl
    <2> QED
      BY <2>2, <2>3, <2>4
  <1>5. delayCtr' \in [Channels -> 0 .. Delay - 1]
    BY <1>4 DEF SpsCtrl
  <1>6. probe' \in [actual : SUBSET Channels, requested : SUBSET Channels,
                    pending : SUBSET Channels]
    BY DEF SpsCtrl
  <1> QED
    BY <1>2, <1>3, <1>5, <1>6 DEF TypeOK, SpsCtrl

LEMMA TypeSwitchOff == TypeOK /\ SpsSwitchOff => TypeOK'
  <1>1. 0 \in Bytes /\ 0 \in 0 .. Delay - 1
    BY SpsAssumption DEF Bytes
  <1> QED
    BY <1>1 DEF TypeOK, SpsSwitchOff, AllOpen, OPEN, CLOSED

LEMMA TypeStep == TypeOK /\ [Next]_vars => TypeOK'
  <1> SUFFICES ASSUME TypeOK, [Next]_vars PROVE TypeOK'
    OBVIOUS
  <1>1. CASE Command
    BY <1>1, TypeCommand DEF Command
  <1>2. CASE Request
    BY <1>2, TypeRequest DEF Request
  <1>3. CASE SpsCtrl
    BY <1>3, TypeCtrl
  <1>4. CASE SpsSwitchOff
    BY <1>4, TypeSwitchOff
  <1>5. CASE UNCHANGED vars
    BY <1>5 DEF vars, TypeOK
  <1> QED
    BY <1>1, <1>2, <1>3, <1>4, <1>5 DEF Next

\* Every reachable state of the power switch is well typed.
THEOREM TypeCorrect == Spec => []TypeOK
  BY TypeInit, TypeStep, PTL DEF Spec

-----------------------------------------------------------------------------
\* A request is lost only to a force: whenever a channel stops being on its way to,
\* or in, the state last requested, a SIL force on that channel was active.
LEMMA LostStep ==
  ASSUME TypeOK, [Next]_vars, NEW c \in Channels, Honoured(c), ~Honoured(c)'
  PROVE  Forced(c)
  <1>1. CASE Command
    BY <1>1 DEF Command, SilProcessCommand, spsVars, Honoured
  <1>2. CASE Request
    <2>1. PICK ch \in 0 .. MaxChannels, state \in {OPEN, CLOSED} :
            SpsRequestContactorState(ch, state)
      BY <1>2 DEF Request
    <2> QED
      BY <2>1 DEF SpsRequestContactorState, RequestAccepted, Honoured, TypeOK
  <1>3. CASE SpsCtrl
    <2> SUFFICES ASSUME ~Forced(c) PROVE Honoured(c)'
      OBVIOUS
    <2>1. requested'[c] = requested[c]
      BY <1>3 DEF SpsCtrl
    <2>2. CASE Expires(c)
      BY <1>3, <2>1, <2>2 DEF SpsCtrl, Honoured
    <2>3. CASE ~Expires(c)
      BY <1>3, <2>1, <2>3 DEF SpsCtrl, Honoured
    <2> QED
      BY <2>2, <2>3
  <1>4. CASE SpsSwitchOff
    BY <1>4 DEF SpsSwitchOff, AllOpen, Honoured
  <1>5. CASE UNCHANGED vars
    BY <1>5 DEF vars, Honoured
  <1> QED
    BY <1>1, <1>2, <1>3, <1>4, <1>5 DEF Next

\* For every number of channels and every delay: SPS_Ctrl and the request function
\* lose no request; only a SIL force does.
THEOREM RequestsLostOnlyByForce == Spec => LostOnlyByForce
  <1>1. TypeOK /\ [Next]_vars
          => [\A c \in Channels : Honoured(c) /\ ~Honoured(c)' => Forced(c)]_vars
    BY LostStep
  <1> QED
    BY <1>1, TypeCorrect, PTL DEF Spec, LostOnlyByForce

-----------------------------------------------------------------------------
(* The timing: the counter is the age of the request, hence the deadline.  *)

\* DeadlineMet is not inductive: a state in which an untainted channel rests off
\* its requested state before the deadline would break it one step later.  No such
\* state is reachable, which is what the last conjunct says.
HonouredUnlessTainted == \A c \in Channels : ~tainted[c] => Honoured(c)

HistInv == HistRange /\ CounterIsAge /\ HonouredUnlessTainted

LEMMA DeadlineFollows == HistInv => DeadlineMet
  <1> SUFFICES ASSUME HistInv, NEW c \in Channels, ~tainted[c], age[c] = Delay
               PROVE  actual[c] = requested[c] /\ ~pending[c]
    BY DEF DeadlineMet
  <1>1. ~pending[c]
    <2>1. delayCtr[c] \in 0 .. Delay - 1 /\ Delay \in Nat
      BY SpsAssumption DEF HistInv, HistRange, TypeOK
    <2>2. pending[c] => delayCtr[c] = Delay
      BY DEF HistInv, CounterIsAge
    <2> QED
      BY <2>1, <2>2
  <1> QED
    BY <1>1 DEF HistInv, HonouredUnlessTainted, Honoured

LEMMA HistInitOK == HistInit => HistInv
  <1> SUFFICES ASSUME HistInit PROVE HistInv
    OBVIOUS
  <1>1. TypeOK
    BY TypeInit DEF HistInit
  <1>2. Delay \in 0 .. Delay
    BY SpsAssumption
  <1> QED
    BY <1>1, <1>2 DEF HistInit, Init, SpsInit, HistInv, HistRange, CounterIsAge,
                      HonouredUnlessTainted, Honoured

LEMMA HistRequestOK == HistInv /\ HistRequest => HistInv'
  <1> SUFFICES ASSUME HistInv, HistRequest PROVE HistInv'
    OBVIOUS
  <1>1. PICK ch \in 0 .. MaxChannels, state \in {OPEN, CLOSED} :
          /\ SpsRequestContactorState(ch, state)
          /\ age' = IF RequestAccepted(ch, state) THEN [age EXCEPT ![ch] = 0] ELSE age
          /\ tainted' = IF RequestAccepted(ch, state)
                        THEN [tainted EXCEPT ![ch] = FALSE] ELSE tainted
    BY DEF HistRequest
  <1>2. TypeOK'
    BY <1>1, TypeRequest DEF HistInv, HistRange
  <1>3. Delay \in Nat \ {0}
    BY SpsAssumption
  <1>4. CASE RequestAccepted(ch, state)
    <2>1. HistRange'
      <3>1. age' = [age EXCEPT ![ch] = 0] /\ age \in [Channels -> 0 .. Delay]
        BY <1>1, <1>4 DEF HistInv, HistRange
      <3>2. tainted' = [tainted EXCEPT ![ch] = FALSE]
              /\ tainted \in [Channels -> BOOLEAN]
        BY <1>1, <1>4 DEF HistInv, HistRange
      <3>3. 0 \in 0 .. Delay
        BY <1>3
      <3> QED
        BY <1>2, <3>1, <3>2, <3>3 DEF HistRange
    <2>2. CounterIsAge'
      BY <1>1, <1>4 DEF HistInv, HistRange, TypeOK, CounterIsAge,
                        SpsRequestContactorState
    <2>3. HonouredUnlessTainted'
      BY <1>1, <1>4 DEF HistInv, HistRange, TypeOK, HonouredUnlessTainted,
                        Honoured, SpsRequestContactorState, RequestAccepted
    <2> QED
      BY <2>1, <2>2, <2>3 DEF HistInv
  <1>5. CASE ~RequestAccepted(ch, state)
    BY <1>1, <1>2, <1>5 DEF HistInv, HistRange, CounterIsAge,
                 HonouredUnlessTainted, Honoured,
                            SpsRequestContactorState
  <1> QED
    BY <1>4, <1>5

LEMMA HistCtrlOK == HistInv /\ HistCtrl => HistInv'
  <1> SUFFICES ASSUME HistInv, HistCtrl PROVE HistInv'
    OBVIOUS
  <1>1. Delay \in Nat \ {0}
    BY SpsAssumption
  <1>2. TypeOK /\ TypeOK'
    BY TypeCtrl DEF HistCtrl, HistInv, HistRange
  <1>3. \A c \in Channels : age[c] \in 0 .. Delay
    BY DEF HistInv, HistRange
  <1>4. HistRange'
    <2>1. age' \in [Channels -> 0 .. Delay]
      BY <1>1, <1>3 DEF HistCtrl
    <2> QED
      BY <1>2, <2>1 DEF HistCtrl, HistRange
  <1>5. ASSUME NEW c \in Channels
        PROVE  /\ pending'[c] => ~tainted'[c] /\ delayCtr'[c] = age'[c]
               /\ ~tainted'[c] => Honoured(c)'
    <2>1. /\ pending[c] => ~tainted[c] /\ delayCtr[c] = age[c]
          /\ ~tainted[c] => Honoured(c)
          /\ delayCtr[c] \in 0 .. Delay - 1 /\ age[c] \in 0 .. Delay
          /\ pending[c] \in BOOLEAN /\ tainted[c] \in BOOLEAN
      BY <1>2, <1>3 DEF HistInv, HistRange, TypeOK, CounterIsAge,
                 HonouredUnlessTainted, Honoured
    <2>2. CASE Forced(c)
      BY <2>2 DEF HistCtrl, SpsCtrl
    <2>3. CASE Expires(c)
      <3>1. actual'[c] = requested[c] /\ requested'[c] = requested[c]
        BY <2>3 DEF HistCtrl, SpsCtrl, Expires
      <3>2. actual'[c] = requested'[c]
        BY <3>1
      <3>3. pending'[c] = FALSE
        BY <2>3 DEF HistCtrl, SpsCtrl
      <3>4. ~(pending'[c])
        BY <3>3
      <3> QED
        BY <3>2, <3>4 DEF Honoured
    <2>4. CASE ~Forced(c) /\ ~Expires(c) /\ pending[c]
      <3>1. delayCtr'[c] = delayCtr[c] + 1 /\ pending'[c]
        BY <2>4 DEF HistCtrl, SpsCtrl
      <3>2. delayCtr[c] + 1 < Delay
        BY <2>1, <2>4, <1>1 DEF Expires
      <3>3. age'[c] = age[c] + 1 /\ ~tainted'[c]
        BY <2>1, <2>4, <1>1 DEF HistCtrl
      <3> QED
        BY <3>1, <3>2, <3>3, <2>1, <2>4, <1>1 DEF Honoured
    <2>5. CASE ~Forced(c) /\ ~Expires(c) /\ ~pending[c]
      <3>1. actual'[c] = actual[c] /\ ~pending'[c] /\ requested'[c] = requested[c]
        BY <2>5 DEF HistCtrl, SpsCtrl
      <3>2. tainted'[c] = tainted[c]
        BY <2>1, <2>5 DEF HistCtrl
      <3> QED
        BY <3>1, <3>2, <2>1, <2>5 DEF Honoured
    <2> QED
      BY <2>2, <2>3, <2>4, <2>5
  <1> QED
    BY <1>4, <1>5 DEF HistInv, CounterIsAge,
                 HonouredUnlessTainted, Honoured

LEMMA HistStep == HistInv /\ [HistNext]_histVars => HistInv'
  <1> SUFFICES ASSUME HistInv, [HistNext]_histVars PROVE HistInv'
    OBVIOUS
  <1>1. CASE HistCommand
    <2>1. TypeOK'
      BY <1>1, TypeCommand DEF HistCommand, Command, HistInv, HistRange
    <2> QED
      BY <1>1, <2>1 DEF HistCommand, Command, SilProcessCommand, spsVars, HistInv,
                        HistRange, CounterIsAge,
                 HonouredUnlessTainted, Honoured
  <1>2. CASE HistRequest
    BY <1>2, HistRequestOK
  <1>3. CASE HistCtrl
    BY <1>3, HistCtrlOK
  <1>4. CASE HistSwitchOff
    <2>1. TypeOK'
      BY <1>4, TypeSwitchOff DEF HistSwitchOff, HistInv, HistRange
    <2>2. Delay \in 0 .. Delay
      BY SpsAssumption
    <2> QED
      BY <1>4, <2>1, <2>2 DEF HistSwitchOff, SpsSwitchOff, AllOpen, HistInv,
                              HistRange, CounterIsAge,
                 HonouredUnlessTainted, Honoured
  <1>5. CASE UNCHANGED histVars
    BY <1>5 DEF histVars, spsVars, HistInv, HistRange, TypeOK, CounterIsAge,
                 HonouredUnlessTainted, Honoured
  <1> QED
    BY <1>1, <1>2, <1>3, <1>4, <1>5 DEF HistNext

\* The deadline holds for every delay: Delay calls of SPS_Ctrl after a request a
\* contactor that was not forced meanwhile is in the requested state.
THEOREM DeadlineIsMet == HistSpec => []DeadlineMet
  BY DeadlineFollows, HistInitOK, HistStep, PTL DEF HistSpec

\* Contactors, counters and the history of every request stay in range, also under
\* forces whose value is neither OPEN nor CLOSED; a channel in such a state has been
\* forced since its last request, or is on its way out of it.
THEOREM HistTypeCorrect == HistSpec => []HistTypeOK
  <1>1. HistInv => HistTypeOK
    <2> SUFFICES ASSUME HistInv PROVE HistTypeOK
      OBVIOUS
    <2>1. ASSUME NEW c \in Channels, ~tainted[c], ~pending[c]
          PROVE  actual[c] \in {OPEN, CLOSED}
      BY <2>1 DEF HistInv, HonouredUnlessTainted, Honoured, HistRange, TypeOK
    <2> QED
      BY <2>1 DEF HistInv, HistTypeOK, JammedOnlyByForce
  <1> QED
    BY <1>1, HistInitOK, HistStep, PTL DEF HistSpec

\* The step that takes a channel into a state that is neither open nor closed is one
\* under a force of that very channel: no request, no control cycle without a force and
\* no switching off leads there.
THEOREM OnlyAForceJams ==
  HistSpec => [][\A c \in Channels : actual[c] \in {OPEN, CLOSED} /\ ~Forced(c)
                                       => actual'[c] \in {OPEN, CLOSED}]_histVars
  <1>1. HistInv /\ [HistNext]_histVars
          => [\A c \in Channels : actual[c] \in {OPEN, CLOSED} /\ ~Forced(c)
                                    => actual'[c] \in {OPEN, CLOSED}]_histVars
    <2> SUFFICES ASSUME HistInv, HistNext, NEW c \in Channels,
                        actual[c] \in {OPEN, CLOSED}, ~Forced(c)
                 PROVE  actual'[c] \in {OPEN, CLOSED}
      BY DEF histVars
    <2>1. requested[c] \in {OPEN, CLOSED}
      BY DEF HistInv, HistRange, TypeOK
    <2>2. CASE HistCommand
      BY <2>2 DEF HistCommand, Command, SilProcessCommand, spsVars
    <2>3. CASE HistRequest
      BY <2>3 DEF HistRequest, SpsRequestContactorState
    <2>4. CASE HistCtrl
      BY <2>1, <2>4 DEF HistCtrl, SpsCtrl
    <2>5. CASE HistSwitchOff
      BY <2>5 DEF HistSwitchOff, SpsSwitchOff, AllOpen
    <2> QED
      BY <2>2, <2>3, <2>4, <2>5 DEF HistNext
  <1> QED
    BY <1>1, HistInitOK, HistStep, PTL DEF HistSpec

\* The code's delay counter is the age of the request it delays.
THEOREM CounterCountsAge == HistSpec => []CounterIsAge
  <1>1. HistInv => CounterIsAge
    BY DEF HistInv
  <1> QED
    BY <1>1, HistInitOK, HistStep, PTL DEF HistSpec

\* An unforced contactor never moves before its delay is over.
LEMMA EarlyStep ==
  ASSUME HistInv, [HistNext]_histVars, NEW c \in Channels,
         actual'[c] # actual[c], ~Forced(c)
  PROVE  age'[c] = Delay \/ SpsSwitchOff
  <1>1. CASE HistCommand
    BY <1>1 DEF HistCommand, Command, SilProcessCommand, spsVars
  <1>2. CASE HistRequest
    BY <1>2 DEF HistRequest, SpsRequestContactorState
  <1>3. CASE HistCtrl
    <2>1. Expires(c)
      BY <1>3 DEF HistCtrl, SpsCtrl
    <2>2. delayCtr[c] = age[c] /\ age[c] \in 0 .. Delay /\ delayCtr[c] + 1 >= Delay
      BY <2>1 DEF HistInv, HistRange, CounterIsAge, Expires
    <2>3. age'[c] = IF age[c] < Delay THEN age[c] + 1 ELSE Delay
      BY <1>3 DEF HistCtrl
    <2> QED
      BY <2>2, <2>3, SpsAssumption
  <1>4. CASE HistSwitchOff
    BY <1>4 DEF HistSwitchOff
  <1>5. CASE UNCHANGED histVars
    BY <1>5 DEF histVars, spsVars
  <1> QED
    BY <1>1, <1>2, <1>3, <1>4, <1>5 DEF HistNext

\* For every delay: an unforced contactor moves only when Delay calls of SPS_Ctrl have
\* passed since the last accepted request, or when everything is switched off.
THEOREM NoEarlyMove == HistSpec => NeverMovesEarly
  <1>1. HistInv /\ [HistNext]_histVars
          => [\A c \in Channels :
                actual'[c] # actual[c] /\ ~Forced(c)
                  => age'[c] = Delay \/ SpsSwitchOff]_histVars
    BY EarlyStep
  <1> QED
    BY <1>1, HistInitOK, HistStep, PTL DEF HistSpec, NeverMovesEarly

-----------------------------------------------------------------------------
(* Refinement: the power switch keeps ContactorPromise.                    *)

LEMMA PromiseInit == Init => Promise!Init
  <1> SUFFICES ASSUME Init PROVE Promise!Init
    OBVIOUS
  <1>1. \A c \in Channels : Forced(c) = FALSE
    BY SpsAssumption DEF Init, SilInit, Forced, SilOverrideActive
  <1>2. [c \in Channels |-> Forced(c)] = [c \in Channels |-> FALSE]
    BY <1>1
  <1> QED
    BY <1>2 DEF Init, SpsInit, Promise!Init

LEMMA PromiseCtrl == TypeOK /\ SpsCtrl => Promise!Elapse
  <1> SUFFICES ASSUME TypeOK, SpsCtrl PROVE Promise!Elapse
    OBVIOUS
  <1>1. TypeOK'
    BY TypeCtrl
  <1>2. \A c \in Channels : Forced(c)' = Forced(c)
    BY DEF SpsCtrl, Forced, SilOverrideActive
  <1>3. ASSUME NEW c \in Channels
        PROVE  IF Forced(c) THEN Promise!Placed(c)
                            ELSE Promise!Stays(c) \/ Promise!Arrives(c)
    <2>1. CASE Forced(c)
      <3>1. actual'[c] \in Bytes /\ ~pending'[c]
        BY <1>1, <2>1 DEF TypeOK, SpsCtrl
      <3> QED
        BY <2>1, <3>1 DEF Promise!Placed
    <2>2. CASE Expires(c)
      <3>1. actual'[c] = requested[c] /\ ~pending'[c] /\ pending[c]
        BY <2>2 DEF SpsCtrl, Expires
      <3> QED
        BY <2>2, <3>1 DEF Promise!Arrives, Expires
    <2>3. CASE ~Forced(c) /\ ~Expires(c)
      <3>1. actual'[c] = actual[c] /\ pending'[c] = pending[c]
        BY <2>3 DEF SpsCtrl, TypeOK
      <3> QED
        BY <2>3, <3>1 DEF Promise!Stays
    <2> QED
      BY <2>1, <2>2, <2>3
  <1>4. \A c \in Channels : [d \in Channels |-> Forced(d)][c] = Forced(c)
    OBVIOUS
  <1>5. [d \in Channels |-> Forced(d)]' = [d \in Channels |-> Forced(d)]
    BY <1>2
  <1> QED
    BY <1>1, <1>3, <1>4, <1>5 DEF Promise!Elapse, TypeOK, SpsCtrl

LEMMA PromiseStep == TypeOK /\ [Next]_vars => [Promise!Next]_Promise!promiseVars
  <1> SUFFICES ASSUME TypeOK, [Next]_vars
               PROVE  Promise!Next \/ UNCHANGED Promise!promiseVars
    OBVIOUS
  <1>1. CASE Command
    <2>1. [c \in Channels |-> Forced(c)]' \in [Channels -> BOOLEAN]
      <3>1. TypeOK'
        BY <1>1, TypeCommand DEF Command
      <3>2. \A c \in Channels : Forced(c)' \in BOOLEAN
        BY <3>1, SpsAssumption DEF TypeOK, Entries, Forced, SilOverrideActive,
                                   OverrideIds, Indices, Channels
      <3> QED
        BY <3>2
    <2> QED
      BY <1>1, <2>1 DEF Command, SilProcessCommand, spsVars, Promise!Next, Promise!Hold
  <1>2. CASE Request
    <2>1. PICK ch \in 0 .. MaxChannels, state \in {OPEN, CLOSED} :
            SpsRequestContactorState(ch, state)
      BY <1>2 DEF Request
    <2>2. [c \in Channels |-> Forced(c)]' = [c \in Channels |-> Forced(c)]
      BY <2>1 DEF SpsRequestContactorState, Forced, SilOverrideActive
    <2>3. CASE RequestAccepted(ch, state)
      <3>1. state \in Bytes \ {requested[ch]} /\ ch \in Channels
        BY <2>3, SpsAssumption DEF RequestAccepted, Bytes, OPEN, CLOSED
      <3>2. Promise!Want(ch)
        BY <2>1, <2>2, <2>3, <3>1 DEF SpsRequestContactorState, Promise!Want
      <3> QED
        BY <3>1, <3>2 DEF Promise!Next
    <2>4. CASE ~RequestAccepted(ch, state)
      BY <2>1, <2>2, <2>4 DEF SpsRequestContactorState, Promise!promiseVars
    <2> QED
      BY <2>3, <2>4
  <1>3. CASE SpsCtrl
    BY <1>3, PromiseCtrl DEF Promise!Next
  <1>4. CASE SpsSwitchOff
    <2>1. [c \in Channels |-> Forced(c)]' = [c \in Channels |-> Forced(c)]
      BY <1>4 DEF SpsSwitchOff, Forced, SilOverrideActive
    <2> QED
      BY <1>4, <2>1 DEF SpsSwitchOff, AllOpen, Promise!Next, Promise!SwitchOff
  <1>5. CASE UNCHANGED vars
    BY <1>5 DEF vars, Promise!promiseVars, Forced, SilOverrideActive
  <1> QED
    BY <1>1, <1>2, <1>3, <1>4, <1>5 DEF Next

\* The power switch implements the promise a contactor makes to the application.
THEOREM PromiseKept == Spec => KeepsPromise
  <1>1. Spec => Promise!Spec
    BY PromiseInit, PromiseStep, TypeCorrect, PTL DEF Spec, Promise!Spec
  <1> QED
    BY <1>1 DEF KeepsPromise

-----------------------------------------------------------------------------
(* The plant.  Until a test bench interferes, the buffer carries nothing but *)
(* 0x7F0 frames, and current, view and direction belong together.            *)

AllFrames == SpsFrames \cup CommandFrames

NoBench ==
  /\ \A k \in 1 .. Len(bus) : bus[k].id = "0x7F0"
  /\ ~imposed
  /\ charging => normal
  /\ current = IF ~normal THEN 0 ELSE IF charging THEN -ChargeRate ELSE DischargeRate
  /\ soc \in SocLow - DischargeRate .. SocHigh + ChargeRate

PlantInv ==
  /\ bus \in Seq(AllFrames) /\ commands \in Nat /\ soc \in Int
  /\ commands = 0 => NoBench

LEMMA Thresholds ==
  /\ SocFull \in Nat /\ SocLow \in Nat /\ SocHigh \in Nat
  /\ SocLow <= SocHigh /\ SocHigh <= SocFull
  /\ DischargeRate \in Nat /\ DischargeRate > 0 /\ ChargeRate \in Nat /\ ChargeRate > 0
  /\ SocStart \in SocLow .. SocHigh
  BY PlantAssumption

LEMMA PlantInitOK == PlantInit => PlantInv
  <1> SUFFICES ASSUME PlantInit PROVE PlantInv
    OBVIOUS
  <1>1. bus \in Seq(AllFrames) /\ Len(bus) = 0
    BY EmptySeq DEF PlantInit
  <1> QED
    BY <1>1, Thresholds DEF PlantInit, PlantInv, NoBench

\* Whatever is sent to the plant, its buffer carries frames; and only 0x7F0 frames if
\* such a frame is sent.
LEMMA DeliverOK ==
  ASSUME bus \in Seq(AllFrames), NEW f \in AllFrames, Deliver(f)
  PROVE  /\ bus' \in Seq(AllFrames)
         /\ (\A k \in 1 .. Len(bus) : bus[k].id = "0x7F0") /\ f.id = "0x7F0"
              => \A k \in 1 .. Len(bus') : bus'[k].id = "0x7F0"
  <1>1. CASE bus' = bus
    BY <1>1
  <1>2. CASE bus' = Append(bus, f)
    <2>1. /\ bus' \in Seq(AllFrames) /\ Len(bus') = Len(bus) + 1 /\ Len(bus) \in Nat
          /\ \A k \in 1 .. Len(bus) : bus'[k] = bus[k]
          /\ bus'[Len(bus) + 1] = f
      BY <1>2, AppendProperties, LenProperties
    <2>2. \A k \in 1 .. Len(bus') : k \in 1 .. Len(bus) \/ k = Len(bus) + 1
      BY <2>1
    <2> QED
      BY <2>1, <2>2
  <1> QED
    BY <1>1, <1>2 DEF Deliver

LEMMA PlantVecu ==
  ASSUME PlantInv, CtrlDelivered
  PROVE  PlantInv'
  <1>1. /\ probe'.actual \in SUBSET Channels /\ probe'.requested \in SUBSET Channels
    BY DEF CtrlDelivered, SpsCtrl
  <1>2. ProbeFrame \in AllFrames /\ ProbeFrame.id = "0x7F0"
    BY <1>1 DEF ProbeFrame, AllFrames, SpsFrames
  <1>3. Deliver(ProbeFrame) /\ UNCHANGED <<plantVars, commands>>
    BY DEF CtrlDelivered
  <1> QED
    BY <1>2, <1>3, DeliverOK DEF PlantInv, NoBench, plantVars

\* One tick of the charge cycle: the new charge stays in the band, for the plant
\* charges only from below the upper and discharges only from above the lower threshold.
LEMMA TickInBand ==
  ASSUME PlantInv, PlantTick, commands = 0
  PROVE  NoBench'
  <1>1. NoBench /\ soc \in Int
    BY DEF PlantInv
  <1>2. ImposedAfterDrain = FALSE
    <2>1. Waiting("0x6E0") = {}
      BY <1>1 DEF Waiting, NoBench
    <2> QED
      BY <1>1, <2>1 DEF ImposedAfterDrain, NoBench
  <1> DEFINE view == ViewAfterDrain
  <1>3. /\ normal' = view /\ imposed' = FALSE /\ charging' = ChargingAfter(view)
        /\ current' = (IF ~view THEN 0 ELSE IF ChargingAfter(view) THEN -ChargeRate
                                       ELSE DischargeRate)
        /\ soc' = Clamped(soc - current') /\ bus' = << >>
    BY <1>2 DEF PlantTick, CurrentAfter
  <1> HIDE DEF view
  <1>4. CASE ~view
    <2>1. current' = 0 /\ ~charging'
      BY <1>3, <1>4 DEF ChargingAfter
    <2>2. soc' \in SocLow - DischargeRate .. SocHigh + ChargeRate
      BY <1>1, <1>3, <2>1, Thresholds DEF NoBench, Clamped
    <2> QED
      BY <1>3, <1>4, <2>1, <2>2 DEF NoBench
  <1>5. CASE view /\ ChargingAfter(view)
    <2>1. current' = -ChargeRate /\ charging' /\ normal'
      BY <1>3, <1>5
    <2>2. soc <= SocHigh
      BY <1>1, <1>5, Thresholds DEF ChargingAfter
    <2>3. soc' \in SocLow - DischargeRate .. SocHigh + ChargeRate
      BY <1>1, <1>3, <2>1, <2>2, Thresholds DEF NoBench, Clamped
    <2> QED
      BY <1>3, <2>1, <2>3 DEF NoBench
  <1>6. CASE view /\ ~ChargingAfter(view)
    <2>1. current' = DischargeRate /\ ~charging' /\ normal'
      BY <1>3, <1>6
    <2>2. soc >= SocLow
      BY <1>1, <1>6, Thresholds DEF ChargingAfter
    <2>3. soc' \in SocLow - DischargeRate .. SocHigh + ChargeRate
      BY <1>1, <1>3, <2>1, <2>2, Thresholds DEF NoBench, Clamped
    <2> QED
      BY <1>3, <2>1, <2>3 DEF NoBench
  <1> QED
    BY <1>4, <1>5, <1>6

LEMMA PlantStep == PlantInv /\ [PlantNext]_loopVars => PlantInv'
  <1> SUFFICES ASSUME PlantInv, [PlantNext]_loopVars PROVE PlantInv'
    OBVIOUS
  <1>1. CASE CtrlDelivered
    BY <1>1, PlantVecu
  <1>2. CASE UNCHANGED <<bus, plantVars, commands>>
    BY <1>2 DEF PlantInv, NoBench, plantVars
  <1>3. CASE PlantTick
    <2>1. bus' \in Seq(AllFrames) /\ commands' = commands
      BY <1>3, EmptySeq DEF PlantTick
    <2>2. commands = 0 => NoBench'
      BY <1>3, TickInBand
    <2>3. soc' \in Int
      <3>1. soc' = Clamped(soc - current') /\ SocFull \in Int
        BY <1>3, Thresholds DEF PlantTick
      <3>2. current' \in Int
        BY <1>3, Thresholds, PlantAssumption DEF PlantTick, CurrentAfter
      <3>3. soc \in Int
        BY DEF PlantInv
      <3>4. \A s \in Int : Clamped(s) \in Int
        BY Thresholds DEF Clamped
      <3>5. soc - current' \in Int
        BY <3>2, <3>3
      <3> QED
        BY <3>1, <3>4, <3>5
    <2> QED
      BY <2>1, <2>2, <2>3 DEF PlantInv
  <1>4. CASE BenchCommand
    <2>1. PICK active \in BOOLEAN : Deliver([id |-> "0x6E0", active |-> active])
      BY <1>4 DEF BenchCommand
    <2>2. [id |-> "0x6E0", active |-> active] \in AllFrames
      BY DEF AllFrames, CommandFrames
    <2>3. bus' \in Seq(AllFrames)
      BY <2>1, <2>2, DeliverOK DEF PlantInv
    <2>4. commands' = commands + 1 /\ soc' = soc
      BY <1>4 DEF BenchCommand, plantVars
    <2> QED
      BY <2>3, <2>4 DEF PlantInv
  <1>5. CtrlUnsent \/ VecuRequest \/ VecuCommand \/ VecuStops \/ VecuKilled \/ VecuStarts
          \/ UNCHANGED loopVars
          => UNCHANGED <<bus, plantVars, commands>>
    BY DEF CtrlUnsent, VecuRequest, VecuCommand, VecuStops, VecuKilled, VecuStarts, loopVars
  <1> QED
    BY <1>1, <1>2, <1>3, <1>4, <1>5 DEF PlantNext

LEMMA PlantInvariant == PlantSpec => []PlantInv
  BY PlantInitOK, PlantStep, PTL DEF PlantSpec

\* For all thresholds, rates and sizes of the receive buffer, with frames lost and the
\* vECU stopped, killed and started at any time: unless a test bench interferes, the
\* charge leaves the band by no more than one tick.
THEOREM ChargeStaysInBand == PlantSpec => []SocInBand
  <1>1. PlantInv => SocInBand
    BY DEF PlantInv, NoBench, SocInBand
  <1> QED
    BY <1>1, PlantInvariant, PTL

\* The current turns round only where plant_model.py's hysteresis says, although the
\* direction is forgotten whenever the contactors are open.
THEOREM TurnsAtThreshold == PlantSpec => ReversesAtThreshold
  <1> DEFINE Turns == commands = 0 /\ current # 0 /\ current' # 0 /\ current' # current
                        => IF current' < 0 THEN soc <= SocLow ELSE soc >= SocHigh
  <1>1. PlantInv /\ PlantInv' /\ [PlantNext]_loopVars => [Turns]_loopVars
    <2> SUFFICES ASSUME PlantInv, PlantNext, commands = 0, current # 0, current' # 0,
                        current' # current
                 PROVE  IF current' < 0 THEN soc <= SocLow ELSE soc >= SocHigh
      OBVIOUS
    <2>1. PlantTick
      <3>1. CtrlDelivered \/ CtrlUnsent \/ VecuRequest \/ VecuCommand \/ VecuStops
              \/ VecuKilled \/ VecuStarts \/ BenchCommand => current' = current
        BY DEF CtrlDelivered, CtrlUnsent, VecuRequest, VecuCommand, VecuStops, VecuKilled,
               VecuStarts, BenchCommand, plantVars
      <3> QED
        BY <3>1 DEF PlantNext
    <2>2. NoBench /\ NoBench' /\ soc \in Int
      BY <2>1, TickInBand DEF PlantInv
    <2>3. charging' = ChargingAfter(normal')
      BY <2>1 DEF PlantTick
    <2>4. normal /\ normal' /\ (charging' # charging)
      BY <2>2 DEF NoBench
    <2>5. CASE charging'
      <3>1. current' < 0 /\ ~charging
        BY <2>2, <2>4, <2>5, Thresholds DEF NoBench
      <3> QED
        BY <2>3, <2>5, <3>1 DEF ChargingAfter
    <2>6. CASE ~charging'
      <3>1. current' > 0 /\ current' \in Int /\ charging
        BY <2>2, <2>4, <2>6, Thresholds DEF NoBench
      <3>2. ~(soc < SocHigh)
        BY <2>3, <2>4, <2>6, <3>1 DEF ChargingAfter
      <3> QED
        BY <2>2, <3>1, <3>2, Thresholds
    <2> QED
      BY <2>5, <2>6
  <1> QED
    BY <1>1, PlantInvariant, PTL DEF PlantSpec, ReversesAtThreshold

-----------------------------------------------------------------------------
(* The plant stays well typed.  What has to be said is that the last frame   *)
(* of a kind is one of the frames that wait in the buffer.                   *)

\* A set of positions that is not empty has a last one.
LEMMA LastPosition ==
  ASSUME NEW n \in Nat, NEW T \in SUBSET (1 .. n), T # {}
  PROVE  \E k \in T : \A j \in T : j <= k
  <1> DEFINE R == {pair \in Nat \X Nat : pair[1] < pair[2]}
             D == {n - k : k \in T}
  <1>1. IsWellFoundedOn(R, Nat)
    BY NatLessThanWellFounded DEF OpToRel
  <1>2. D \subseteq Nat /\ D # {}
    <2>1. \A k \in T : n - k \in Nat
      OBVIOUS
    <2> QED
      BY <2>1
  <1>3. \A x, y \in D : y < x => <<y, x>> \in R
    BY <1>2
  <1> HIDE DEF R, D
  <1>4. PICK d \in D : \A y \in D : ~(<<y, d>> \in R)
    BY <1>1, <1>2, WFMin
  <1>5. PICK k \in T : d = n - k
    BY <1>4 DEF D
  <1>6. ASSUME NEW j \in T PROVE j <= k
    <2>1. n - j \in D /\ n - j \in Nat /\ d \in Nat
      BY <1>2, <1>4 DEF D
    <2>2. ~(n - j < d)
      BY <1>3, <1>4, <2>1
    <2>3. j \in Nat /\ k \in Nat
      OBVIOUS
    <2> QED
      BY <1>5, <2>1, <2>2, <2>3
  <1> QED
    BY <1>6

LEMMA LatestWaits ==
  ASSUME bus \in Seq(AllFrames), NEW id, Waiting(id) # {}
  PROVE  Latest(id) \in AllFrames /\ Latest(id).id = id
  <1>1. Len(bus) \in Nat /\ Waiting(id) \in SUBSET (1 .. Len(bus))
    BY LenProperties DEF Waiting
  <1>2. \E k \in Waiting(id) : \A j \in Waiting(id) : j <= k
    BY <1>1, LastPosition
  <1> DEFINE last == CHOOSE k \in Waiting(id) : \A j \in Waiting(id) : j <= k
  <1>3. last \in Waiting(id)
    BY <1>2
  <1>4. last \in 1 .. Len(bus) /\ bus[last].id = id
    BY <1>3 DEF Waiting
  <1>5. bus[last] \in AllFrames
    BY <1>4, ElementOfSeq
  <1> QED
    BY <1>4, <1>5 DEF Latest

LEMMA PlantTypeInit == PlantInit => PlantTypeOK
  <1> SUFFICES ASSUME PlantInit PROVE PlantTypeOK
    OBVIOUS
  <1>1. TypeOK
    BY TypeInit DEF PlantInit
  <1>2. bus \in Seq(AllFrames) /\ Len(bus) = 0
    BY EmptySeq DEF PlantInit
  <1>3. Len(bus) <= BusSize /\ commands \in 0 .. MaxCommands
    BY <1>2, PlantAssumption DEF PlantInit
  <1>4. soc \in 0 .. SocFull
    BY Thresholds DEF PlantInit
  <1>5. /\ alive \in BOOLEAN /\ normal \in BOOLEAN /\ charging \in BOOLEAN
        /\ imposed \in BOOLEAN /\ current \in {0, DischargeRate, -ChargeRate, BenchCurrent}
    BY DEF PlantInit
  <1> QED
    BY <1>1, <1>2, <1>3, <1>4, <1>5 DEF PlantTypeOK, AllFrames

\* What reaches the buffer is a frame, and the buffer does not grow beyond its size.
LEMMA DeliverFits ==
  ASSUME PlantTypeOK, NEW f \in AllFrames, Deliver(f)
  PROVE  bus' \in Seq(AllFrames) /\ Len(bus') <= BusSize
  <1>1. bus \in Seq(AllFrames) /\ Len(bus) <= BusSize /\ BusSize \in Nat /\ Len(bus) \in Nat
    BY LenProperties, PlantAssumption DEF PlantTypeOK, AllFrames
  <1>2. CASE Len(bus) < BusSize
    <2>1. bus' \in Seq(AllFrames) /\ Len(bus') = Len(bus) + 1
      BY <1>1, <1>2, AppendProperties DEF Deliver
    <2> QED
      BY <1>1, <1>2, <2>1
  <1>3. CASE ~(Len(bus) < BusSize)
    BY <1>1, <1>3 DEF Deliver
  <1> QED
    BY <1>2, <1>3

\* The steps of the vECU, whose power switch stays well typed, also when it starts anew.
LEMMA PlantTypeVecu ==
  ASSUME PlantTypeOK,
         CtrlDelivered \/ CtrlUnsent \/ VecuRequest \/ VecuCommand \/ VecuStops
           \/ VecuKilled \/ VecuStarts
  PROVE  PlantTypeOK'
  <1>1. UNCHANGED <<plantVars, commands>> /\ alive' \in BOOLEAN
    BY DEF CtrlDelivered, CtrlUnsent, VecuRequest, VecuCommand, VecuStops, VecuKilled,
           VecuStarts, PlantTypeOK
  <1>2. TypeOK /\ bus \in Seq(AllFrames)
    BY DEF PlantTypeOK, AllFrames
  <1>3. TypeOK'
    <2>1. CtrlDelivered \/ CtrlUnsent => SpsCtrl
      BY DEF CtrlDelivered, CtrlUnsent
    <2>2. VecuRequest => Request
      BY DEF VecuRequest
    <2>3. VecuCommand => Command
      BY DEF VecuCommand
    <2>4. VecuStops => SpsSwitchOff
      BY DEF VecuStops
    <2>5. VecuKilled => UNCHANGED vars
      BY DEF VecuKilled
    <2>6. ASSUME VecuStarts PROVE TypeOK'
      <3>1. overrides' \in [OverrideIds -> [Indices -> Entries]]
        BY <2>6, SpsAssumption DEF VecuStarts, Entries
      <3>2. 0 \in Bytes /\ 0 \in 0 .. Delay - 1
        BY SpsAssumption DEF Bytes
      <3>3. AllOpen /\ probe' = probe
        BY <2>6 DEF VecuStarts
      <3> QED
        BY <1>2, <3>1, <3>2, <3>3 DEF TypeOK, AllOpen, OPEN, CLOSED
    <2> QED
      BY <1>2, <2>1, <2>2, <2>3, <2>4, <2>5, <2>6, TypeStep DEF Next
  <1>4. bus' \in Seq(AllFrames) /\ Len(bus') <= BusSize
    <2>1. CASE CtrlDelivered
      <3>1. probe'.actual \in SUBSET Channels /\ probe'.requested \in SUBSET Channels
        BY <2>1 DEF CtrlDelivered, SpsCtrl
      <3>2. ProbeFrame \in AllFrames
        BY <3>1 DEF ProbeFrame, AllFrames, SpsFrames
      <3> QED
        BY <2>1, <3>2, DeliverFits DEF CtrlDelivered
    <2>2. CASE bus' = bus
      BY <1>2, <2>2 DEF PlantTypeOK
    <2> QED
      BY <2>1, <2>2 DEF CtrlUnsent, VecuRequest, VecuCommand, VecuStops, VecuKilled, VecuStarts
  <1> QED
    BY <1>1, <1>3, <1>4 DEF PlantTypeOK, plantVars, AllFrames

LEMMA PlantTypeTick ==
  ASSUME PlantTypeOK, PlantTick
  PROVE  PlantTypeOK'
  <1>1. UNCHANGED <<vars, alive, commands>> /\ bus' = << >>
    BY DEF PlantTick
  <1>2. TypeOK'
    BY <1>1, TypeStep DEF PlantTypeOK
  <1>3. bus' \in Seq(AllFrames) /\ Len(bus') = 0 /\ BusSize \in Nat
    BY <1>1, EmptySeq, PlantAssumption
  <1>4. normal' \in BOOLEAN
    BY DEF PlantTick, ViewAfterDrain, PlantTypeOK
  <1>5. imposed' \in BOOLEAN
    <2>1. bus \in Seq(AllFrames) /\ imposed \in BOOLEAN
      BY DEF PlantTypeOK, AllFrames
    <2>2. ASSUME Waiting("0x6E0") # {} PROVE Latest("0x6E0").active \in BOOLEAN
      <3>1. Latest("0x6E0") \in AllFrames /\ Latest("0x6E0").id = "0x6E0"
        BY <2>1, <2>2, LatestWaits
      <3>2. Latest("0x6E0") \in CommandFrames
        BY <3>1 DEF AllFrames, SpsFrames
      <3> QED
        BY <3>2 DEF CommandFrames
    <2> QED
      BY <2>1, <2>2 DEF PlantTick, ImposedAfterDrain
  <1>6. charging' \in BOOLEAN
    BY DEF PlantTick, ChargingAfter
  <1>7. current' \in {0, DischargeRate, -ChargeRate, BenchCurrent}
    BY DEF PlantTick, CurrentAfter
  <1>8. soc' \in 0 .. SocFull
    <2>1. current' \in Int
      BY <1>7, Thresholds, PlantAssumption
    <2>2. soc \in Int /\ SocFull \in Nat
      BY Thresholds DEF PlantTypeOK
    <2>3. \A s \in Int : Clamped(s) \in 0 .. SocFull
      BY <2>2 DEF Clamped
    <2>4. soc - current' \in Int
      BY <2>1, <2>2
    <2> QED
      BY <2>3, <2>4 DEF PlantTick
  <1> QED
    BY <1>1, <1>2, <1>3, <1>4, <1>5, <1>6, <1>7, <1>8 DEF PlantTypeOK, AllFrames

LEMMA PlantTypeBench ==
  ASSUME PlantTypeOK, BenchCommand
  PROVE  PlantTypeOK'
  <1>1. PICK active \in BOOLEAN : Deliver([id |-> "0x6E0", active |-> active])
    BY DEF BenchCommand
  <1>2. [id |-> "0x6E0", active |-> active] \in AllFrames
    BY DEF AllFrames, CommandFrames
  <1>3. bus' \in Seq(AllFrames) /\ Len(bus') <= BusSize
    BY <1>1, <1>2, DeliverFits
  <1>4. commands' \in 0 .. MaxCommands
    BY PlantAssumption DEF BenchCommand, PlantTypeOK
  <1>5. UNCHANGED <<vars, alive, plantVars>>
    BY DEF BenchCommand
  <1>6. TypeOK'
    BY <1>5, TypeStep DEF PlantTypeOK
  <1> QED
    BY <1>3, <1>4, <1>5, <1>6 DEF PlantTypeOK, plantVars, AllFrames

\* The plant and its vECU stay well typed, whatever current a test bench imposes and however
\* many channels there are: the charge between empty and full, the buffer within its size.
THEOREM PlantTypeCorrect == PlantSpec => []PlantTypeOK
  <1>1. PlantTypeOK /\ UNCHANGED loopVars => PlantTypeOK'
    BY DEF loopVars, vars, plantVars, PlantTypeOK, TypeOK
  <1>2. PlantTypeOK /\ [PlantNext]_loopVars => PlantTypeOK'
    BY <1>1, PlantTypeVecu, PlantTypeTick, PlantTypeBench DEF PlantNext
  <1> QED
    BY <1>2, PlantTypeInit, PTL DEF PlantSpec

-----------------------------------------------------------------------------
(* The closed loop.  Every step of the vECU in it is a step of the power     *)
(* switch, but for the one that starts a new process.                        *)

\* What the steps of the loop do to the power switch.
LEMMA LoopSteps ==
  ASSUME [PlantNext]_loopVars
  PROVE  [Next]_vars \/ VecuStarts
BY DEF PlantNext, loopVars, vars, Next, CtrlDelivered, CtrlUnsent, VecuRequest, VecuCommand,
       VecuStops, VecuKilled, PlantTick, BenchCommand

\* A new process finds every contactor open, at rest, wanted nowhere else and held by nobody.
LEMMA StartIsPromiseInit == VecuStarts => (Promise!Init)'
  <1> SUFFICES ASSUME VecuStarts PROVE (Promise!Init)'
    OBVIOUS
  <1>1. \A c \in Channels : Forced(c)' = FALSE
    BY SpsAssumption DEF VecuStarts, Forced, SilOverrideActive
  <1>2. [c \in Channels |-> Forced(c)]' = [c \in Channels |-> FALSE]
    BY <1>1
  <1> QED
    BY <1>2 DEF VecuStarts, AllOpen, Promise!Init

\* In the closed loop the contactors keep their promise too, however the vECU is stopped,
\* killed and started again: a restart, and nothing else, takes them back to where they began.
THEOREM PromiseKeptInLoop ==
  PlantSpec => Promise!Init /\ [][Promise!Next \/ (Promise!Init)']_Promise!promiseVars
  <1>1. PlantInit => Promise!Init
    BY PromiseInit DEF PlantInit
  <1>2. PlantTypeOK /\ [PlantNext]_loopVars
          => [Promise!Next \/ (Promise!Init)']_Promise!promiseVars
    BY LoopSteps, PromiseStep, StartIsPromiseInit DEF PlantTypeOK
  <1> QED
    BY <1>1, <1>2, PlantTypeCorrect, PTL DEF PlantSpec

\* Nor does a restart, or a plant that overrides and delays, lose a request: only a force does.
THEOREM LoopLosesOnlyByForce == PlantSpec => LostOnlyByForce
  <1>1. ASSUME NEW c \in Channels, VecuStarts PROVE Honoured(c)'
    BY <1>1 DEF VecuStarts, AllOpen, Honoured
  <1>2. PlantTypeOK /\ [PlantNext]_loopVars
          => [\A c \in Channels : Honoured(c) /\ ~Honoured(c)' => Forced(c)]_vars
    BY <1>1, LoopSteps, LostStep DEF PlantTypeOK
  <1> QED
    BY <1>2, PlantTypeCorrect, PTL DEF PlantSpec, LostOnlyByForce

-----------------------------------------------------------------------------
(* With the history of PlantHistory: what the current needs.                *)

\* What the plant knows of the mains comes from a probe of a vECU that was asked to close them.
Asked ==
  /\ everAsked \in BOOLEAN
  /\ RequestedMains => everAsked
  /\ normal => everAsked
  /\ \A k \in 1 .. Len(bus) : bus[k].id = "0x7F0" /\ Mains \subseteq bus[k].word1 => everAsked

\* A frame more in the buffer does not matter if it is not a probe with both mains, or if
\* they have been asked for.
LEMMA AskedDelivery ==
  ASSUME NEW f \in AllFrames, bus \in Seq(AllFrames), Deliver(f), Asked, everAsked => everAsked',
         f.id = "0x7F0" /\ Mains \subseteq f.word1 => everAsked'
  PROVE  \A k \in 1 .. Len(bus') : bus'[k].id = "0x7F0" /\ Mains \subseteq bus'[k].word1 => everAsked'
  <1>1. CASE bus' = bus
    BY <1>1 DEF Asked
  <1>2. CASE bus' = Append(bus, f)
    <2>1. /\ Len(bus) \in Nat /\ Len(bus') = Len(bus) + 1 /\ bus'[Len(bus) + 1] = f
          /\ \A k \in 1 .. Len(bus) : bus'[k] = bus[k]
      BY <1>2, AppendProperties, LenProperties
    <2>2. ASSUME NEW k \in 1 .. Len(bus'), bus'[k].id = "0x7F0", Mains \subseteq bus'[k].word1
          PROVE  everAsked'
      <3>1. CASE k \in 1 .. Len(bus)
        BY <2>1, <2>2, <3>1 DEF Asked
      <3>2. CASE k = Len(bus) + 1
        BY <2>1, <2>2, <3>2
      <3> QED
        BY <2>1, <3>1, <3>2
    <2> QED
      BY <2>2
  <1> QED
    BY <1>1, <1>2 DEF Deliver

\* At first nobody has asked, and nothing has been sent.
LEMMA AskedInit == PlantHistInit => Asked
  <1> SUFFICES ASSUME PlantHistInit PROVE Asked
    OBVIOUS
  <1>1. Len(bus) = 0 /\ ~normal
    BY EmptySeq DEF PlantHistInit, PlantInit
  <1>2. 0 \in Channels /\ 0 \in Mains
    BY PlantAssumption, SpsAssumption DEF Channels, Mains
  <1>3. ~RequestedMains
    BY <1>2 DEF PlantHistInit, PlantInit, Init, SpsInit, RequestedMains, OPEN, CLOSED
  <1>4. everAsked \in BOOLEAN
    BY DEF PlantHistInit
  <1> QED
    BY <1>1, <1>3, <1>4 DEF Asked

\* No step makes the plant believe in mains that nobody asked for.
LEMMA AskedStep ==
  ASSUME PlantTypeOK, Asked, [PlantHistNext]_<<loopVars, everClosed, everAsked>>
  PROVE  Asked'
  <1>1. CASE UNCHANGED <<loopVars, everClosed, everAsked>>
    BY <1>1 DEF loopVars, vars, plantVars, Asked, RequestedMains
  <1>2. CASE PlantHistNext
    <2>1. /\ everAsked' \in BOOLEAN /\ (everAsked => everAsked')
          /\ (RequestedMains' => everAsked')
      BY <1>2 DEF PlantHistNext, Asked
    <2>2. bus \in Seq(AllFrames) /\ TypeOK
      BY DEF PlantTypeOK, AllFrames
    <2>3. ASSUME normal' => everAsked',
                 \A k \in 1 .. Len(bus') :
                   bus'[k].id = "0x7F0" /\ Mains \subseteq bus'[k].word1 => everAsked'
          PROVE  Asked'
      BY <2>1, <2>3 DEF Asked
    <2>4. CASE normal' = normal /\ bus' = bus
      BY <2>1, <2>3, <2>4 DEF Asked
    <2>5. CASE CtrlDelivered
      <3>1. normal' = normal /\ requested' = requested /\ Deliver(ProbeFrame)
        BY <2>5 DEF CtrlDelivered, SpsCtrl, plantVars
      <3>2. probe'.requested = {c \in Channels : requested[c] # OPEN}
            /\ probe'.actual \in SUBSET Channels
        BY <2>5 DEF CtrlDelivered, SpsCtrl
      <3>3. ProbeFrame \in AllFrames /\ ProbeFrame.id = "0x7F0"
            /\ ProbeFrame.word1 = probe'.requested
        BY <3>2 DEF ProbeFrame, AllFrames, SpsFrames
      <3>4. Mains \subseteq probe'.requested => RequestedMains
        BY <2>2, <3>2 DEF RequestedMains, TypeOK
      <3>5. RequestedMains' <=> RequestedMains
        BY <3>1 DEF RequestedMains
      <3> QED
        BY <2>1, <2>2, <2>3, <3>1, <3>3, <3>4, <3>5, AskedDelivery DEF Asked
    <2>6. CASE BenchCommand
      <3>1. PICK active \in BOOLEAN : Deliver([id |-> "0x6E0", active |-> active])
        BY <2>6 DEF BenchCommand
      <3> DEFINE f == [id |-> "0x6E0", active |-> active]
      <3>2. f \in AllFrames /\ f.id # "0x7F0" /\ normal' = normal /\ Deliver(f)
        BY <2>6, <3>1 DEF BenchCommand, plantVars, AllFrames, CommandFrames
      <3> HIDE DEF f
      <3> QED
        BY <2>1, <2>2, <2>3, <3>2, AskedDelivery DEF Asked
    <2>7. CASE PlantTick
      <3>1. bus' = << >> /\ Len(bus') = 0 /\ normal' = ViewAfterDrain
        BY <2>7, EmptySeq DEF PlantTick
      <3>2. ASSUME ViewAfterDrain PROVE everAsked
        <4>1. CASE Waiting("0x7F0") = {}
          BY <3>2, <4>1 DEF ViewAfterDrain, Asked
        <4>2. CASE Waiting("0x7F0") # {}
          <5> DEFINE last == CHOOSE k \in Waiting("0x7F0") : \A j \in Waiting("0x7F0") : j <= k
          <5>1. Len(bus) \in Nat /\ Waiting("0x7F0") \in SUBSET (1 .. Len(bus))
            BY <2>2, LenProperties DEF Waiting
          <5>2. \E k \in Waiting("0x7F0") : \A j \in Waiting("0x7F0") : j <= k
            BY <4>2, <5>1, LastPosition
          <5>3. last \in Waiting("0x7F0")
            BY <5>2
          <5>4. last \in 1 .. Len(bus) /\ bus[last].id = "0x7F0"
            BY <5>3 DEF Waiting
          <5>5. Mains \subseteq bus[last].word1
            BY <3>2, <4>2 DEF ViewAfterDrain, Latest
          <5> QED
            BY <5>4, <5>5 DEF Asked
        <4> QED
          BY <4>1, <4>2
      <3> QED
        BY <2>1, <2>3, <3>1, <3>2
    <2> QED
      BY <1>2, <2>4, <2>5, <2>6, <2>7
      DEF PlantHistNext, PlantNext, CtrlUnsent, VecuRequest, VecuCommand, VecuStops, VecuKilled,
          VecuStarts, plantVars
  <1> QED
    BY <1>1, <1>2

\* The plant takes the requested states for the actual ones, so its current may flow before
\* the mains are closed; but not before both were requested, whatever is lost, delayed, killed
\* and started again, for every delay, buffer and number of channels.
THEOREM CurrentNeedsRequest == PlantHistSpec => []NoCurrentUnasked
  <1>1. PlantHistInit => PlantInit
    BY DEF PlantHistInit
  <1>2. [PlantHistNext]_<<loopVars, everClosed, everAsked>> => [PlantNext]_loopVars
    BY DEF PlantHistNext
  <1>3. ASSUME PlantInv, Asked PROVE NoCurrentUnasked
    BY <1>3 DEF PlantInv, NoBench, Asked, NoCurrentUnasked
  <1>4. PlantTypeOK /\ [PlantNext]_loopVars => PlantTypeOK'
    <2>1. PlantTypeOK /\ UNCHANGED loopVars => PlantTypeOK'
      BY DEF loopVars, vars, plantVars, PlantTypeOK, TypeOK
    <2> QED
      BY <2>1, PlantTypeVecu, PlantTypeTick, PlantTypeBench DEF PlantNext
  <1> QED
    BY <1>1, <1>2, <1>3, <1>4, PlantTypeInit, PlantInitOK, PlantStep, AskedInit, AskedStep, PTL
    DEF PlantHistSpec

=============================================================================
