----------------------------- MODULE SpsHistory -----------------------------
(***************************************************************************)
(* The power switch with history variables that count its SPS_Ctrl calls,  *)
(* to state the timing it promises: they record what happened and          *)
(* influence nothing.                                                      *)
(***************************************************************************)
EXTENDS SpsContactor

VARIABLES
  age,      \* SPS_Ctrl calls since the last accepted request, at most Delay
  tainted   \* a force has hit the channel since its last accepted request

histVars == <<overrides, spsVars, probe, age, tainted>>

HistRange ==
  /\ TypeOK
  /\ age \in [Channels -> 0 .. Delay]
  /\ tainted \in [Channels -> BOOLEAN]

\* A channel is neither open nor closed only if a force has hit it since its last
\* accepted request, or if that request is still moving it.
JammedOnlyByForce ==
  \A c \in Channels : actual[c] \in {OPEN, CLOSED} \/ tainted[c] \/ pending[c]

\* The power switch stays well typed, whatever a test bench sends, and so does its
\* history; a force alone may write another byte than OPEN or CLOSED.
HistTypeOK == HistRange /\ JammedOnlyByForce

HistInit ==
  /\ Init
  /\ age = [c \in Channels |-> Delay]
  /\ tainted = [c \in Channels |-> FALSE]

HistCommand == Command /\ UNCHANGED <<age, tainted>>

HistRequest ==
  \E ch \in 0 .. MaxChannels, state \in {OPEN, CLOSED} :
    /\ SpsRequestContactorState(ch, state)
    /\ age' = IF RequestAccepted(ch, state) THEN [age EXCEPT ![ch] = 0] ELSE age
    /\ tainted' = IF RequestAccepted(ch, state)
                  THEN [tainted EXCEPT ![ch] = FALSE] ELSE tainted

HistCtrl ==
  /\ SpsCtrl
  /\ age' = [c \in Channels |-> IF age[c] < Delay THEN age[c] + 1 ELSE Delay]
  /\ tainted' = [c \in Channels |-> tainted[c] \/ Forced(c)]

HistSwitchOff ==
  /\ SpsSwitchOff
  /\ age' = [c \in Channels |-> Delay]
  /\ tainted' = [c \in Channels |-> FALSE]

HistNext == HistCommand \/ HistRequest \/ HistCtrl \/ HistSwitchOff

HistSpec == HistInit /\ [][HistNext]_histVars

\* The main loop calls SPS_Ctrl in every 10 ms task.
FairHistSpec == HistSpec /\ WF_histVars(HistCtrl)

-----------------------------------------------------------------------------
\* The deadline: Delay calls of SPS_Ctrl after the last accepted request, a
\* channel no force has hit since then is in the requested state and at rest.
DeadlineMet ==
  \A c \in Channels :
    ~tainted[c] /\ age[c] = Delay => actual[c] = requested[c] /\ ~pending[c]

\* The mechanical delay: before that, an unforced channel does not move, however
\* often the request went back and forth before (each change starts the delay anew).
\* Only switching everything off is immediate.
NeverMovesEarly ==
  [][\A c \in Channels :
       actual'[c] # actual[c] /\ ~Forced(c)
         => age'[c] = Delay \/ SpsSwitchOff]_histVars

\* The counter the code keeps counts just that: while a transition is in progress,
\* it is the number of calls since the request.
CounterIsAge ==
  \A c \in Channels : pending[c] => ~tainted[c] /\ delayCtr[c] = age[c]

=============================================================================
