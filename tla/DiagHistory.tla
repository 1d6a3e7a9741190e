---------------------------- MODULE DiagHistory ----------------------------
(***************************************************************************)
(* The diagnosis handler with history variables: how long each fault has   *)
(* lasted, when the handler was called first, and when it last swallowed a *)
(* fault.  They record what happened and influence nothing.                *)
(***************************************************************************)
EXTENDS DiagProbe

VARIABLES
  streak,      \* faults of an enabled ID outside the window since its last good event,
               \* at most Threshold + 1
  firstNow,    \* the clock at the first call of the handler
  swallowed    \* the age of the handler when it last swallowed a fault; -1: never

histVars == <<diagVars, streak, firstNow, swallowed>>

\* Time since the first call, on a clock that does not wrap.
Age == now - (IF initialized THEN firstNow ELSE now)

HistTypeOK ==
  /\ TypeOK
  /\ streak \in [Ids -> 0 .. Threshold + 1]
  /\ firstNow \in Nat
  /\ swallowed \in Nat \union {-1}

HistInit ==
  /\ Init
  /\ streak = [id \in Ids |-> 0]
  /\ firstNow = 0 /\ swallowed = -1

NoteFirst == firstNow' = IF initialized THEN firstNow ELSE now

HistSuppress(id) ==
  /\ Suppress(id) /\ NoteFirst
  /\ swallowed' = Age
  /\ UNCHANGED streak

HistIgnore(id) == Ignore(id) /\ NoteFirst /\ UNCHANGED <<streak, swallowed>>

HistFault(id) ==
  /\ CountUp(id) \/ Confirm(id)
  /\ NoteFirst
  /\ streak' = [streak EXCEPT ![id] = IF @ > Threshold THEN @ ELSE @ + 1]
  /\ UNCHANGED swallowed

HistOk(id) ==
  /\ EventOk(id) /\ NoteFirst
  /\ streak' = [streak EXCEPT ![id] = 0]
  /\ UNCHANGED swallowed

HistTick == Tick /\ UNCHANGED <<streak, firstNow, swallowed>>

HistNext ==
  \/ \E id \in Ids : HistSuppress(id) \/ HistIgnore(id) \/ HistFault(id) \/ HistOk(id)
  \/ HistTick

HistSpec == HistInit /\ [][HistNext]_histVars

-----------------------------------------------------------------------------
\* No fault is missed: an ID of the bitmap that was reported faulty Threshold + 1
\* times in a row outside the grace window shows its bit, whatever other IDs, earlier
\* counts and the wrapping of tick and count did in between.
SustainedFaultShown ==
  \A id \in Shown : streak[id] = Threshold + 1 => id \in bitmap

\* The start-up window is honoured also when the tick wraps inside it: before Grace
\* milliseconds have passed since the first call nothing has been counted or shown.
StartupQuiet ==
  initialized /\ Age < Grace => bitmap = {} /\ counter = [id \in Ids |-> 0]

\* What the comment on the window says of it (patch_diag_probe.py 18: "suppress faults
\* for first 2 seconds"): no fault is swallowed Grace milliseconds after the first call
\* or later.  The tick wraps, so the code swallows them again in every round of it.
SwallowedAtStartOnly == swallowed < Grace

\* What holds instead: faults are swallowed in a window of Grace milliseconds only, which
\* comes again with every wrap of the tick.
SwallowedInWindow == swallowed # -1 => swallowed % TickModulus < Grace

=============================================================================
