----------------------------- MODULE DiagProbe -----------------------------
(***************************************************************************)
(* The diagnosis handler as patches/patch_diag_probe.py leaves it: a grace *)
(* window that swallows faults after start-up, measured with a wrapping    *)
(* 32-bit millisecond tick, and the bitmap, count and last event that the  *)
(* probes 0x7F7 and 0x7F8 report.                                          *)
(*                                                                         *)
(* The handler itself belongs to foxBMS, whose sources are not part of the *)
(* tree: its threshold counter is modelled from what the patch relies on.  *)
(* All calls come from the one thread of the vECU; the few instructions    *)
(* between the two reads of the tick in the first call count as one step.  *)
(***************************************************************************)
EXTENDS Integers

CONSTANTS
  MaxId,          \* DIAG_ID_MAX
  Enabled,        \* the IDs patch_diag_posix.py leaves enabled
  Threshold,      \* faults tolerated before an error is reported
  BitmapWidth,    \* 64 bits of posix_diag_bitmap
  CountModulus,   \* 2^32: posix_diag_fault_count wraps
  TickModulus,    \* 2^32: OS_GetTickCount wraps
  Grace,          \* 2000 ms
  Horizon         \* bound: the clock stops here

ASSUME DiagAssumption ==
  /\ MaxId \in Nat \ {0} /\ Enabled \subseteq 0 .. MaxId - 1
  /\ Threshold \in Nat \ {0}
  /\ BitmapWidth \in Nat
  /\ CountModulus \in Nat /\ CountModulus > 1
  /\ TickModulus \in Nat /\ Grace \in Nat /\ 0 < Grace /\ Grace < TickModulus
  /\ Horizon \in Nat

Ids   == 0 .. MaxId - 1
Shown == {id \in Ids : id < BitmapWidth}

VARIABLES
  now,          \* CLOCK_MONOTONIC in milliseconds, never wraps
  initialized,  \* sil_diag_initialized
  firstTick,    \* sil_diag_first_tick
  counter,      \* occurrence counter per ID, inside foxBMS
  bitmap,       \* posix_diag_bitmap, as the set of its bits
  faultCount,   \* posix_diag_fault_count
  lastId,       \* posix_diag_last_id
  lastEvent     \* posix_diag_last_event

graceVars == <<initialized, firstTick>>
reported == <<bitmap, faultCount, lastId, lastEvent>>
diagVars == <<now, initialized, firstTick, counter, bitmap, faultCount, lastId, lastEvent>>

\* What the probes report stays in range, wherever tick and count wrap.
TypeOK ==
  /\ now \in Nat
  /\ initialized \in BOOLEAN
  /\ firstTick \in 0 .. TickModulus - 1
  /\ counter \in [Ids -> 0 .. Threshold]
  /\ bitmap \in SUBSET Shown
  /\ faultCount \in 0 .. CountModulus - 1
  /\ lastId \in Ids
  /\ lastEvent \in {0, 1}

\* The host has been up for any time when the vECU starts.
Init ==
  /\ now \in 0 .. Horizon
  /\ initialized = FALSE /\ firstTick = 0
  /\ counter = [id \in Ids |-> 0]
  /\ bitmap = {} /\ faultCount = 0 /\ lastId = 0 /\ lastEvent = 0

-----------------------------------------------------------------------------
OS_GetTickCount == now % TickModulus

\* A faulty variant: the flag is set but the tick is never taken.
FirstMissing == firstTick

\* The first call of the handler takes the start of the grace window.
First == IF initialized THEN firstTick ELSE OS_GetTickCount

\* Unsigned subtraction of two ticks.
ElapsedMs == (OS_GetTickCount - First) % TickModulus

InGrace == ElapsedMs < Grace

TakeFirst == initialized' = TRUE /\ firstTick' = First

\* A fault inside the window: return before the counter is touched.
Suppress(id) ==
  /\ InGrace
  /\ TakeFirst
  /\ UNCHANGED <<now, counter, reported>>

\* A fault of an ID whose evaluation the POSIX build disables.
Ignore(id) ==
  /\ id \notin Enabled /\ ~InGrace
  /\ TakeFirst
  /\ UNCHANGED <<now, counter, reported>>

\* A fault below the threshold is counted and returns DIAG_HANDLER_RETURN_OK.
CountUp(id) ==
  /\ id \in Enabled /\ ~InGrace /\ counter[id] < Threshold
  /\ TakeFirst
  /\ counter' = [counter EXCEPT ![id] = @ + 1]
  /\ UNCHANGED <<now, reported>>

\* A faulty variant: the bit is set only with a new count of an ID seen last.
ConfirmOnce(id) ==
  /\ id \in Enabled /\ ~InGrace /\ counter[id] = Threshold
  /\ TakeFirst
  /\ lastId' = id /\ lastEvent' = 1
  /\ bitmap' = IF lastEvent = 1 /\ lastId = id THEN bitmap
               ELSE bitmap \union ({id} \intersect Shown)
  /\ faultCount' = IF id \in bitmap' \ bitmap THEN (faultCount + 1) % CountModulus
                                             ELSE faultCount
  /\ UNCHANGED <<now, counter>>

\* DIAG_HANDLER_RETURN_ERR_OCCURRED: the probe variables take note, the count
\* only of a bit that was clear.
Confirm(id) ==
  /\ id \in Enabled /\ ~InGrace /\ counter[id] = Threshold
  /\ TakeFirst
  /\ lastId' = id /\ lastEvent' = 1
  /\ bitmap' = bitmap \union ({id} \intersect Shown)
  /\ faultCount' = IF id \in Shown \ bitmap THEN (faultCount + 1) % CountModulus
                                            ELSE faultCount
  /\ UNCHANGED <<now, counter>>

\* A faulty variant: the bit is kept until the counter is back at zero.
EventOkKeepsBit(id) ==
  /\ TakeFirst
  /\ counter' = IF id \in Enabled /\ counter[id] > 0
                THEN [counter EXCEPT ![id] = @ - 1] ELSE counter
  /\ bitmap' = IF counter'[id] = 0 THEN bitmap \ {id} ELSE bitmap
  /\ UNCHANGED <<now, faultCount, lastId, lastEvent>>

\* DIAG_EVENT_OK is never suppressed: it counts down and clears the bit.
EventOk(id) ==
  /\ TakeFirst
  /\ counter' = IF id \in Enabled /\ counter[id] > 0
                THEN [counter EXCEPT ![id] = @ - 1] ELSE counter
  /\ bitmap' = bitmap \ {id}
  /\ UNCHANGED <<now, faultCount, lastId, lastEvent>>

NotOk(id) == Suppress(id) \/ Ignore(id) \/ CountUp(id) \/ Confirm(id)

DIAG_Handler == \E id \in Ids : NotOk(id) \/ EventOk(id)

\* Time passes between the calls.
Tick ==
  /\ now < Horizon
  /\ now' = now + 1
  /\ UNCHANGED <<graceVars, counter, reported>>

Next == DIAG_Handler \/ Tick

Spec == Init /\ [][Next]_diagVars

-----------------------------------------------------------------------------
\* No false report: a bit is set only while the counter of its ID stands at the
\* threshold, so the first good event withdraws both, and a disabled ID shows none.
BitHasEvidence ==
  \A id \in bitmap : id \in Enabled /\ counter[id] = Threshold

=============================================================================
