----------------------------- MODULE PlantHistory -----------------------------
(***************************************************************************)
(* The plant with history variables that tell whether the string has been  *)
(* closed, and asked to close, since the vECU and the plant were started.  *)
(***************************************************************************)
EXTENDS PlantLoop

VARIABLES
  everClosed,   \* both mains were closed at some time
  everAsked     \* both were requested closed at some time

MainsClosed == \A c \in Mains : actual[c] # OPEN

PlantHistInit == PlantInit /\ everClosed = FALSE /\ everAsked = FALSE

PlantHistNext ==
  /\ PlantNext
  /\ everClosed' = (everClosed \/ MainsClosed')
  /\ everAsked' = (everAsked \/ RequestedMains')

PlantHistSpec == PlantHistInit /\ [][PlantHistNext]_<<loopVars, everClosed, everAsked>>

-----------------------------------------------------------------------------
\* What the architecture's lesson L-019 says: no current before the contactors were
\* confirmed closed.
NoCurrentBeforeClosed == commands = 0 /\ ~everClosed => current = 0

\* What the plant does keep to: unless a test bench imposes it, no current before the
\* application asked for both mains, whatever frames of earlier vECUs are still in the buffer.
NoCurrentUnasked == commands = 0 /\ ~everAsked => current = 0

=============================================================================
