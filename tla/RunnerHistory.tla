--------------------------- MODULE RunnerHistory ---------------------------
(***************************************************************************)
(* The runner with a history variable that tells whether the vECU has      *)
(* diagnosed what the running test injected.  It influences nothing.       *)
(***************************************************************************)
EXTENDS FaultRunner

VARIABLE raised   \* the vECU has found the fault of the running test since it began

histVars == <<vars, raised>>

HistInit == Init /\ raised = FALSE

InTest == pc \in {"watch", "withdraw", "hold", "judged"}

HistNext ==
  /\ Next
  /\ raised' = (InTest /\ (raised \/ test.kind \in bits' \ bits))

HistSpec == HistInit /\ [][HistNext]_histVars

-----------------------------------------------------------------------------
\* A test that injects a fault, withdraws it and passes has made the vECU find it.
PassIsEarned ==
  pc = "judged" /\ test.protocol = "clears" /\ verdict = "PASS" => raised

=============================================================================
