--------------------------- MODULE MCRunnerHistory ---------------------------
(* Two tests that inject and withdraw a fault. *)
EXTENDS RunnerHistory

CONSTANT voltage

MCKinds == {voltage}
MCProtocols == {"clears"}

=============================================================================
