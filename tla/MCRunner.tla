------------------------------ MODULE MCRunner ------------------------------
(* The runner with every protocol and one kind of override. *)
EXTENDS FaultRunner

CONSTANT voltage

MCKinds == {voltage}

\* "recovery" and "latch" step as "clears" does, from the detection that "again" has.
MCProtocols == AllProtocols \ {"recovery", "latch"}

=============================================================================
