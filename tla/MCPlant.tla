------------------------------- MODULE MCPlant -------------------------------
(* The two mains; the test bench may force Main+ to OPEN. *)
EXTENDS PlantLoop

MCSilValues == {0}
MCSilTargets == {<<0, 0>>}

=============================================================================
