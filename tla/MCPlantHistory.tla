---------------------------- MODULE MCPlantHistory ----------------------------
(* The instance of MCPlant, for the specification with history. *)
EXTENDS PlantHistory

MCSilValues == {0}
MCSilTargets == {<<0, 0>>}

=============================================================================
