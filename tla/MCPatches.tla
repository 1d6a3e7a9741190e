------------------------------ MODULE MCPatches ------------------------------
(* Instance of ApplyPatches for TLC: the scripts of the repository, on foxBMS *)
(* trees of which one file may be missing, a text, or all texts of a script.  *)
EXTENDS ApplyPatches, PatchSet

MCSentinel == <<"sbc", "sbc.c", 1>>

MCUnknown ==
  {{}, {<<"battery_cfg", "battery_cell_cfg.h", 1>>}, {<<"diag_posix", "diag_cfg.c", 2>>}}
  \cup {TextsOf(p) : p \in {"sbc", "database", "battery_cfg", "diag_probe"}}

MCAbsent ==
  [missing : {{}}, unknown : MCUnknown]
  \cup [missing : {{"HL_reg_can.h"}, {"battery_cell_cfg.h"}}, unknown : {{}, TextsOf("db_inject")}]

MCTrees ==
  {[version |-> TRUE, source |-> TRUE] @@ a : a \in MCAbsent}
  \cup [version : BOOLEAN, source : BOOLEAN, missing : {{}}, unknown : {{}}]
=============================================================================
