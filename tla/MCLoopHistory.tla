--------------------------- MODULE MCLoopHistory ---------------------------
(* The main loop with its history, with the periods of MCLoop. *)
EXTENDS LoopHistory

=============================================================================
