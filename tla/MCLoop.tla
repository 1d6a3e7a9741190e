------------------------------- MODULE MCLoop -------------------------------
(* The main loop with periods 2, 4 and 8 units instead of 1, 10 and 100 ms. *)
EXTENDS MainLoop

=============================================================================
