------------------------------- MODULE MCDiag -------------------------------
(* Four IDs: two shown in a bitmap of three bits and enabled, one shown and *)
(* disabled, one enabled beyond the bitmap.                                 *)
EXTENDS DiagHistory

MCEnabled == {0, 1, 3}

=============================================================================
