------------------------------ MODULE MCQueues ------------------------------
(* Four frames through an RX ring of two and AFE rings of one place: both *)
(* kinds of ring overflow and wrap around.                                *)
EXTENDS PosixQueues

=============================================================================
