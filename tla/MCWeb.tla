------------------------------- MODULE MCWeb --------------------------------
(* Instance of WebBridge for TLC *)
EXTENDS WebBridge, TLC

MCSymmetry == Permutations(Clients)
=============================================================================
