------------------------------- MODULE MCSps -------------------------------
(* The power switch on two channels: a force value that is cast to OPEN, *)
(* and one that is a byte other than OPEN and CLOSED.                    *)
EXTENDS SpsHistory

MCSilValues == {0, 6}

\* Both force entries, one feedback entry, and a row and an index out of range.
MCSilTargets == {<<0, 0>>, <<0, 1>>, <<1, 0>>, <<2, 0>>, <<0, 2>>}

=============================================================================
