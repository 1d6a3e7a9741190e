---------------------------- MODULE LoopHistory ----------------------------
(***************************************************************************)
(* The main loop with a history variable: how long the watchdog had not    *)
(* been fed when the iteration at hand took its sample.  It records what   *)
(* happened and influences nothing.                                        *)
(***************************************************************************)
EXTENDS MainLoop

VARIABLE starved    \* time from the last feed to this iteration's sample

HistInit == Init /\ starved = 0

HistNext == Next /\ starved' = IF pc = "sample" THEN clock - feed ELSE starved

HistSpec == HistInit /\ [][HistNext]_<<vars, starved>>

-----------------------------------------------------------------------------
\* What the comment on the watchdog says of it (foxbms_posix_main.c 278: "if main loop
\* stalls for >100ms, trigger ERROR"): no iteration whose sample comes more than
\* WatchdogLimit after the last feed goes on to the 10 ms tasks.
StallIsReported == pc = "branch10" => starved <= WatchdogLimit

=============================================================================
