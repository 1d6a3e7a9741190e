------------------------------ MODULE MainLoop ------------------------------
(***************************************************************************)
(* main() of the vECU (foxbms_posix_main.c): start-up, the cooperative     *)
(* loop that replaces the FreeRTOS tasks, and the ways out of it.          *)
(*                                                                         *)
(* One iteration samples the clock once, and all its branches compare with *)
(* that sample while their tasks take real time.  Time is counted in an    *)
(* arbitrary unit; signals arrive between any two steps.                   *)
(***************************************************************************)
EXTENDS Integers

CONSTANTS
  Period1, Period10, Period100,   \* periods of the cyclic tasks
  WatchdogLimit,                  \* 100 ms
  HeartbeatTicks,                 \* 100: a heartbeat each so many ticks
  Sleep,                          \* usleep at the end of an iteration
  Timeouts,                       \* the values --timeout may have, 0 = run forever
  MaxStall,                       \* bound of the model: longest task or oversleep
  Horizon                         \* bound of the model: the clock stops here

ASSUME LoopAssumption ==
  /\ Period1 \in Nat \ {0} /\ Period10 \in Nat /\ Period100 \in Nat
  /\ Period1 <= Period10 /\ Period10 <= Period100
  /\ WatchdogLimit \in Nat /\ Period1 <= WatchdogLimit
  /\ HeartbeatTicks \in Nat \ {0}
  /\ Sleep \in Nat \ {0}
  /\ Timeouts \subseteq Nat
  /\ MaxStall \in Nat /\ Horizon \in Nat

VARIABLES
  clock,      \* CLOCK_MONOTONIC
  pc,         \* position in main()
  osBoot,     \* os_boot
  running,    \* the flag the signal handler clears
  timeout,    \* timeout_s, fixed by the command line
  now,        \* the sample of this iteration
  start,      \* start_us
  last1, last10, last100,   \* sample at which a branch was taken last
  feed,       \* last_watchdog_feed
  tick,       \* completed 1 ms tasks
  reason,     \* why the loop was left
  \* history: nothing depends on the rest
  fresh10,    \* a 1 ms task has run since the last 10 ms task
  fresh100,   \* a 10 ms task has run since the last 100 ms task
  late,       \* 1 ms runs since running was cleared
  beat        \* the tick the last heartbeat was sent for

boot    == <<osBoot, timeout>>
timers  == <<now, start, last1, last10, last100, feed>>
history == <<fresh10, fresh100, late, beat>>
vars == <<clock, pc, boot, running, timers, tick, reason, history>>

InTasks == {"drain", "branch1", "watchdog", "branch10", "branch100", "heartbeat"}
Ended == {"exited", "aborted", "killed"}

\* The clocks stay within the horizon and start-up passes through its phases only.
TypeOK ==
  /\ clock \in 0 .. Horizon
  /\ pc \in InTasks \cup Ended \cup {"boot", "test", "sample", "sleep", "shutdown"}
  /\ osBoot \in {0, 4, 5, 6}
  /\ running \in BOOLEAN
  /\ timeout \in Timeouts
  /\ \A t \in {now, start, last1, last10, last100, feed} : t \in 0 .. Horizon
  /\ tick \in Nat
  /\ reason \in {"none", "signal", "timeout", "watchdog"}
  /\ fresh10 \in BOOLEAN /\ fresh100 \in BOOLEAN
  /\ late \in Nat /\ beat \in Nat

Init ==
  /\ clock = 0 /\ pc = "boot" /\ osBoot = 0 /\ running = TRUE
  /\ timeout \in Timeouts
  /\ now = 0 /\ start = 0 /\ last1 = 0 /\ last10 = 0 /\ last100 = 0 /\ feed = 0
  /\ tick = 0 /\ reason = "none"
  /\ fresh10 = FALSE /\ fresh100 = FALSE /\ late = 0
  /\ beat = 0

\* Time passes, up to the horizon of the model.
Pass(d) == clock' = IF clock + d <= Horizon THEN clock + d ELSE Horizon
Work == \E d \in 0 .. MaxStall : Pass(d)

-----------------------------------------------------------------------------
(* Start-up: the phases in order; the cyclic tasks come after all of them.  How *)
(* long it takes does not matter, every timer starts when it is over.           *)
Boot ==
  /\ pc = "boot" /\ osBoot # 6
  /\ osBoot' = CASE osBoot = 0 -> 4 [] osBoot = 4 -> 5 [] osBoot = 5 -> 6
  /\ UNCHANGED <<clock, pc, timeout, running, timers, tick, reason, history>>

EnterLoop ==
  /\ pc = "boot" /\ osBoot = 6
  /\ start' = clock /\ now' = clock
  /\ last1' = clock /\ last10' = clock /\ last100' = clock /\ feed' = clock
  /\ pc' = "test"
  /\ UNCHANGED <<clock, boot, running, tick, reason, history>>

\* A faulty variant: the flag is looked at only after a heartbeat.
LoopTestAtHeartbeat ==
  /\ pc = "test"
  /\ pc' = IF running \/ beat # tick THEN "sample" ELSE "shutdown"
  /\ UNCHANGED <<clock, boot, running, timers, tick, reason, history>>

(* while (running != 0) *)
LoopTest ==
  /\ pc = "test"
  /\ pc' = IF running THEN "sample" ELSE "shutdown"
  /\ UNCHANGED <<clock, boot, running, timers, tick, reason, history>>

\* A faulty variant: the timeout is compared with the last 1 ms task.
SampleSinceTask ==
  /\ pc = "sample"
  /\ now' = clock
  /\ IF timeout > 0 /\ clock - last1 >= timeout
     THEN running' = FALSE /\ pc' = "shutdown" /\ reason' = "timeout"
     ELSE pc' = "drain" /\ UNCHANGED <<running, reason>>
  /\ UNCHANGED <<clock, boot, start, last1, last10, last100, feed, tick, history>>

(* One sample of the clock serves the whole iteration. *)
Sample ==
  /\ pc = "sample"
  /\ now' = clock
  /\ IF timeout > 0 /\ clock - start >= timeout
     THEN running' = FALSE /\ pc' = "shutdown" /\ reason' = "timeout"
     ELSE pc' = "drain" /\ UNCHANGED <<running, reason>>
  /\ UNCHANGED <<clock, boot, start, last1, last10, last100, feed, tick, history>>

(* Reading the CAN socket (PosixQueues) takes time like any task. *)
Drain ==
  /\ pc = "drain" /\ pc' = "branch1"
  /\ Work
  /\ UNCHANGED <<boot, running, timers, tick, reason, history>>

\* A faulty variant: the clock is read anew.
Due10Resampled == clock - last10 >= Period10

Due1 == now - last1 >= Period1
Due10 == now - last10 >= Period10
Due100 == now - last100 >= Period100

\* A faulty variant: a lag is counted at once.
Run1CatchesUp ==
  /\ pc = "branch1" /\ Due1
  /\ last1' = now /\ feed' = now /\ tick' = tick + ((now - last1) \div Period1)
  /\ fresh10' = TRUE
  /\ late' = IF running THEN late ELSE late + 1
  /\ pc' = "watchdog"
  /\ Work
  /\ UNCHANGED <<boot, running, now, start, last10, last100, reason,
                 fresh100, beat>>

(* The 1 ms tasks, the tick and the watchdog feed. *)
Run1 ==
  /\ pc = "branch1" /\ Due1
  /\ last1' = now /\ feed' = now /\ tick' = tick + 1
  /\ fresh10' = TRUE
  /\ late' = IF running THEN late ELSE late + 1
  /\ pc' = "watchdog"
  /\ Work
  /\ UNCHANGED <<boot, running, now, start, last10, last100, reason,
                 fresh100, beat>>

Skip1 ==
  /\ pc = "branch1" /\ ~Due1
  /\ pc' = "watchdog"
  /\ UNCHANGED <<clock, boot, running, timers, tick, reason, history>>

(* The software watchdog compares this iteration's sample with the last feed. *)
Watchdog ==
  /\ pc = "watchdog"
  /\ IF now - feed > WatchdogLimit
     THEN running' = FALSE /\ pc' = "shutdown" /\ reason' = "watchdog"
     ELSE pc' = "branch10" /\ UNCHANGED <<running, reason>>
  /\ UNCHANGED <<clock, boot, timers, tick, history>>

(* The 10 ms tasks: the battery-management state machine and the power switch. *)
Run10 ==
  /\ pc = "branch10" /\ Due10
  /\ last10' = now
  /\ fresh10' = FALSE /\ fresh100' = TRUE
  /\ pc' = "branch100"
  /\ Work
  /\ UNCHANGED <<boot, running, now, start, last1, last100, feed, tick, reason,
                 late, beat>>

Skip10 ==
  /\ pc = "branch10" /\ ~Due10
  /\ pc' = "branch100"
  /\ UNCHANGED <<clock, boot, running, timers, tick, reason, history>>

(* The 100 ms tasks and their probes. *)
Run100 ==
  /\ pc = "branch100" /\ Due100
  /\ last100' = now
  /\ fresh100' = FALSE
  /\ pc' = "heartbeat"
  /\ Work
  /\ UNCHANGED <<boot, running, now, start, last1, last10, feed, tick, reason,
                 fresh10, late, beat>>

Skip100 ==
  /\ pc = "branch100" /\ ~Due100
  /\ pc' = "heartbeat"
  /\ UNCHANGED <<clock, boot, running, timers, tick, reason, history>>

(* The heartbeat depends on the tick count alone. *)
HeartbeatDue == tick > 0 /\ tick % HeartbeatTicks = 0

Heartbeat ==
  /\ pc = "heartbeat"
  /\ pc' = "sleep"
  /\ beat' = IF HeartbeatDue THEN tick ELSE beat
  /\ UNCHANGED <<clock, boot, running, timers, tick, reason, fresh10, fresh100, late>>

(* usleep sleeps at least as long as asked. *)
SleepStep ==
  /\ pc = "sleep" /\ pc' = "test"
  /\ \E d \in 0 .. MaxStall : Pass(Sleep + d)
  /\ UNCHANGED <<boot, running, timers, tick, reason, history>>

(* Graceful shutdown: SPS_SwitchOffAllGeneralIoChannels (SpsContactor, PlantLoop), *)
(* then the process ends.                                                           *)
Shutdown ==
  /\ pc = "shutdown" /\ pc' = "exited"
  /\ UNCHANGED <<clock, boot, running, timers, tick, reason, history>>

-----------------------------------------------------------------------------
(* SIGINT has a handler, that only clears the flag. *)
SigInt ==
  /\ pc \notin Ended /\ running
  /\ running' = FALSE
  /\ reason' = "signal"
  /\ UNCHANGED <<clock, pc, boot, timers, tick, history>>

(* Any other fatal signal ends the process where it is. *)
Killed ==
  /\ pc \notin Ended /\ pc' = "killed"
  /\ UNCHANGED <<clock, boot, running, timers, tick, reason, history>>

(* A failed FAS_ASSERT in a task or during start-up calls exit(1) on the spot. *)
Assert ==
  /\ pc \in {"boot", "branch1", "branch10", "branch100"} /\ pc' = "aborted"
  /\ UNCHANGED <<clock, boot, running, timers, tick, reason, history>>

Main == Boot \/ EnterLoop \/ LoopTest \/ Sample \/ Drain \/ Run1 \/ Skip1 \/ Watchdog
          \/ Run10 \/ Skip10 \/ Run100 \/ Skip100 \/ Heartbeat \/ SleepStep \/ Shutdown

Next == Main \/ SigInt \/ Killed \/ Assert

Spec == Init /\ [][Next]_vars

\* The process is scheduled: main() always takes its next step, and time runs on
\* to the horizon because every iteration sleeps.
FairSpec == Spec /\ WF_vars(Main)

-----------------------------------------------------------------------------
(* Properties.                                                             *)

\* The software watchdog never fires: in an iteration that starts after a stall the
\* 1 ms branch feeds the watchdog with the very sample it is then compared with.
WatchdogNeverFires == reason # "watchdog"

\* The tick count never runs ahead of the time since the start of the loop, although
\* tasks overrun and samples are stale: it is a lower bound of the uptime.
TickNotAhead == tick * Period1 <= now - start

\* No lag accumulates: once an iteration has passed its branches no task is overdue
\* with respect to the iteration's sample, whatever the stalls before.
NoneOverdue ==
  pc \in {"heartbeat", "sleep"} =>
    now - last1 < Period1 /\ now - last10 < Period10 /\ now - last100 < Period100

\* The battery-management state machine never runs twice on the same inputs: between
\* two 10 ms tasks the 1 ms task has taken in the CAN frames, and between two 100 ms
\* tasks the 10 ms task has run.
InputsBetweenRuns ==
  /\ pc = "branch10" /\ Due10 => fresh10
  /\ pc = "branch100" /\ Due100 => fresh100

\* Each multiple of HeartbeatTicks gets its heartbeat before the tick moves on.
NoHeartbeatMissed ==
  pc = "sleep" => beat = tick - (tick % HeartbeatTicks)

\* Once asked to stop, the loop finishes the iteration at hand and starts no other (at
\* most one more 1 ms task); and no task runs in an iteration that starts after the timeout.
StopsWithinIteration ==
  /\ late <= 1
  /\ timeout > 0 /\ pc \in InTasks => now - start < timeout

\* A stop request at any point of start-up or loop, and a positive timeout, end the
\* process, whatever the stalls on the way.
EndsWhenAsked ==
  /\ ~running ~> pc \in Ended
  /\ timeout > 0 ~> pc \in Ended

=============================================================================
