------------------------------ MODULE LoopProofs ------------------------------
(***************************************************************************)
(* The main loop for every choice of periods, limits and stalls.  One      *)
(* inductive invariant carries all theorems: it relates the sample of the  *)
(* iteration to the samples at which the branches were taken last.         *)
(***************************************************************************)
EXTENDS MainLoop, TLAPS

\* Past the 1 ms branch, past the 10 ms branch, past the 100 ms branch.
After1   == {"watchdog", "branch10", "branch100", "heartbeat", "sleep"}
After10  == {"branch100", "heartbeat", "sleep"}
After100 == {"heartbeat", "sleep"}

\* The samples are ordered, and none is ahead of the clock.
Ordered ==
  /\ start <= last1 /\ last1 <= now /\ last10 <= now /\ last100 <= now
  /\ now <= clock /\ start <= last10 /\ start <= last100

\* The watchdog is fed by nothing but the 1 ms branch, with the sample it records.
FedByTask == feed = last1

\* A branch that was passed is not due.
Taken ==
  /\ pc \in After1 => now - last1 < Period1
  /\ pc \in After10 => now - last10 < Period10
  /\ pc \in After100 => now - last100 < Period100

\* Every tick took at least a period.
TicksCounted == tick * Period1 <= last1 - start

\* Without a 1 ms task since the last 10 ms task, the latter is the younger one; the
\* same of the 10 ms and the 100 ms task.
Youngest ==
  /\ ~fresh10 => last1 <= last10
  /\ ~fresh100 => last10 <= last100

\* In an iteration that has begun its tasks the timeout has not elapsed.
InTime == timeout > 0 /\ pc \in InTasks => now - start < timeout

\* A 1 ms task that ran after the stop request was in the loop's last iteration.
LastRun ==
  /\ late \in {0, 1}
  /\ late = 1 => ~running /\ pc \notin {"boot", "sample", "drain", "branch1"}

\* Nothing has been counted before the loop is entered.
NotStarted == pc = "boot" => tick = 0

LoopInv ==
  /\ TypeOK /\ NotStarted /\ Ordered /\ FedByTask /\ Taken /\ TicksCounted /\ Youngest /\ InTime
  /\ LastRun /\ WatchdogNeverFires

\* The only two facts about multiplication that the proof needs.
LEMMA ZeroTicks == 0 * Period1 = 0
  BY LoopAssumption

LEMMA OneMoreTick ==
  ASSUME NEW n \in Nat
  PROVE  (n + 1) * Period1 = n * Period1 + Period1
  BY LoopAssumption

\* The initial state satisfies the invariant.
LEMMA LoopInit == Init => LoopInv
  <1> SUFFICES ASSUME Init PROVE LoopInv
    OBVIOUS
  <1>1. TypeOK
    <2>1. 0 \in 0 .. Horizon /\ 0 \in Nat
      BY LoopAssumption
    <2>2. /\ clock = 0 /\ now = 0 /\ start = 0 /\ last1 = 0 /\ last10 = 0 /\ last100 = 0
          /\ feed = 0
      BY DEF Init
    <2>3. \A t \in {now, start, last1, last10, last100, feed} : t \in 0 .. Horizon
      BY <2>1, <2>2
    <2>4. clock \in 0 .. Horizon /\ tick \in Nat /\ late \in Nat /\ beat \in Nat
      BY <2>1 DEF Init
    <2> QED
      BY <2>3, <2>4 DEF Init, TypeOK, InTasks, Ended
  <1>2. TicksCounted
    BY ZeroTicks DEF Init, TicksCounted
  <1>3. Ordered /\ FedByTask /\ Youngest /\ LastRun /\ WatchdogNeverFires /\ NotStarted
    BY DEF Init, Ordered, FedByTask, Youngest, LastRun, WatchdogNeverFires, NotStarted
  <1>4. Taken /\ InTime
    BY DEF Init, Taken, InTime, After1, After10, After100, InTasks
  <1> QED
    BY <1>1, <1>2, <1>3, <1>4 DEF LoopInv

\* Time never runs backwards, and stops at the horizon.
LEMMA PassForward ==
  ASSUME clock \in 0 .. Horizon, NEW d \in Nat, Pass(d)
  PROVE  clock' \in 0 .. Horizon /\ clock <= clock'
  BY LoopAssumption DEF Pass

LEMMA WorkForward ==
  ASSUME clock \in 0 .. Horizon, Work
  PROVE  clock' \in 0 .. Horizon /\ clock <= clock'
  <1>1. PICK d \in 0 .. MaxStall : Pass(d)
    BY DEF Work
  <1> QED
    BY <1>1, PassForward, LoopAssumption

\* Every step of main(), every signal and every failed assertion preserves it.
LEMMA LoopStep == LoopInv /\ [Next]_vars => LoopInv'
  <1> SUFFICES ASSUME LoopInv, [Next]_vars PROVE LoopInv'
    OBVIOUS
  <1> USE LoopAssumption DEF InTasks, Ended, boot, timers, history, LoopInv, WatchdogNeverFires
  <1> USE DEF After1, After10, After100, NotStarted
  <1>1. CASE Boot
    BY <1>1 DEF Boot, TypeOK, Ordered, FedByTask, Taken, TicksCounted, Youngest, InTime, LastRun
  <1>2. CASE EnterLoop
    <2>1. TicksCounted'
      BY <1>2, ZeroTicks DEF EnterLoop, TypeOK, TicksCounted
    <2> QED
      BY <1>2, <2>1 DEF EnterLoop, TypeOK, Ordered, FedByTask, Taken, Youngest, InTime,
                  LastRun
  <1>3. CASE LoopTest
    BY <1>3 DEF LoopTest, TypeOK, Ordered, FedByTask, Taken, TicksCounted, Youngest, InTime,
                LastRun
  <1>4. CASE Sample
    <2>1. TypeOK'
      BY <1>4 DEF Sample, TypeOK
    <2>2. Ordered'
      BY <1>4 DEF Sample, Ordered, TypeOK
    <2>3. FedByTask'
      BY <1>4 DEF Sample, FedByTask
    <2>4. Taken'
      BY <1>4 DEF Sample, Taken, TypeOK
    <2>5. TicksCounted'
      BY <1>4 DEF Sample, TicksCounted
    <2>6. Youngest'
      BY <1>4 DEF Sample, Youngest, TypeOK, Ordered
    <2>7. InTime'
      BY <1>4 DEF Sample, InTime, TypeOK
    <2>8. LastRun'
      BY <1>4 DEF Sample, LastRun, TypeOK
    <2> QED
      BY <1>4, <2>1, <2>2, <2>3, <2>4, <2>5, <2>6, <2>7, <2>8 DEF Sample
  <1>5. CASE Drain
    BY <1>5, WorkForward DEF Drain, TypeOK, Ordered, FedByTask, Taken, TicksCounted, Youngest,
                InTime, LastRun
  <1>6. CASE Run1
    <2>1. tick * Period1 \in Nat
      BY DEF TypeOK
    <2>2. TicksCounted'
      BY <1>6, <2>1, OneMoreTick DEF Run1, Due1, TicksCounted, TypeOK, Ordered
    <2> QED
      BY <1>6, <2>2, WorkForward DEF Run1, TypeOK, Ordered, FedByTask, Taken, Youngest, InTime,
                LastRun
  <1>7. CASE Skip1
    BY <1>7 DEF Skip1, Due1, TypeOK, Ordered, FedByTask, Taken, TicksCounted, Youngest, InTime,
                LastRun
  <1>8. CASE Watchdog
    BY <1>8 DEF Watchdog, TypeOK, Ordered, FedByTask, Taken, TicksCounted, Youngest, InTime,
                LastRun
  <1>9. CASE Run10
    <2>1. TypeOK'
      BY <1>9, WorkForward DEF Run10, Due10, TypeOK
    <2>2. Ordered'
      BY <1>9, WorkForward DEF Run10, Due10, Ordered, TypeOK
    <2>3. FedByTask'
      BY <1>9, WorkForward DEF Run10, Due10, FedByTask
    <2>4. Taken'
      BY <1>9, WorkForward DEF Run10, Due10, Taken, TypeOK
    <2>5. TicksCounted'
      BY <1>9, WorkForward DEF Run10, Due10, TicksCounted
    <2>6. Youngest'
      BY <1>9, WorkForward DEF Run10, Due10, Youngest, TypeOK, Ordered
    <2>7. InTime'
      BY <1>9, WorkForward DEF Run10, Due10, InTime, TypeOK
    <2>8. LastRun'
      BY <1>9, WorkForward DEF Run10, Due10, LastRun, TypeOK
    <2> QED
      BY <1>9, <2>1, <2>2, <2>3, <2>4, <2>5, <2>6, <2>7, <2>8 DEF Run10
  <1>10. CASE Skip10
    BY <1>10 DEF Skip10, Due10, TypeOK, Ordered, FedByTask, Taken, TicksCounted, Youngest,
                InTime, LastRun
  <1>11. CASE Run100
    <2>1. TypeOK'
      BY <1>11, WorkForward DEF Run100, Due100, TypeOK
    <2>2. Ordered'
      BY <1>11, WorkForward DEF Run100, Due100, Ordered, TypeOK
    <2>3. FedByTask'
      BY <1>11, WorkForward DEF Run100, Due100, FedByTask
    <2>4. Taken'
      BY <1>11, WorkForward DEF Run100, Due100, Taken, TypeOK
    <2>5. TicksCounted'
      BY <1>11, WorkForward DEF Run100, Due100, TicksCounted
    <2>6. Youngest'
      BY <1>11, WorkForward DEF Run100, Due100, Youngest, TypeOK, Ordered
    <2>7. InTime'
      BY <1>11, WorkForward DEF Run100, Due100, InTime, TypeOK
    <2>8. LastRun'
      BY <1>11, WorkForward DEF Run100, Due100, LastRun, TypeOK
    <2> QED
      BY <1>11, <2>1, <2>2, <2>3, <2>4, <2>5, <2>6, <2>7, <2>8 DEF Run100
  <1>12. CASE Skip100
    BY <1>12 DEF Skip100, Due100, TypeOK, Ordered, FedByTask, Taken, TicksCounted, Youngest,
                InTime, LastRun
  <1>13. CASE Heartbeat
    BY <1>13 DEF Heartbeat, TypeOK, Ordered, FedByTask, Taken, TicksCounted, Youngest, InTime,
                LastRun
  <1>14. CASE SleepStep
    <2>1. clock' \in 0 .. Horizon /\ clock <= clock'
      BY <1>14, PassForward DEF SleepStep, TypeOK
    <2> QED
      BY <1>14, <2>1 DEF SleepStep, TypeOK, Ordered, FedByTask, Taken, TicksCounted, Youngest,
                InTime, LastRun
  <1>15. CASE Shutdown
    BY <1>15 DEF Shutdown, TypeOK, Ordered, FedByTask, Taken, TicksCounted, Youngest, InTime,
                LastRun
  <1>16. CASE SigInt
    <2>1. TypeOK'
      BY <1>16 DEF SigInt, TypeOK
    <2>2. Ordered'
      BY <1>16 DEF SigInt, Ordered, TypeOK
    <2>3. FedByTask'
      BY <1>16 DEF SigInt, FedByTask
    <2>4. Taken'
      BY <1>16 DEF SigInt, Taken, TypeOK
    <2>5. TicksCounted'
      BY <1>16 DEF SigInt, TicksCounted
    <2>6. Youngest'
      BY <1>16 DEF SigInt, Youngest, TypeOK, Ordered
    <2>7. InTime'
      BY <1>16 DEF SigInt, InTime, TypeOK
    <2>8. LastRun'
      BY <1>16 DEF SigInt, LastRun, TypeOK
    <2> QED
      BY <1>16, <2>1, <2>2, <2>3, <2>4, <2>5, <2>6, <2>7, <2>8 DEF SigInt
  <1>17. CASE Killed
    BY <1>17 DEF Killed, TypeOK, Ordered, FedByTask, Taken, TicksCounted, Youngest, InTime, LastRun
  <1>18. CASE Assert
    BY <1>18 DEF Assert, TypeOK, Ordered, FedByTask, Taken, TicksCounted, Youngest, InTime, LastRun
  <1>19. CASE UNCHANGED vars
    BY <1>19 DEF vars, TypeOK, Ordered, FedByTask, Taken, TicksCounted, Youngest, InTime, LastRun
  <1> QED
    BY <1>1, <1>2, <1>3, <1>4, <1>5, <1>6, <1>7, <1>8, <1>9, <1>10, <1>11, <1>12, <1>13,
       <1>14, <1>15, <1>16, <1>17, <1>18, <1>19 DEF Next, Main

LEMMA LoopInvariant == Spec => []LoopInv
  BY LoopInit, LoopStep, PTL DEF Spec

-----------------------------------------------------------------------------
\* Every reachable state of the main loop is well typed.
THEOREM LoopTypeCorrect == Spec => []TypeOK
  <1>1. LoopInv => TypeOK
    BY DEF LoopInv
  <1> QED
    BY <1>1, LoopInvariant, PTL

\* For every limit of at least a period and every stall: the software watchdog of the
\* main loop (GA-24) cannot fire, for it compares the sample the 1 ms branch has just
\* been taken with, or one less than a period younger.
THEOREM WatchdogIsDead == Spec => []WatchdogNeverFires
  <1>1. LoopInv => WatchdogNeverFires
    BY DEF LoopInv
  <1> QED
    BY <1>1, LoopInvariant, PTL

\* The tick, from which heartbeat and status are derived, never overstates the uptime.
THEOREM TickIsLowerBound == Spec => []TickNotAhead
  <1>1. LoopInv => TickNotAhead
    <2> SUFFICES ASSUME LoopInv PROVE TickNotAhead
      OBVIOUS
    <2>1. tick * Period1 \in Nat
      BY LoopAssumption DEF LoopInv, TypeOK
    <2> QED
      BY <2>1 DEF LoopInv, TicksCounted, Ordered, TypeOK, TickNotAhead
  <1> QED
    BY <1>1, LoopInvariant, PTL

\* No lag accumulates: at the end of an iteration no task is overdue at its sample.
THEOREM LagIsForgotten == Spec => []NoneOverdue
  <1>1. LoopInv => NoneOverdue
    BY DEF LoopInv, Taken, NoneOverdue, After1, After10, After100
  <1> QED
    BY <1>1, LoopInvariant, PTL

\* The slower task never runs twice without the faster one in between, whatever the
\* stalls, because periods are nested and all branches compare with one sample.
THEOREM FreshInputs == Spec => []InputsBetweenRuns
  <1>1. LoopInv => InputsBetweenRuns
    BY LoopAssumption DEF LoopInv, TypeOK, Ordered, Taken, Youngest, InputsBetweenRuns,
                          Due10, Due100, After1, After10, After100
  <1> QED
    BY <1>1, LoopInvariant, PTL

\* After a stop request at most one more 1 ms task runs, and none after the timeout.
THEOREM StopIsPrompt == Spec => []StopsWithinIteration
  <1>1. LoopInv => StopsWithinIteration
    BY DEF LoopInv, LastRun, InTime, StopsWithinIteration
  <1> QED
    BY <1>1, LoopInvariant, PTL

-----------------------------------------------------------------------------
(* Heartbeats.  The tick moves by one at a time, and between any two of its *)
(* steps the loop passes the heartbeat.                                      *)

LEMMA Division ==
  ASSUME NEW m \in Nat, m > 0, NEW x \in Int
  PROVE  x = m * (x \div m) + (x % m) /\ x % m \in 0 .. m - 1
  OBVIOUS

LEMMA RemainderUnique ==
  ASSUME NEW m \in Nat, m > 0, NEW q \in Int, NEW p \in Int,
         NEW r \in 0 .. m - 1, NEW s \in 0 .. m - 1, m * q + r = m * p + s
  PROVE  r = s
  <1>1. m * (q - p) = s - r
    OBVIOUS
  <1>2. CASE q - p = 0
    BY <1>1, <1>2
  <1>3. CASE q - p >= 1
    <2>1. m * (q - p) >= m
      BY <1>3
    <2> QED
      BY <1>1, <2>1
  <1>4. CASE q - p <= -1
    <2>1. m * (q - p) <= -m
      BY <1>4
    <2> QED
      BY <1>1, <2>1
  <1> QED
    BY <1>2, <1>3, <1>4

\* The multiple of HeartbeatTicks at or below n: the tick whose heartbeat is owed last.
Owed(n) == n - (n % HeartbeatTicks)

\* One more tick leaves the owed heartbeat where it was, unless the tick is a multiple.
LEMMA OwedStep ==
  ASSUME NEW n \in Nat
  PROVE  /\ (n + 1) % HeartbeatTicks # 0 => Owed(n + 1) = Owed(n)
         /\ (n + 1) % HeartbeatTicks = 0 => Owed(n + 1) = n + 1
  <1> DEFINE m == HeartbeatTicks
             q == n \div m
             r == n % m
             p == (n + 1) \div m
             s == (n + 1) % m
  <1>1. m \in Nat /\ m > 0
    BY LoopAssumption
  <1>2. n = m * q + r /\ r \in 0 .. m - 1
    BY <1>1, Division
  <1>3. n + 1 = m * p + s /\ s \in 0 .. m - 1
    BY <1>1, Division
  <1>4. q \in Int /\ p \in Int
    BY <1>1
  <1>5. Owed(n) = n - r /\ Owed(n + 1) = (n + 1) - s
    BY Zenon DEF Owed
  <1> HIDE DEF m, q, r, p, s
  <1>6. CASE r + 1 < m
    <2>1. r + 1 \in 0 .. m - 1 /\ m * q + (r + 1) = m * p + s
      BY <1>1, <1>2, <1>3, <1>4, <1>6
    <2>2. s = r + 1
      BY <1>1, <1>3, <1>4, <2>1, RemainderUnique
    <2>3. s # 0 /\ Owed(n + 1) = Owed(n)
      BY <1>2, <1>5, <2>2
    <2> QED
      BY <2>3 DEF s, m
  <1>7. CASE r + 1 = m
    <2>1. m * q + m = m * (q + 1)
      BY <1>1, <1>4
    <2>2. q + 1 \in Int /\ 0 \in 0 .. m - 1 /\ m * (q + 1) + 0 = m * p + s
      BY <1>1, <1>2, <1>3, <1>4, <1>7, <2>1
    <2>3. s = 0
      BY <1>1, <1>3, <1>4, <2>2, RemainderUnique
    <2>4. Owed(n + 1) = n + 1
      BY <1>5, <2>3
    <2> QED
      BY <2>3, <2>4 DEF s, m
  <1> QED
    BY <1>1, <1>2, <1>6, <1>7

LEMMA OwedAtStart == Owed(0) = 0
  <1>1. HeartbeatTicks \in Nat /\ HeartbeatTicks > 0
    BY LoopAssumption
  <1>2. 0 % HeartbeatTicks = 0
    BY <1>1
  <1> QED
    BY <1>2 DEF Owed

\* Where the heartbeat of this iteration is past or not yet due, the last one was for
\* the last multiple; between the 1 ms branch and the heartbeat it may be due.
Beaten ==
  /\ pc \in {"boot", "test", "sample", "drain", "branch1", "sleep"} => beat = Owed(tick)
  /\ pc \in {"watchdog", "branch10", "branch100", "heartbeat"} =>
       HeartbeatDue \/ beat = Owed(tick)

LEMMA BeatenInit == Init => Beaten
  BY OwedAtStart DEF Init, Beaten

\* What leaves the tick, the last beat and the side of the 1 ms branch alone.
LEMMA BeatenSame ==
  ASSUME Beaten, UNCHANGED <<tick, beat>>,
         \/ /\ pc \in {"boot", "test", "sample", "drain", "branch1", "sleep"}
            /\ pc' \in {"boot", "test", "sample", "drain", "branch1", "watchdog"}
         \/ /\ pc \in {"watchdog", "branch10", "branch100"}
            /\ pc' \in {"branch10", "branch100", "heartbeat"}
         \/ pc' = pc
         \/ pc' \in Ended \cup {"shutdown"}
  PROVE  Beaten'
  BY DEF Beaten, HeartbeatDue, Ended, Owed

LEMMA BeatenStep == TypeOK /\ Beaten /\ [Next]_vars => Beaten'
  <1> SUFFICES ASSUME TypeOK, Beaten, [Next]_vars PROVE Beaten'
    OBVIOUS
  <1> USE DEF boot, timers, history, Ended
  <1>1. CASE Run1
    <2>1. pc = "branch1" /\ pc' = "watchdog" /\ tick' = tick + 1 /\ beat' = beat
          /\ beat = Owed(tick) /\ tick \in Nat
      BY <1>1 DEF Run1, Beaten, TypeOK
    <2>2. CASE tick' % HeartbeatTicks = 0
      BY <2>1, <2>2 DEF Beaten, HeartbeatDue
    <2>3. CASE tick' % HeartbeatTicks # 0
      <3>1. Owed(tick + 1) = Owed(tick)
        BY <2>1, <2>3, OwedStep
      <3>2. (Owed(tick))' = Owed(tick + 1)
        BY <2>1 DEF Owed
      <3> QED
        BY <2>1, <3>1, <3>2 DEF Beaten
    <2> QED
      BY <2>2, <2>3
  <1>2. CASE Heartbeat
    <2>1. pc = "heartbeat" /\ pc' = "sleep" /\ tick' = tick /\ tick \in Nat
          /\ beat' = IF HeartbeatDue THEN tick ELSE beat
      BY <1>2 DEF Heartbeat, TypeOK
    <2>2. (Owed(tick))' = Owed(tick)
      BY <2>1 DEF Owed
    <2>3. HeartbeatDue => tick = Owed(tick)
      BY <2>1 DEF HeartbeatDue, Owed
    <2> QED
      BY <2>1, <2>2, <2>3 DEF Beaten
  <1>3. CASE Boot \/ EnterLoop \/ LoopTest \/ Sample \/ Drain \/ Skip1
    BY <1>3, BeatenSame DEF Boot, EnterLoop, LoopTest, Sample, Drain, Skip1
  <1>4. CASE Watchdog \/ Run10 \/ Skip10 \/ Run100 \/ Skip100
    BY <1>4, BeatenSame DEF Watchdog, Run10, Skip10, Run100, Skip100
  <1>5. CASE SleepStep \/ Shutdown
    BY <1>5, BeatenSame DEF SleepStep, Shutdown
  <1>6. CASE SigInt \/ Killed \/ Assert
    BY <1>6, BeatenSame DEF SigInt, Killed, Assert
  <1>7. CASE UNCHANGED vars
    BY <1>7, BeatenSame DEF vars
  <1> QED
    BY <1>1, <1>2, <1>3, <1>4, <1>5, <1>6, <1>7 DEF Next, Main

\* Whatever the stalls and wherever the tick rests, every multiple of HeartbeatTicks has
\* had its heartbeat (foxbms_posix_main.c:468) when the loop goes to sleep.
THEOREM HeartbeatsKept == Spec => []NoHeartbeatMissed
  <1>1. LoopInv => TypeOK
    BY DEF LoopInv
  <1>2. Beaten => NoHeartbeatMissed
    BY DEF Beaten, Owed, NoHeartbeatMissed
  <1> QED
    BY <1>1, <1>2, LoopInvariant, BeatenInit, BeatenStep, PTL DEF Spec

=============================================================================
