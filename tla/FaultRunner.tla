---------------------------- MODULE FaultRunner ----------------------------
(***************************************************************************)
(* The fault-injection runner (test_fault_injection.py and the package fi) *)
(* against the vECU it tests: two processes and two sockets.               *)
(*                                                                         *)
(* The runner sends override commands on CAN 0x7E0 and knows the vECU only *)
(* through a monitor that caches the probe frames it has read.  Before     *)
(* each test it verifies its preconditions on that cache, retrying with    *)
(* cleared overrides and restarts; after each test it clears the overrides.*)
(* The vECU reads commands when it gets to it, diagnoses, opens and closes *)
(* its contactors in its own time, and may crash.                          *)
(*                                                                         *)
(* Every loop of the runner ends with a deadline, modelled as a step that  *)
(* may come at any time.  Repeating a command changes nothing once the     *)
(* last one sent says the same, so a repetition is not sent again here.    *)
(***************************************************************************)
EXTENDS Integers, Sequences, SequencesExt, FiniteSetsExt

CONSTANTS
  Kinds,         \* what a test may override: cell voltage, temperature, current
  Protocols,     \* the test runners of fi, by their control
  MaxTests,      \* bound: tests of the matrix
  MaxRestarts,   \* 2, or 0 for --no-start
  MaxFrames,     \* receive buffer of the runner's socket
  MaxUnread,     \* bound: commands unread when noise or oscillation adds another
  MaxCrashes     \* bound: crashes of the vECU

AllProtocols == {"direct", "clears", "recovery", "latch", "again", "persist", "opens"}

ASSUME RunnerAssumption ==
  /\ IsFiniteSet(Kinds) /\ Kinds # {}
  /\ Protocols \subseteq AllProtocols /\ Protocols # {}
  /\ MaxTests \in Nat /\ MaxRestarts \in Nat /\ MaxFrames \in Nat \ {0}
  /\ MaxUnread \in Nat /\ MaxCrashes \in Nat

VARIABLES
  \* the runner
  pc,          \* position in main and in the test's runner
  test,        \* the running test: its protocol and what it overrides
  left,        \* tests not yet begun
  attempt,     \* escalation of the preconditions: 1 after clear, then restarts
  ok,          \* preconditions latched by verify_preconditions
  monitor,     \* ProbeMonitor: state, contactors, bitmap
  verdict,     \* outcome of the running test
  \* the sockets
  cmds,        \* commands the vECU has not read
  frames,      \* frames the runner has not read
  \* the vECU
  alive, life, crashes,
  overrides,   \* sil_overrides: "off", or a value that is faulty or safe
  bits,        \* posix_diag_bitmap
  bms,         \* state of the foxBMS state machine
  closed       \* a bit of the SPS mask that the probe carries is set

runnerVars == <<pc, test, left, attempt, ok, monitor, verdict>>
vecuVars == <<alive, life, crashes, overrides, bits, bms, closed>>
vars == <<runnerVars, cmds, frames, vecuVars>>

Values   == {"off", "bad", "safe"}
BmsStates == {"starting", "NORMAL", "ERROR"}
Flags    == {"NORMAL", "DIAG", "CONTACTORS", "rest"}
Verdicts == {"none", "PASS", "FAIL", "ERROR"}
Views    == [bms : BmsStates, closed : BOOLEAN, bits : SUBSET Kinds]
Tests    == [protocol : Protocols, kind : Kinds]
NoTest   == [protocol |-> "none"]
Checking == {"initial", "check"}
Monitoring == Checking \union {"watch", "withdraw", "hold", "settle"}

\* Runner, sockets and vECU stay in range, the buffer within its limit.
TypeOK ==
  /\ pc \in Monitoring \union {"start", "judged", "done"}
  /\ test \in Tests \union {NoTest}
  /\ left \in 0 .. MaxTests /\ attempt \in 0 .. MaxRestarts + 1
  /\ ok \subseteq Flags
  /\ monitor \in Views
  /\ verdict \in Verdicts
  /\ \A i \in DOMAIN cmds : cmds[i].kind \in Kinds /\ cmds[i].value \in Values
  /\ Len(frames) <= MaxFrames
  /\ \A i \in DOMAIN frames : frames[i].life \in Nat /\ frames[i].probe \in {"SPS", "DIAG", "STATE"}
  /\ alive \in BOOLEAN /\ life \in Nat /\ crashes \in 0 .. MaxCrashes
  /\ overrides \in [Kinds -> Values]
  /\ bits \subseteq Kinds /\ bms \in BmsStates /\ closed \in BOOLEAN

Init ==
  /\ pc = "initial" /\ left = MaxTests /\ attempt = 0 /\ ok = {}
  /\ test = NoTest
  /\ monitor = [bms |-> "starting", closed |-> FALSE, bits |-> {}]
  /\ verdict = "none" /\ cmds = <<>> /\ frames = <<>>
  /\ alive = TRUE /\ life = 0 /\ crashes = 0
  /\ overrides = [k \in Kinds |-> "off"]
  /\ bits = {} /\ bms = "starting" /\ closed = FALSE

-----------------------------------------------------------------------------
(* Injector and monitor.                                                   *)

\* The value the vECU's table will have when it has read what was sent.
Final(k) ==
  LET sent == {i \in DOMAIN cmds : cmds[i].kind = k}
  IN  IF sent = {} THEN overrides[k] ELSE cmds[Max(sent)].value

\* FaultInjector.inject_multi; nobody hears what is sent to a vECU that has crashed.
Send(k, v) ==
  cmds' = IF ~alive \/ Final(k) = v THEN cmds ELSE Append(cmds, [kind |-> k, value |-> v])

\* FaultInjector.clear: every kind, one command after the other.  The pack voltage, which it does
\* not name, is not among Kinds: no test of the matrix resolves to it.
Clear ==
  LET active == SetToSeq({k \in Kinds : Final(k) # "off"})
  IN  cmds' = cmds \o [i \in DOMAIN active |-> [kind |-> active[i], value |-> "off"]]

\* ProbeMonitor.update: each frame replaces the part it is about.
Updated(view, f) ==
  CASE f.probe = "SPS"   -> [view EXCEPT !.closed = f.closed]
    [] f.probe = "DIAG"  -> [view EXCEPT !.bits = f.bits]
    [] f.probe = "STATE" -> [view EXCEPT !.bms = f.bms]

\* monitor_and_update reads as many frames as come in its time, one per step.
Receive ==
  /\ pc \in Monitoring /\ frames # <<>>
  /\ monitor' = Updated(monitor, Head(frames))
  /\ frames' = Tail(frames)
  /\ UNCHANGED <<pc, test, left, attempt, ok, verdict, cmds, vecuVars>>

-----------------------------------------------------------------------------
(* main: preconditions, escalation, the next test.                         *)

\* No state of a process, no command under way to it.
Blank ==
  /\ overrides' = [k \in Kinds |-> "off"]
  /\ bits' = {} /\ bms' = "starting" /\ closed' = FALSE
  /\ cmds' = <<>>

\* VecuManager.restart: a new process, with nothing of the old one.
NewVecu == alive' = TRUE /\ Blank

Goto(p) == pc' = p /\ UNCHANGED <<test, left, attempt, ok, monitor>>

\* The next case of the matrix, or the end.
NextCase ==
  /\ attempt' = 0 /\ ok' = {}
  /\ test' = NoTest /\ verdict' = "none"
  /\ IF left > 0 THEN pc' = "check" /\ left' = left - 1
                 ELSE pc' = "done" /\ left' = left

\* What the cache satisfies now; current, voltage and temperature are accepted some
\* time after NORMAL.
Met ==
  (IF monitor.bms = "NORMAL" THEN {"NORMAL"} ELSE {})
    \union (IF monitor.bits = {} THEN {"DIAG"} ELSE {})
    \union (IF monitor.closed THEN {"CONTACTORS"} ELSE {})

\* One pass of verify_preconditions: a flag once latched is not looked at again.  It
\* returns when all are.
Latch(more) ==
  LET now == ok \union Met \union more
  IN  /\ pc \in Checking
      /\ more # {} => "NORMAL" \in ok \union Met
      /\ \/ /\ now # Flags /\ ok' = now
            /\ UNCHANGED <<pc, test, left, attempt, verdict>>
         \/ /\ now = Flags /\ pc = "initial" /\ NextCase
         \/ /\ now = Flags /\ pc = "check"
            /\ pc' = "start" /\ ok' = {} /\ attempt' = 0
            /\ UNCHANGED <<test, left, verdict>>
      /\ UNCHANGED <<monitor, cmds, frames, vecuVars>>

\* Without its preconditions at the start the runner gives up.
InitialTimeout ==
  /\ pc = "initial"
  /\ Goto("done")
  /\ UNCHANGED <<verdict, cmds, frames, vecuVars>>

\* First the overrides are cleared and the preconditions verified again.
ClearAndRetry ==
  /\ pc = "check" /\ attempt = 0
  /\ Clear
  /\ attempt' = 1 /\ ok' = {}
  /\ UNCHANGED <<pc, test, left, monitor, verdict, frames, vecuVars>>

\* Faulty variants: the runner keeps its socket, or loses count.
RestartSameSocket ==
  /\ pc = "check" /\ attempt \in 1 .. MaxRestarts
  /\ attempt' = attempt + 1 /\ ok' = {}
  /\ NewVecu /\ life' = life + 1
  /\ UNCHANGED <<pc, test, left, monitor, verdict, frames, crashes>>

RestartUncounted ==
  /\ pc = "check" /\ attempt \in 1 .. MaxRestarts
  /\ ok' = {}
  /\ NewVecu /\ life' = 1 /\ frames' = <<>>
  /\ UNCHANGED <<pc, test, left, attempt, monitor, verdict, crashes>>

\* Then the vECU is restarted and the bus reopened; the monitor is kept.
Restart ==
  /\ pc = "check" /\ attempt \in 1 .. MaxRestarts
  /\ attempt' = attempt + 1 /\ ok' = {}
  /\ NewVecu /\ life' = life + 1 /\ frames' = <<>>
  /\ UNCHANGED <<pc, test, left, monitor, verdict, crashes>>

\* At last the test is skipped, with "continue": nothing is cleared after it.
SkipTest ==
  /\ pc = "check" /\ attempt = MaxRestarts + 1
  /\ NextCase
  /\ UNCHANGED <<monitor, cmds, frames, vecuVars>>

\* A test's runner begins with its injection; which test it is, is decided here.
StartTest ==
  /\ pc = "start"
  /\ \E t \in Tests : test' = t /\ Send(t.kind, "bad")
  /\ pc' = "watch"
  /\ UNCHANGED <<left, attempt, ok, monitor, verdict, frames, vecuVars>>

\* Faulty variant: only a test that passed or failed is followed by clear().
AfterTestIfJudged ==
  /\ pc = "judged"
  /\ IF verdict \in {"PASS", "FAIL"} THEN Clear ELSE UNCHANGED cmds
  /\ NextCase
  /\ UNCHANGED <<monitor, frames, vecuVars>>

\* After a test the overrides are cleared; a judged test of the contactors drains the
\* socket and listens for a while, after others the runner goes on at once.
AfterTest ==
  /\ pc = "judged"
  /\ Clear
  /\ IF test.protocol = "opens" /\ verdict # "ERROR"
     THEN frames' = <<>> /\ Goto("settle") /\ UNCHANGED verdict
     ELSE NextCase /\ UNCHANGED <<monitor, frames>>
  /\ UNCHANGED vecuVars

Settled ==
  /\ pc = "settle"
  /\ NextCase
  /\ UNCHANGED <<monitor, cmds, frames, vecuVars>>

-----------------------------------------------------------------------------
(* The runners of the tests.                                               *)

Judge(v) == verdict' = v /\ Goto("judged")

BitSeen == test.kind \in monitor.bits

\* run_contactor_open_test, run_no_reaction_test, run_warning_flag_test: the first
\* pass calls bms_in_error(), whose BMS_ERROR probe_monitor.py does not import; the
\* exception becomes the verdict ERROR.
WatchDirect ==
  /\ pc = "watch" /\ test.protocol = "direct"
  /\ Send(test.kind, "bad")
  /\ Judge("ERROR")
  /\ UNCHANGED <<frames, vecuVars>>

\* run_fault_clears_test, first phase: the bit, or the deadline.
WatchClears ==
  /\ pc = "watch" /\ test.protocol = "clears"
  /\ BitSeen
  /\ Clear
  /\ Goto("withdraw")
  /\ UNCHANGED <<verdict, frames, vecuVars>>

\* run_recovery_test and run_persist_test, first phase: the bit or open contactors;
\* without either the first pass ends in the same exception.
WatchRecovery ==
  /\ pc = "watch" /\ test.protocol \in {"recovery", "latch", "again", "persist"}
  /\ IF ~BitSeen /\ monitor.closed
     THEN Send(test.kind, "bad") /\ Judge("ERROR")
     ELSE \/ /\ test.protocol = "persist"
             /\ Send(test.kind, "bad") /\ Goto("hold") /\ UNCHANGED verdict
          \/ /\ test.protocol # "persist"
             /\ Clear \/ Send(test.kind, "safe")
             /\ Goto("withdraw") /\ UNCHANGED verdict
  /\ UNCHANGED <<frames, vecuVars>>

\* Drift, noise, oscillation and combinations that expect open contactors.
WatchOpens ==
  /\ pc = "watch" /\ test.protocol = "opens"
  /\ ~monitor.closed
  /\ Judge("PASS")
  /\ UNCHANGED <<cmds, frames, vecuVars>>

\* Noise and oscillation go on changing what they inject, within MaxUnread.
WatchVaries ==
  /\ pc = "watch" /\ test.protocol = "opens" /\ Len(cmds) < MaxUnread
  /\ \E v \in {"bad", "safe"} : Final(test.kind) # v /\ Send(test.kind, v)
  /\ UNCHANGED <<pc, test, left, attempt, ok, monitor, verdict, frames, vecuVars>>

\* Neither the bit nor open contactors before the deadline.
WatchTimeout ==
  /\ pc = "watch" /\ test.protocol \in {"clears", "opens"}
  /\ Judge("FAIL")
  /\ UNCHANGED <<cmds, frames, vecuVars>>

\* Second phase of the recovery tests: the bit is gone.
WithdrawSeen ==
  /\ pc = "withdraw" /\ test.protocol # "again" /\ ~BitSeen
  /\ Judge("PASS")
  /\ UNCHANGED <<cmds, frames, vecuVars>>

\* A fault that stays is what a latching test takes for success.
WithdrawTimeout ==
  /\ pc = "withdraw" /\ test.protocol # "again"
  /\ Judge(IF test.protocol = "latch" THEN "PASS" ELSE "FAIL")
  /\ UNCHANGED <<cmds, frames, vecuVars>>

\* A recovery test that expects open contactors injects again, and meets the exception.
WithdrawAgain ==
  /\ pc = "withdraw" /\ test.protocol = "again"
  /\ Send(test.kind, "bad")
  /\ Judge("ERROR")
  /\ UNCHANGED <<frames, vecuVars>>

\* Hold phase of run_persist_test: the bit must not vanish before the deadline.
HoldBroken ==
  /\ pc = "hold" /\ ~BitSeen
  /\ Judge("FAIL")
  /\ UNCHANGED <<cmds, frames, vecuVars>>

HoldTimeout ==
  /\ pc = "hold"
  /\ Judge("PASS")
  /\ UNCHANGED <<cmds, frames, vecuVars>>

-----------------------------------------------------------------------------
(* The vECU, as far as the runner depends on it.                           *)

\* The drain of its main loop applies the commands in the order sent.
VecuRead ==
  /\ alive /\ cmds # <<>>
  /\ overrides' = [overrides EXCEPT ![Head(cmds).kind] = Head(cmds).value]
  /\ cmds' = Tail(cmds)
  /\ UNCHANGED <<runnerVars, frames, alive, life, crashes, bits, bms, closed>>

\* A fault passes its threshold; good values withdraw the bit.
VecuDetect ==
  /\ alive
  /\ \E k \in Kinds \ bits : overrides[k] = "bad" /\ bits' = bits \union {k}
  /\ UNCHANGED <<runnerVars, cmds, frames, alive, life, crashes, overrides, bms, closed>>

VecuRecover ==
  /\ alive
  /\ \E k \in bits : overrides[k] # "bad" /\ bits' = bits \ {k}
  /\ UNCHANGED <<runnerVars, cmds, frames, alive, life, crashes, overrides, bms, closed>>

\* A fault takes it to ERROR and opens the contactors; without one it precharges, and
\* only then is NORMAL.
VecuState ==
  /\ alive
  /\ \/ bits # {} /\ bms # "ERROR" /\ bms' = "ERROR" /\ UNCHANGED closed
     \/ bits # {} /\ bms = "ERROR" /\ closed /\ closed' = FALSE /\ UNCHANGED bms
     \/ bits = {} /\ bms # "NORMAL" /\ ~closed /\ closed' = TRUE /\ bms' = "starting"
     \/ bits = {} /\ bms # "NORMAL" /\ closed /\ bms' = "NORMAL" /\ UNCHANGED closed
  /\ UNCHANGED <<runnerVars, cmds, frames, alive, life, crashes, overrides, bits>>

\* The probes; a full buffer drops the frame.
VecuProbe ==
  /\ alive /\ Len(frames) < MaxFrames
  /\ \E f \in {[probe |-> "SPS", life |-> life, closed |-> closed],
               [probe |-> "DIAG", life |-> life, bits |-> bits],
               [probe |-> "STATE", life |-> life, bms |-> bms]} :
       frames' = Append(frames, f)
  /\ UNCHANGED <<runnerVars, cmds, vecuVars>>

\* A crash takes everything with it but what is in the runner's socket.
VecuCrash ==
  /\ alive /\ crashes < MaxCrashes
  /\ crashes' = crashes + 1
  /\ alive' = FALSE /\ Blank
  /\ UNCHANGED <<runnerVars, frames, life>>

-----------------------------------------------------------------------------
Deadline ==
  InitialTimeout \/ ClearAndRetry \/ Restart \/ SkipTest \/ WatchTimeout
    \/ WithdrawTimeout \/ HoldTimeout \/ Settled

Unblocked == StartTest \/ AfterTest \/ WatchDirect \/ WatchRecovery \/ WithdrawAgain

Runner ==
  \/ Receive \/ (\E more \in SUBSET {"rest"} : Latch(more)) \/ StartTest \/ AfterTest
  \/ WatchDirect \/ WatchClears \/ WatchRecovery \/ WatchOpens \/ WatchVaries
  \/ WithdrawSeen \/ WithdrawAgain \/ HoldBroken
  \/ Deadline

Vecu == VecuRead \/ VecuDetect \/ VecuRecover \/ VecuState \/ VecuProbe \/ VecuCrash

Next == Runner \/ Vecu

Spec == Init /\ [][Next]_vars

\* Deadlines come; the runner's other steps do not block; the vECU's loop runs.
FairSpec ==
  /\ Spec
  /\ WF_vars(Deadline \/ Unblocked)
  /\ WF_vars(VecuRead)

-----------------------------------------------------------------------------
\* Between tests nothing of an earlier test is left: whatever its outcome, and with
\* commands still under way, the vECU will have read "off" for every override.
OverridesWithdrawn ==
  pc \in {"check", "start", "done"} => \A k \in Kinds : Final(k) = "off"

\* A restarted vECU is judged by its own frames: none of an earlier life is in the
\* socket, although the monitor is kept.
NoFrameOfOldLife == \A i \in DOMAIN frames : frames[i].life = life

\* Every run ends, with the vECU crashing, frames lost and preconditions failing.
RunEnds == <>(pc = "done")

\* The bench is left as it was found: from some time on a living vECU has no override.
BenchLeftClean == <>[](alive => overrides = [k \in Kinds |-> "off"])

=============================================================================
