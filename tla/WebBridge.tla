------------------------------ MODULE WebBridge ------------------------------
(***************************************************************************)
(* The dashboard's server (web/server.py): one coroutine per browser       *)
(* connection and one that reads CAN.  They share one thread; a coroutine  *)
(* runs from one await to the next, so each step below is the code between *)
(* two awaits.  The broadcast to the browsers only reads, and is left out. *)
(*                                                                         *)
(* Browsers inject and clear overrides and restart vECU and plant.  The    *)
(* processes live outside the server, which may hold a handle to them: it  *)
(* starts them with Popen, and they may also have been started by hand.    *)
(***************************************************************************)
EXTENDS Integers, Sequences, FiniteSets

CONSTANTS
  Clients,      \* browser connections
  Kinds,        \* the kinds of override the dashboard knows (_INJECT)
  Indices,      \* cells, sensors; 0 is the first
  Alive,        \* a BMS state a vECU reports once it runs (after Booting)
  MaxResets,    \* bound: restarts
  MaxInjects,   \* bound: injections
  MaxFrames,    \* bound: frames waiting in the server's socket
  MaxHistory    \* bound: entries of the history

ASSUME WebAssumption ==
  /\ IsFiniteSet(Clients) /\ Clients # {}
  /\ Kinds \subseteq {"cell_voltage", "temperature", "current"}
  /\ 0 \in Indices
  /\ Alive \in Nat \ {0}
  /\ MaxResets \in Nat /\ MaxInjects \in Nat /\ MaxFrames \in Nat /\ MaxHistory \in Nat

Booting == 0          \* UNINITIALIZED
Restarted == -1       \* state of a "--- RESTART ---" entry, and of _prev_bms_state before any
NoProc == 0           \* None
Procs == 1 .. 2 * (MaxResets + 1)   \* process ids; 1 and 2 are those started by hand
Overrides == Kinds \X Indices

VARIABLES
  vecus, plants,         \* the running processes
  vecuProc, plantProc,   \* vecu_proc, plant_proc: the handles the server holds
  started,               \* processes started so far
  overrides,             \* per process, the overrides that are set in it
  reports,               \* per vECU, the BMS state it reports
  socket,                \* frames 0x7F9 the server has not read yet
  prev,                  \* _prev_bms_state
  history,               \* state_history: state, and whether duration_ms is None
  pc,                    \* per connection, the await at which its coroutine stands
  clients,               \* ws_clients
  resets, injects,       \* bounded by MaxResets and MaxInjects
  overlapped,            \* auxiliary: the last kill fell into another restart
  failed,                \* auxiliary: the vECU could not be started after the last kill
  since                  \* auxiliary: per connection, what was injected since its clear began

procVars == <<vecus, plants, vecuProc, plantProc, started, reports>>
logVars  == <<socket, prev, history>>
auxVars  == <<overlapped, failed, since>>
vars == <<vecus, plants, vecuProc, plantProc, started, overrides, reports, socket, prev,
          history, pc, clients, resets, injects, overlapped, failed, since>>

Entry(s, open) == [state |-> s, open |-> open]
Restarting(c) == pc[c] \in {"sleep", "halfway"}

Init ==
  /\ vecus \in SUBSET {1} /\ plants \in SUBSET {2} /\ started = 2
  /\ vecuProc = NoProc /\ plantProc = NoProc
  /\ overrides = [p \in Procs |-> {}] /\ reports = [p \in Procs |-> Booting]
  /\ socket = <<>> /\ prev = Restarted /\ history = <<>>
  /\ pc = [c \in Clients |-> "away"] /\ clients = {}
  /\ resets = 0 /\ injects = 0
  /\ overlapped = FALSE /\ failed = FALSE /\ since = [c \in Clients |-> {}]

-----------------------------------------------------------------------------
(* What CAN commands do to the override tables of those that listen         *)

Without(procs, set) == [p \in Procs |-> IF p \in procs THEN overrides[p] \ set ELSE overrides[p]]
With(procs, o)      == [p \in Procs |-> IF p \in procs THEN overrides[p] \cup {o} ELSE overrides[p]]

-----------------------------------------------------------------------------
(* A browser connection: ws_handler                                         *)

At(c, from, to) == pc[c] = from /\ pc' = [pc EXCEPT ![c] = to]

Connect(c) ==
  /\ At(c, "away", "idle")
  /\ clients' = clients \cup {c}
  /\ UNCHANGED <<procVars, logVars, auxVars, overrides, resets, injects>>

\* The message loop ends and its finally clause runs.
Disconnect(c) ==
  /\ At(c, "idle", "away")
  /\ clients' = clients \ {c}
  /\ UNCHANGED <<procVars, logVars, auxVars, overrides, resets, injects>>

\* "bms_inject" and "plant_inject": SET one override in every vECU, or in every plant.
Inject(c) ==
  /\ At(c, "idle", "idle")
  /\ injects < MaxInjects /\ injects' = injects + 1
  /\ \E o \in Overrides :
       /\ \/ overrides' = With(vecus, o)
          \/ overrides' = With(plants, o)
       /\ since' = [d \in Clients |-> since[d] \cup {o}]
  /\ UNCHANGED <<procVars, logVars, clients, resets, overlapped, failed>>

\* "clear": one frame per kind, for index 0 of it, then one that clears the plant.
ClearKind(c, from, to, kind) ==
  /\ At(c, from, to)
  /\ overrides' = Without(vecus, {<<kind, 0>>})
  /\ UNCHANGED <<procVars, logVars, clients, resets, injects, overlapped, failed>>

ClearVoltage(c) ==
  ClearKind(c, "idle", "temperature", "cell_voltage") /\ since' = [since EXCEPT ![c] = {}]
ClearTemperature(c) == ClearKind(c, "temperature", "current", "temperature") /\ UNCHANGED since
ClearCurrent(c)     == ClearKind(c, "current", "plant", "current") /\ UNCHANGED since

\* a faulty variant: sub-command 0x00, which the plant does not know
ClearPlantUnknown(c) ==
  /\ At(c, "plant", "idle")
  /\ overrides' = overrides
  /\ UNCHANGED <<procVars, logVars, clients, auxVars, resets, injects>>

ClearPlant(c) ==
  /\ At(c, "plant", "idle")
  /\ overrides' = Without(plants, Overrides)
  /\ UNCHANGED <<procVars, logVars, clients, auxVars, resets, injects>>

-----------------------------------------------------------------------------
(* "reset": clear what two frames can clear, then restart_system            *)

\* 0x7E0 with all bytes 0 clears row 0 of the vECU's table, which is none of Kinds.
Reset(c) ==
  /\ At(c, "idle", "reset")
  /\ resets < MaxResets /\ resets' = resets + 1
  /\ UNCHANGED <<procVars, logVars, clients, auxVars, overrides, injects>>

ResetPlant(c) ==
  /\ At(c, "reset", "kill")
  /\ overrides' = Without(plants, Overrides)
  /\ UNCHANGED <<procVars, logVars, clients, auxVars, resets, injects>>

\* a faulty variant: without pkill, only what the server has a handle to
KillTracked(c) ==
  /\ At(c, "kill", "sleep")
  /\ vecus' = vecus \ {vecuProc} /\ plants' = plants \ {plantProc}
  /\ overrides' = [p \in Procs |-> {}] /\ reports' = [p \in Procs |-> Booting]
  /\ prev' = Restarted
  /\ overlapped' = \E d \in Clients \ {c} : Restarting(d)
  /\ failed' = FALSE
  /\ UNCHANGED <<vecuProc, plantProc, started, socket, history, clients, since, resets, injects>>

\* The processes die, tracked or not; the frames they have sent stay in the socket.
Kill(c) ==
  /\ At(c, "kill", "sleep")
  /\ vecus' = {} /\ plants' = {}
  /\ overrides' = [p \in Procs |-> {}] /\ reports' = [p \in Procs |-> Booting]
  /\ prev' = Restarted
  /\ overlapped' = \E d \in Clients \ {c} : Restarting(d)
  /\ failed' = FALSE
  /\ UNCHANGED <<vecuProc, plantProc, started, socket, history, clients, since, resets, injects>>

StartPlant(c) ==
  /\ At(c, "sleep", "halfway")
  /\ started' = started + 1
  /\ plantProc' = started' /\ plants' = plants \cup {started'}
  /\ UNCHANGED <<vecus, vecuProc, overrides, reports, logVars, clients, auxVars, resets, injects>>

\* a faulty variant: the handle is kept while it is set
StartVecuOnce(c) ==
  /\ At(c, "halfway", "idle")
  /\ started' = started + 1
  /\ vecuProc' = (IF vecuProc = NoProc THEN started' ELSE vecuProc)
  /\ vecus' = vecus \cup {started'}
  /\ history' = Append(history, Entry(Restarted, FALSE))
  /\ UNCHANGED <<plants, plantProc, overrides, reports, socket, prev, clients, auxVars,
                 resets, injects>>

StartVecu(c) ==
  /\ At(c, "halfway", "idle")
  /\ started' = started + 1
  /\ vecuProc' = started' /\ vecus' = vecus \cup {started'}
  /\ history' = Append(history, Entry(Restarted, FALSE))
  /\ UNCHANGED <<plants, plantProc, overrides, reports, socket, prev, clients, auxVars,
                 resets, injects>>

\* Popen raises (no binary): the exception ends the connection's coroutine.
StartVecuFails(c) ==
  /\ At(c, "halfway", "away")
  /\ clients' = clients \ {c}
  /\ failed' = TRUE
  /\ UNCHANGED <<procVars, overrides, logVars, overlapped, since, resets, injects>>

-----------------------------------------------------------------------------
(* can_reader, and the vECUs whose frames it reads                          *)

VecuReports(v) ==
  /\ v \in vecus /\ Len(socket) < MaxFrames
  /\ \E s \in {reports[v], Alive} :
       /\ reports' = [reports EXCEPT ![v] = s]
       /\ socket' = Append(socket, s)
  /\ UNCHANGED <<vecus, plants, vecuProc, plantProc, started, overrides, prev, history, pc,
                 clients, auxVars, resets, injects>>

CloseLast(h) ==
  IF h # <<>> /\ h[Len(h)].open THEN [h EXCEPT ![Len(h)].open = FALSE] ELSE h

\* a faulty variant: closed only where the event is logged
TrackStateQuietly(s) ==
  IF s = prev THEN UNCHANGED <<prev, history>>
  ELSE /\ prev' = s
       /\ history' = Append(IF prev >= 0 THEN CloseLast(history) ELSE history, Entry(s, TRUE))

\* _track_state
TrackState(s) ==
  IF s = prev THEN UNCHANGED <<prev, history>>
  ELSE /\ prev' = s
       /\ history' = Append(CloseLast(history), Entry(s, TRUE))

CanReader ==
  /\ socket # <<>>
  /\ Head(socket) = prev \/ Len(history) < MaxHistory
  /\ socket' = Tail(socket)
  /\ TrackState(Head(socket))
  /\ UNCHANGED <<procVars, overrides, pc, clients, auxVars, resets, injects>>

-----------------------------------------------------------------------------
Restart(c) == ResetPlant(c) \/ Kill(c) \/ StartPlant(c) \/ StartVecu(c) \/ StartVecuFails(c)
ClearRest(c) == ClearTemperature(c) \/ ClearCurrent(c) \/ ClearPlant(c)

Next ==
  \/ \E c \in Clients :
       \/ Connect(c) \/ Disconnect(c) \/ Inject(c)
       \/ ClearVoltage(c) \/ ClearRest(c)
       \/ Reset(c) \/ Restart(c)
  \/ \E v \in vecus : VecuReports(v)
  \/ CanReader

Spec == Init /\ [][Next]_vars

-----------------------------------------------------------------------------
(* Properties                                                               *)

\* Handles and running processes are processes that were started; no coroutine but those
\* of connected browsers is under way (server.py 300-352).
TypeOK ==
  /\ started \in Procs
  /\ vecus \subseteq 1 .. started /\ plants \subseteq 1 .. started
  /\ vecuProc \in {NoProc} \cup 1 .. started /\ plantProc \in {NoProc} \cup 1 .. started
  /\ \A c \in Clients : pc[c] # "away" => c \in clients

\* An entry of the history that is still shown as "(active)" is the last one, or the one
\* a restart cut off (server.py 71-87 and 113).
HistoryClosed ==
  \A i \in 1 .. Len(history) :
    history[i].open => i = Len(history) \/ history[i + 1].state = Restarted

NoneRestarts == started > 2 /\ \A c \in Clients : ~Restarting(c)

\* A restart that no other one cuts into leaves one vECU and one plant, those the server
\* has handles to, whoever had started which processes before; when the vECU could not be
\* started, the old one is gone all the same (server.py 96-113).
RestartTakesOver ==
  NoneRestarts /\ ~overlapped =>
    /\ vecus = IF failed THEN {} ELSE {vecuProc}
    /\ plants = {plantProc}

\* Restarts that do cut into each other may leave more than one vECU, but no more than
\* there are connections, and the latest is the one the server has a handle to, since each
\* kills all and then starts its own (server.py 96-113).
RestartLeavesRunning ==
  /\ Cardinality(vecus) <= Cardinality(Clients)
  /\ Cardinality(plants) <= Cardinality(Clients)
  /\ NoneRestarts => plantProc \in plants /\ (failed \/ vecuProc \in vecus)

\* When the dashboard has worked off "clear", nothing is left of the first cell and sensor,
\* of the current, or in the plant, but what was injected meanwhile (server.py 337-344).
ClearIsDone(c) == pc[c] = "plant" /\ pc'[c] = "idle"

ClearReachesFirst ==
  [][\A c \in Clients : ClearIsDone(c) =>
       /\ \A v \in vecus : {o \in overrides'[v] : o[2] = 0} \subseteq since[c]
       /\ \A p \in plants : overrides'[p] \subseteq since[c]]_vars

=============================================================================
