------------------------------ MODULE WebProofs ------------------------------
(***************************************************************************)
(* The dashboard's server, proved for any number of browsers and restarts. *)
(*                                                                         *)
(* What a restart leaves depends on how many coroutines are between the    *)
(* kill and the start of their processes: each of them owes one plant      *)
(* (while it sleeps) and one vECU, and no other step adds a process.       *)
(***************************************************************************)
EXTENDS WebBridge, FiniteSetTheorems, SequenceTheorems, TLAPS

Places == {"away", "idle", "temperature", "current", "plant", "reset", "kill", "sleep", "halfway"}
InRestart == {"sleep", "halfway"}
Where(P) == {c \in Clients : pc[c] \in P}

\* How a step of one coroutine changes the number of those that stand somewhere.
LEMMA MoveChangesCount ==
  ASSUME pc \in [Clients -> Places], NEW c \in Clients, NEW to \in Places, NEW P,
         pc' = [pc EXCEPT ![c] = to]
  PROVE  /\ Cardinality(Where(P)) \in Nat /\ Cardinality(Where(P))' \in Nat
         /\ Cardinality(Where(P))' =
              Cardinality(Where(P)) + (IF to \in P THEN 1 ELSE 0) - (IF pc[c] \in P THEN 1 ELSE 0)
<1> DEFINE W == {d \in Clients : pc[d] \in P}
           V == {d \in Clients : pc'[d] \in P}
<1>1. IsFiniteSet(Clients)
  BY WebAssumption
<1>2. IsFiniteSet(W) /\ Cardinality(W) \in Nat /\ IsFiniteSet(V) /\ Cardinality(V) \in Nat
  <2>1. W \in SUBSET Clients /\ V \in SUBSET Clients
    OBVIOUS
  <2> HIDE DEF W, V
  <2> QED BY <1>1, <2>1, FS_Subset, FS_CardinalityType
<1>3. (c \in W <=> pc[c] \in P) /\ (c \in V <=> to \in P)
  OBVIOUS
<1>4. CASE to \in P
  <2>1. V = W \cup {c}
    BY <1>4
  <2> HIDE DEF W, V
  <2>2. Cardinality(V) = IF c \in W THEN Cardinality(W) ELSE Cardinality(W) + 1
    BY <1>2, <2>1, FS_AddElement
  <2>3. Cardinality(V) = Cardinality(W) + (IF to \in P THEN 1 ELSE 0) - (IF pc[c] \in P THEN 1 ELSE 0)
    BY <1>2, <1>3, <1>4, <2>2
  <2> QED BY <1>2, <2>3 DEF Where, W, V
<1>5. CASE to \notin P
  <2>1. V = W \ {c}
    BY <1>5
  <2> HIDE DEF W, V
  <2>2. Cardinality(V) = IF c \in W THEN Cardinality(W) - 1 ELSE Cardinality(W)
    BY <1>2, <2>1, FS_RemoveElement
  <2>3. Cardinality(V) = Cardinality(W) + (IF to \in P THEN 1 ELSE 0) - (IF pc[c] \in P THEN 1 ELSE 0)
    BY <1>2, <1>3, <1>5, <2>2
  <2> QED BY <1>2, <2>3 DEF Where, W, V
<1> QED BY <1>4, <1>5

\* The coroutines that stand somewhere are a finite set.
LEMMA WhereIsFinite ==
  ASSUME NEW P
  PROVE  IsFiniteSet(Where(P)) /\ Cardinality(Where(P)) \in Nat
         /\ Cardinality(Where(P)) <= Cardinality(Clients) /\ Cardinality(Clients) \in Nat
<1>1. IsFiniteSet(Clients) /\ Where(P) \in SUBSET Clients
  BY WebAssumption DEF Where
<1> QED BY <1>1, FS_Subset, FS_CardinalityType

-----------------------------------------------------------------------------
(* Types and the count of processes                                         *)

\* The restarts that still owe a plant, and those that still owe a vECU.
OwePlant == {"reset", "kill", "sleep"}
OweVecu  == OwePlant \cup InRestart

Entries == [state : Int, open : BOOLEAN]

\* Types, and a process id for every process that is owed.
Typed ==
  /\ pc \in [Clients -> Places]
  /\ clients \subseteq Clients /\ \A c \in Clients : pc[c] # "away" => c \in clients
  /\ started \in Nat /\ started >= 2 /\ resets \in 0 .. MaxResets
  /\ started + Cardinality(Where(OwePlant)) + Cardinality(Where(OweVecu)) <= 2 + 2 * resets
  /\ vecus \subseteq 1 .. started /\ plants \subseteq 1 .. started
  /\ vecuProc \in {NoProc} \cup 1 .. started /\ plantProc \in {NoProc} \cup 1 .. started
  /\ reports \in [Procs -> Int] /\ socket \in Seq(Int)
  /\ prev \in Int /\ history \in Seq(Entries)

\* There is a process id left for every process that is started.
LEMMA TypedBounds == Typed => started \in Procs /\ 1 .. started \subseteq Procs
<1>1. ASSUME Typed PROVE started <= 2 * (MaxResets + 1) /\ started \in Nat /\ started >= 2
  <2>1. MaxResets \in Nat
    BY WebAssumption
  <2>2. Cardinality(Where(OwePlant)) \in Nat /\ Cardinality(Where(OweVecu)) \in Nat
    BY WhereIsFinite
  <2> QED BY <1>1, <2>1, <2>2 DEF Typed
<1>2. MaxResets \in Nat
  BY WebAssumption
<1> QED BY <1>1, <1>2 DEF Procs

LEMMA TypedInit == Init => Typed
<1> SUFFICES ASSUME Init PROVE Typed
  OBVIOUS
<1>1. MaxResets \in Nat
  BY WebAssumption
<1>2. pc \in [Clients -> Places] /\ \A c \in Clients : pc[c] = "away"
  BY DEF Init, Places
<1>3. Where(OwePlant) = {} /\ Where(OweVecu) = {}
  BY <1>2 DEF Where, OwePlant, OweVecu, InRestart
<1>4. Cardinality(Where(OwePlant)) = 0 /\ Cardinality(Where(OweVecu)) = 0
  BY <1>3, FS_EmptySet
<1>5. reports \in [Procs -> Int] /\ socket \in Seq(Int) /\ prev \in Int
      /\ history \in Seq(Entries)
  BY DEF Init, Booting, Restarted
<1>6. clients = {} /\ started = 2 /\ resets = 0 /\ vecuProc = NoProc /\ plantProc = NoProc
      /\ vecus \subseteq {1} /\ plants \subseteq {2}
  BY DEF Init
<1>7. started + Cardinality(Where(OwePlant)) + Cardinality(Where(OweVecu)) <= 2 + 2 * resets
  BY <1>4, <1>6
<1>8. vecus \subseteq 1 .. started /\ plants \subseteq 1 .. started
  BY <1>6
<1> QED BY <1>1, <1>2, <1>5, <1>6, <1>7, <1>8 DEF Typed

\* A step of a coroutine that neither starts nor kills a process, nor reads CAN.
LEMMA MoveKeepsTyped ==
  ASSUME Typed, NEW c \in Clients, NEW to \in Places, pc' = [pc EXCEPT ![c] = to],
         pc[c] \in OwePlant <=> to \in OwePlant, to \in OweVecu => pc[c] \in OweVecu,
         clients' \subseteq Clients,
         \A d \in Clients : pc'[d] # "away" => d \in clients',
         UNCHANGED <<procVars, logVars, resets>>
  PROVE  Typed'
<1>1. pc' \in [Clients -> Places]
  BY DEF Typed
<1>2. started' = started /\ resets' = resets /\ started \in Nat /\ resets \in 0 .. MaxResets
  BY DEF procVars, Typed
<1>3. MaxResets \in Nat
  BY WebAssumption
<1>4. started' + Cardinality(Where(OwePlant))' + Cardinality(Where(OweVecu))' <= 2 + 2 * resets'
  <2> DEFINE a == Cardinality(Where(OwePlant))
             b == Cardinality(Where(OweVecu))
  <2>1. a \in Nat /\ a' \in Nat
        /\ a' = a + (IF to \in OwePlant THEN 1 ELSE 0) - (IF pc[c] \in OwePlant THEN 1 ELSE 0)
    BY MoveChangesCount DEF Typed
  <2>2. b \in Nat /\ b' \in Nat
        /\ b' = b + (IF to \in OweVecu THEN 1 ELSE 0) - (IF pc[c] \in OweVecu THEN 1 ELSE 0)
    BY MoveChangesCount DEF Typed
  <2>3. started + a + b <= 2 + 2 * resets
    BY DEF Typed
  <2> HIDE DEF a, b
  <2>4. started' + a' + b' <= 2 + 2 * resets'
    BY <1>2, <1>3, <2>1, <2>2, <2>3
  <2> QED BY <2>4 DEF a, b
<1> QED BY <1>1, <1>2, <1>4 DEF Typed, procVars, logVars

\* What the steps of a coroutine owe: the kill adds nothing to the debt, each start pays one.
LEMMA DebtOfMove ==
  ASSUME Typed, NEW c \in Clients, NEW to \in Places, pc' = [pc EXCEPT ![c] = to]
  PROVE  /\ pc' \in [Clients -> Places]
         /\ Cardinality(Where(OwePlant)) \in Nat /\ Cardinality(Where(OwePlant))' \in Nat
         /\ Cardinality(Where(OweVecu)) \in Nat /\ Cardinality(Where(OweVecu))' \in Nat
         /\ Cardinality(Where(OwePlant))' = Cardinality(Where(OwePlant))
              + (IF to \in OwePlant THEN 1 ELSE 0) - (IF pc[c] \in OwePlant THEN 1 ELSE 0)
         /\ Cardinality(Where(OweVecu))' = Cardinality(Where(OweVecu))
              + (IF to \in OweVecu THEN 1 ELSE 0) - (IF pc[c] \in OweVecu THEN 1 ELSE 0)
<1>1. pc \in [Clients -> Places] /\ pc' \in [Clients -> Places]
  BY DEF Typed
<1>2. /\ Cardinality(Where(OwePlant)) \in Nat /\ Cardinality(Where(OwePlant))' \in Nat
      /\ Cardinality(Where(OwePlant))' = Cardinality(Where(OwePlant))
           + (IF to \in OwePlant THEN 1 ELSE 0) - (IF pc[c] \in OwePlant THEN 1 ELSE 0)
  BY <1>1, MoveChangesCount
<1>3. /\ Cardinality(Where(OweVecu)) \in Nat /\ Cardinality(Where(OweVecu))' \in Nat
      /\ Cardinality(Where(OweVecu))' = Cardinality(Where(OweVecu))
           + (IF to \in OweVecu THEN 1 ELSE 0) - (IF pc[c] \in OweVecu THEN 1 ELSE 0)
  BY <1>1, MoveChangesCount
<1> QED BY <1>1, <1>2, <1>3

\* Closing the last entry of a history keeps its state and all other entries.
LEMMA ClosesOnlyLast ==
  ASSUME NEW h \in Seq(Entries)
  PROVE  /\ CloseLast(h) \in Seq(Entries) /\ Len(CloseLast(h)) = Len(h)
         /\ \A i \in 1 .. Len(h) : /\ CloseLast(h)[i].state = h[i].state
                                   /\ i # Len(h) => CloseLast(h)[i] = h[i]
                                   /\ i = Len(h) => ~CloseLast(h)[i].open
<1>1. CASE h # <<>> /\ h[Len(h)].open
  <2> DEFINE n == Len(h)
             e == [h[n] EXCEPT !.open = FALSE]
  <2>1. n \in 1 .. n /\ h[n] \in Entries
    BY <1>1
  <2>2. e \in Entries /\ e.state = h[n].state /\ ~e.open
    BY <2>1 DEF Entries
  <2>3. CloseLast(h) = [h EXCEPT ![n] = e]
    BY <1>1 DEF CloseLast
  <2> HIDE DEF e
  <2>4. /\ [h EXCEPT ![n] = e] \in Seq(Entries) /\ Len([h EXCEPT ![n] = e]) = Len(h)
        /\ \A i \in 1 .. Len(h) : [h EXCEPT ![n] = e][i] = IF i = n THEN e ELSE h[i]
    BY <2>1, <2>2, ExceptSeq
  <2> QED BY <2>2, <2>3, <2>4
<1>2. CASE ~(h # <<>> /\ h[Len(h)].open)
  <2>1. CloseLast(h) = h
    BY <1>2 DEF CloseLast
  <2>2. \A i \in 1 .. Len(h) : i = Len(h) => ~h[i].open
    BY <1>2
  <2> QED BY <2>1, <2>2
<1> QED BY <1>1, <1>2

LEMMA TypedStep == Typed /\ [Next]_vars => Typed'
<1> SUFFICES ASSUME Typed, [Next]_vars PROVE Typed'
  OBVIOUS
<1>0. MaxResets \in Nat /\ Alive \in Int
  BY WebAssumption
<1>1. ASSUME NEW c \in Clients, Connect(c) \/ Disconnect(c) \/ Inject(c) \/ ClearVoltage(c)
                \/ ClearTemperature(c) \/ ClearCurrent(c) \/ ClearPlant(c) \/ ResetPlant(c)
                \/ StartVecuFails(c)
      PROVE  Typed'
  <2>1. CASE Connect(c)
    <3>1. pc' = [pc EXCEPT ![c] = "idle"] /\ pc[c] = "away" /\ clients' = clients \cup {c}
          /\ UNCHANGED <<procVars, logVars, resets>>
      BY <2>1 DEF Connect, At
    <3> QED BY <3>1, MoveKeepsTyped DEF Typed, Places, OwePlant, OweVecu, InRestart
  <2>2. CASE Disconnect(c)
    <3>1. pc' = [pc EXCEPT ![c] = "away"] /\ pc[c] = "idle" /\ clients' = clients \ {c}
          /\ UNCHANGED <<procVars, logVars, resets>>
      BY <2>2 DEF Disconnect, At
    <3> QED BY <3>1, MoveKeepsTyped DEF Typed, Places, OwePlant, OweVecu, InRestart
  <2>3. CASE StartVecuFails(c)
    <3>1. pc' = [pc EXCEPT ![c] = "away"] /\ pc[c] = "halfway" /\ clients' = clients \ {c}
          /\ UNCHANGED <<procVars, logVars, resets>>
      BY <2>3 DEF StartVecuFails, At
    <3> QED BY <3>1, MoveKeepsTyped DEF Typed, Places, OwePlant, OweVecu, InRestart
  <2>4. ASSUME NEW to \in Places, At(c, pc[c], to), pc[c] # "away",
               pc[c] \in OwePlant <=> to \in OwePlant, to \in OweVecu => pc[c] \in OweVecu,
               UNCHANGED <<procVars, logVars, clients, resets>>
        PROVE  Typed'
    <3>1. pc' = [pc EXCEPT ![c] = to]
      BY <2>4 DEF At
    <3>2. \A d \in Clients : pc'[d] # "away" => d \in clients'
      BY <2>4, <3>1 DEF Typed
    <3>3. clients' \subseteq Clients /\ UNCHANGED <<procVars, logVars, resets>>
      BY <2>4 DEF Typed
    <3> QED BY <2>4, <3>1, <3>2, <3>3, MoveKeepsTyped
  <2>5. CASE Inject(c)
    BY <2>4, <2>5 DEF Inject, At, Places, OwePlant, OweVecu, InRestart
  <2>6. CASE ClearVoltage(c)
    BY <2>4, <2>6 DEF ClearVoltage, ClearKind, At, Places, OwePlant, OweVecu, InRestart
  <2>7. CASE ClearTemperature(c)
    BY <2>4, <2>7 DEF ClearTemperature, ClearKind, At, Places, OwePlant, OweVecu, InRestart
  <2>8. CASE ClearCurrent(c)
    BY <2>4, <2>8 DEF ClearCurrent, ClearKind, At, Places, OwePlant, OweVecu, InRestart
  <2>9. CASE ClearPlant(c)
    BY <2>4, <2>9 DEF ClearPlant, At, Places, OwePlant, OweVecu, InRestart
  <2>10. CASE ResetPlant(c)
    BY <2>4, <2>10 DEF ResetPlant, At, Places, OwePlant, OweVecu, InRestart
  <2> QED BY <1>1, <2>1, <2>2, <2>3, <2>5, <2>6, <2>7, <2>8, <2>9, <2>10
<1>2. ASSUME NEW c \in Clients, Reset(c) PROVE Typed'
  <2>1. pc[c] = "idle" /\ pc' = [pc EXCEPT ![c] = "reset"]
    BY <1>2 DEF Reset, At
  <2>2. resets' = resets + 1 /\ resets < MaxResets /\ UNCHANGED <<procVars, logVars, clients>>
    BY <1>2 DEF Reset
  <2>3. /\ pc' \in [Clients -> Places]
        /\ Cardinality(Where(OwePlant))' = Cardinality(Where(OwePlant)) + 1
        /\ Cardinality(Where(OweVecu))' = Cardinality(Where(OweVecu)) + 1
        /\ Cardinality(Where(OwePlant)) \in Nat /\ Cardinality(Where(OweVecu)) \in Nat
    <3>1. "reset" \in Places
      BY DEF Places
    <3>2. /\ "idle" \notin OwePlant /\ "reset" \in OwePlant
          /\ "idle" \notin OweVecu /\ "reset" \in OweVecu
      BY DEF OwePlant, OweVecu, InRestart
    <3>3. /\ pc' \in [Clients -> Places]
          /\ Cardinality(Where(OwePlant)) \in Nat /\ Cardinality(Where(OwePlant))' \in Nat
          /\ Cardinality(Where(OweVecu)) \in Nat /\ Cardinality(Where(OweVecu))' \in Nat
          /\ Cardinality(Where(OwePlant))' = Cardinality(Where(OwePlant))
               + (IF "reset" \in OwePlant THEN 1 ELSE 0) - (IF pc[c] \in OwePlant THEN 1 ELSE 0)
          /\ Cardinality(Where(OweVecu))' = Cardinality(Where(OweVecu))
               + (IF "reset" \in OweVecu THEN 1 ELSE 0) - (IF pc[c] \in OweVecu THEN 1 ELSE 0)
      BY ONLY Typed, c \in Clients, <2>1, <3>1, DebtOfMove
    <3> QED BY ONLY <2>1, <3>2, <3>3
  <2>4. started' = started /\ started \in Nat /\ resets \in 0 .. MaxResets
        /\ started + Cardinality(Where(OwePlant)) + Cardinality(Where(OweVecu)) <= 2 + 2 * resets
    BY <2>2 DEF procVars, Typed
  <2>5. /\ resets' \in 0 .. MaxResets
        /\ started' + Cardinality(Where(OwePlant))' + Cardinality(Where(OweVecu))' <= 2 + 2 * resets'
    BY <1>0, <2>2, <2>3, <2>4
  <2>6. \A d \in Clients : pc'[d] # "away" => d \in clients'
    BY <2>1, <2>2 DEF Typed
  <2> QED BY <2>2, <2>3, <2>5, <2>6 DEF Typed, procVars, logVars
<1>3. ASSUME NEW c \in Clients, Kill(c) PROVE Typed'
  <2>1. pc[c] = "kill" /\ pc' = [pc EXCEPT ![c] = "sleep"]
    BY <1>3 DEF Kill, At
  <2>2. /\ vecus' = {} /\ plants' = {} /\ reports' \in [Procs -> Int] /\ prev' \in Int
        /\ UNCHANGED <<vecuProc, plantProc, started, socket, history, clients, resets>>
    BY <1>3 DEF Kill, Booting, Restarted
  <2>3. /\ pc' \in [Clients -> Places]
        /\ Cardinality(Where(OwePlant))' = Cardinality(Where(OwePlant))
        /\ Cardinality(Where(OweVecu))' = Cardinality(Where(OweVecu))
    <3>1. "sleep" \in Places
      BY DEF Places
    <3>2. /\ "kill" \in OwePlant /\ "sleep" \in OwePlant
          /\ "kill" \in OweVecu /\ "sleep" \in OweVecu
      BY DEF OwePlant, OweVecu, InRestart
    <3>3. /\ pc' \in [Clients -> Places]
          /\ Cardinality(Where(OwePlant)) \in Nat /\ Cardinality(Where(OwePlant))' \in Nat
          /\ Cardinality(Where(OweVecu)) \in Nat /\ Cardinality(Where(OweVecu))' \in Nat
          /\ Cardinality(Where(OwePlant))' = Cardinality(Where(OwePlant))
               + (IF "sleep" \in OwePlant THEN 1 ELSE 0) - (IF pc[c] \in OwePlant THEN 1 ELSE 0)
          /\ Cardinality(Where(OweVecu))' = Cardinality(Where(OweVecu))
               + (IF "sleep" \in OweVecu THEN 1 ELSE 0) - (IF pc[c] \in OweVecu THEN 1 ELSE 0)
      BY ONLY Typed, c \in Clients, <2>1, <3>1, DebtOfMove
    <3> QED BY ONLY <2>1, <3>2, <3>3
  <2>4. started' + Cardinality(Where(OwePlant))' + Cardinality(Where(OweVecu))' <= 2 + 2 * resets'
    BY <2>2, <2>3 DEF Typed
  <2>5. \A d \in Clients : pc'[d] # "away" => d \in clients'
    BY <2>1, <2>2 DEF Typed
  <2> QED BY <2>2, <2>3, <2>4, <2>5 DEF Typed
<1>4. ASSUME NEW c \in Clients, StartPlant(c) PROVE Typed'
  <2>1. pc[c] = "sleep" /\ pc' = [pc EXCEPT ![c] = "halfway"]
    BY <1>4 DEF StartPlant, At
  <2>2. /\ started' = started + 1 /\ plantProc' = started' /\ plants' = plants \cup {started'}
        /\ UNCHANGED <<vecus, vecuProc, reports, logVars, clients, resets>>
    BY <1>4 DEF StartPlant
  <2>3. /\ pc' \in [Clients -> Places]
        /\ Cardinality(Where(OwePlant))' = Cardinality(Where(OwePlant)) - 1
        /\ Cardinality(Where(OweVecu))' = Cardinality(Where(OweVecu))
        /\ Cardinality(Where(OwePlant)) \in Nat /\ Cardinality(Where(OweVecu)) \in Nat
    <3>1. "halfway" \in Places
      BY DEF Places
    <3>2. /\ "sleep" \in OwePlant /\ "halfway" \notin OwePlant
          /\ "sleep" \in OweVecu /\ "halfway" \in OweVecu
      BY DEF OwePlant, OweVecu, InRestart
    <3>3. /\ pc' \in [Clients -> Places]
          /\ Cardinality(Where(OwePlant)) \in Nat /\ Cardinality(Where(OwePlant))' \in Nat
          /\ Cardinality(Where(OweVecu)) \in Nat /\ Cardinality(Where(OweVecu))' \in Nat
          /\ Cardinality(Where(OwePlant))' = Cardinality(Where(OwePlant))
               + (IF "halfway" \in OwePlant THEN 1 ELSE 0) - (IF pc[c] \in OwePlant THEN 1 ELSE 0)
          /\ Cardinality(Where(OweVecu))' = Cardinality(Where(OweVecu))
               + (IF "halfway" \in OweVecu THEN 1 ELSE 0) - (IF pc[c] \in OweVecu THEN 1 ELSE 0)
      BY ONLY Typed, c \in Clients, <2>1, <3>1, DebtOfMove
    <3> QED BY ONLY <2>1, <3>2, <3>3
  <2>4. started \in Nat /\ started >= 2 /\ resets \in 0 .. MaxResets
        /\ started + Cardinality(Where(OwePlant)) + Cardinality(Where(OweVecu)) <= 2 + 2 * resets
    BY DEF Typed
  <2>5. /\ started' \in Nat /\ started' >= 2
        /\ started' + Cardinality(Where(OwePlant))' + Cardinality(Where(OweVecu))' <= 2 + 2 * resets'
    BY <1>0, <2>2, <2>3, <2>4
  <2>6. \A d \in Clients : pc'[d] # "away" => d \in clients'
    BY <2>1, <2>2 DEF Typed
  <2>7. 1 .. started \subseteq 1 .. started' /\ started' \in 1 .. started'
    BY <2>2, <2>4
  <2> QED BY <2>2, <2>3, <2>5, <2>6, <2>7 DEF Typed, logVars
<1>5. ASSUME NEW c \in Clients, StartVecu(c) PROVE Typed'
  <2>1. pc[c] = "halfway" /\ pc' = [pc EXCEPT ![c] = "idle"]
    BY <1>5 DEF StartVecu, At
  <2>2. /\ started' = started + 1 /\ vecuProc' = started' /\ vecus' = vecus \cup {started'}
        /\ history' = Append(history, Entry(Restarted, FALSE))
        /\ UNCHANGED <<plants, plantProc, reports, socket, prev, clients, resets>>
    BY <1>5 DEF StartVecu
  <2>3. /\ pc' \in [Clients -> Places]
        /\ Cardinality(Where(OwePlant))' = Cardinality(Where(OwePlant))
        /\ Cardinality(Where(OweVecu))' = Cardinality(Where(OweVecu)) - 1
        /\ Cardinality(Where(OwePlant)) \in Nat /\ Cardinality(Where(OweVecu)) \in Nat
    <3>1. "idle" \in Places
      BY DEF Places
    <3>2. /\ "halfway" \notin OwePlant /\ "idle" \notin OwePlant
          /\ "halfway" \in OweVecu /\ "idle" \notin OweVecu
      BY DEF OwePlant, OweVecu, InRestart
    <3>3. /\ pc' \in [Clients -> Places]
          /\ Cardinality(Where(OwePlant)) \in Nat /\ Cardinality(Where(OwePlant))' \in Nat
          /\ Cardinality(Where(OweVecu)) \in Nat /\ Cardinality(Where(OweVecu))' \in Nat
          /\ Cardinality(Where(OwePlant))' = Cardinality(Where(OwePlant))
               + (IF "idle" \in OwePlant THEN 1 ELSE 0) - (IF pc[c] \in OwePlant THEN 1 ELSE 0)
          /\ Cardinality(Where(OweVecu))' = Cardinality(Where(OweVecu))
               + (IF "idle" \in OweVecu THEN 1 ELSE 0) - (IF pc[c] \in OweVecu THEN 1 ELSE 0)
      BY ONLY Typed, c \in Clients, <2>1, <3>1, DebtOfMove
    <3> QED BY ONLY <2>1, <3>2, <3>3
  <2>4. started \in Nat /\ started >= 2 /\ resets \in 0 .. MaxResets
        /\ started + Cardinality(Where(OwePlant)) + Cardinality(Where(OweVecu)) <= 2 + 2 * resets
    BY DEF Typed
  <2>5. /\ started' \in Nat /\ started' >= 2
        /\ started' + Cardinality(Where(OwePlant))' + Cardinality(Where(OweVecu))' <= 2 + 2 * resets'
    BY <1>0, <2>2, <2>3, <2>4
  <2>6. \A d \in Clients : pc'[d] # "away" => d \in clients'
    BY <2>1, <2>2 DEF Typed
  <2>7. 1 .. started \subseteq 1 .. started' /\ started' \in 1 .. started'
    BY <2>2, <2>4
  <2>8. history' \in Seq(Entries)
    <3>1. Entry(Restarted, FALSE) \in Entries /\ history \in Seq(Entries)
      BY DEF Typed, Entry, Restarted, Entries
    <3> QED BY ONLY <2>2, <3>1, AppendProperties
  <2> QED BY <2>2, <2>3, <2>5, <2>6, <2>7, <2>8 DEF Typed
<1>6. ASSUME NEW v \in vecus, VecuReports(v) PROVE Typed'
  <2>1. PICK s \in {reports[v], Alive} :
          reports' = [reports EXCEPT ![v] = s] /\ socket' = Append(socket, s)
    BY <1>6 DEF VecuReports
  <2>2. v \in Procs
    BY TypedBounds DEF Typed
  <2>3. s \in Int
    BY <1>0, <2>1, <2>2 DEF Typed
  <2>4. reports' \in [Procs -> Int] /\ socket' \in Seq(Int)
    <3>1. reports \in [Procs -> Int] /\ socket \in Seq(Int)
      BY DEF Typed
    <3>2. Append(socket, s) \in Seq(Int)
      BY ONLY <2>3, <3>1, AppendProperties
    <3> QED BY ONLY <2>1, <2>3, <3>1, <3>2
  <2>5. UNCHANGED <<vecus, plants, vecuProc, plantProc, started, prev, history, pc, clients, resets>>
    BY <1>6 DEF VecuReports
  <2> QED BY <2>4, <2>5 DEF Typed, Where
<1>7. ASSUME CanReader PROVE Typed'
  <2>1. socket \in Seq(Int) /\ socket # <<>>
    BY <1>7 DEF CanReader, Typed
  <2>2. Head(socket) \in Int /\ Tail(socket) \in Seq(Int)
    BY <2>1
  <2>3. socket' \in Seq(Int) /\ UNCHANGED <<procVars, pc, clients, resets>>
    BY <1>7, <2>2 DEF CanReader
  <2>4. prev' \in Int /\ history' \in Seq(Entries)
    <3>1. CASE Head(socket) = prev
      BY <1>7, <3>1 DEF CanReader, TrackState, Typed
    <3>2. CASE Head(socket) # prev
      <4>1. prev' = Head(socket) /\ history' = Append(CloseLast(history), Entry(Head(socket), TRUE))
        BY <1>7, <3>2 DEF CanReader, TrackState
      <4>2. CloseLast(history) \in Seq(Entries)
        BY ClosesOnlyLast DEF Typed
      <4>3. Entry(Head(socket), TRUE) \in Entries
        BY <2>2 DEF Entry, Entries
      <4>4. Append(CloseLast(history), Entry(Head(socket), TRUE)) \in Seq(Entries)
        BY ONLY <4>2, <4>3, AppendProperties
      <4> QED BY <2>2, <4>1, <4>4
    <3> QED BY <3>1, <3>2
  <2> QED BY <2>3, <2>4 DEF Typed, procVars, Where
<1>8. CASE UNCHANGED vars
  BY <1>8 DEF vars, Typed, Where
<1> QED BY <1>1, <1>2, <1>3, <1>4, <1>5, <1>6, <1>7, <1>8 DEF Next, Restart, ClearRest

\* Every reachable state of the server is well typed, for any number of browsers and restarts.
THEOREM WebTypeCorrect == Spec => []TypeOK
<1>1. Typed => TypeOK
  BY TypedBounds DEF Typed, TypeOK
<1> QED BY <1>1, TypedInit, TypedStep, PTL DEF Spec

\* No step but Kill, StartPlant and the two ends of a restart moves a coroutine into or out of
\* the part of a restart that follows the kill.
RestartStep(c) == Kill(c) \/ StartPlant(c) \/ StartVecu(c) \/ StartVecuFails(c)

LEMMA OthersKeepRestarts ==
  ASSUME Typed, [Next]_vars
  PROVE  \/ \E c \in Clients : RestartStep(c)
         \/ /\ \A c \in Clients : \A a \in InRestart : pc'[c] = a <=> pc[c] = a
            /\ UNCHANGED <<vecus, plants, vecuProc, plantProc, started, overlapped, failed>>
<1> DEFINE Goal == /\ \A c \in Clients : \A a \in InRestart : pc'[c] = a <=> pc[c] = a
                   /\ UNCHANGED <<vecus, plants, vecuProc, plantProc, started, overlapped, failed>>
<1>0. pc \in [Clients -> Places]
  BY DEF Typed
<1>1. ASSUME NEW c \in Clients, NEW from, NEW to, At(c, from, to), from \notin InRestart,
             to \notin InRestart,
             UNCHANGED <<vecus, plants, vecuProc, plantProc, started, overlapped, failed>>
      PROVE  Goal
  BY <1>0, <1>1 DEF At
<1>2. ASSUME NEW c \in Clients, Connect(c) \/ Disconnect(c) \/ Inject(c) PROVE Goal
  <2>1. UNCHANGED <<vecus, plants, vecuProc, plantProc, started, overlapped, failed>>
    BY <1>2 DEF Connect, Disconnect, Inject, procVars, auxVars
  <2>2. At(c, "away", "idle") \/ At(c, "idle", "away") \/ At(c, "idle", "idle")
    BY <1>2 DEF Connect, Disconnect, Inject
  <2> QED BY <1>1, <2>1, <2>2 DEF InRestart
<1>3. ASSUME NEW c \in Clients, ClearVoltage(c) \/ ClearRest(c) PROVE Goal
  <2>1. UNCHANGED <<vecus, plants, vecuProc, plantProc, started, overlapped, failed>>
    BY <1>3 DEF ClearVoltage, ClearRest, ClearTemperature, ClearCurrent, ClearKind, ClearPlant,
                procVars, auxVars
  <2>2. \/ At(c, "idle", "temperature") \/ At(c, "temperature", "current")
        \/ At(c, "current", "plant") \/ At(c, "plant", "idle")
    BY <1>3 DEF ClearVoltage, ClearRest, ClearTemperature, ClearCurrent, ClearKind, ClearPlant
  <2> QED BY <1>1, <2>1, <2>2 DEF InRestart
<1>4. ASSUME NEW c \in Clients, Reset(c) \/ ResetPlant(c) PROVE Goal
  <2>1. UNCHANGED <<vecus, plants, vecuProc, plantProc, started, overlapped, failed>>
    BY <1>4 DEF Reset, ResetPlant, procVars, auxVars
  <2>2. At(c, "idle", "reset") \/ At(c, "reset", "kill")
    BY <1>4 DEF Reset, ResetPlant
  <2> QED BY <1>1, <2>1, <2>2 DEF InRestart
<1>5. ASSUME NEW v \in vecus, VecuReports(v) PROVE Goal
  BY <1>5 DEF VecuReports, auxVars
<1>6. CASE CanReader
  BY <1>6 DEF CanReader, procVars, auxVars
<1>7. CASE UNCHANGED vars
  BY <1>7 DEF vars
<1> QED BY <1>2, <1>3, <1>4, <1>5, <1>6, <1>7 DEF Next, Restart, RestartStep

-----------------------------------------------------------------------------
(* Restarts that are not cut into                                            *)

\* Nobody else is past the kill, and what this restart has killed and started so far is
\* all there is.
Alone ==
  ~overlapped =>
    /\ \A c, d \in Clients : Restarting(c) /\ Restarting(d) => c = d
    /\ \A c \in Clients : pc[c] = "sleep" => vecus = {} /\ plants = {} /\ ~failed
    /\ \A c \in Clients : pc[c] = "halfway" => vecus = {} /\ plants = {plantProc} /\ ~failed

LEMMA AloneStep ==
  ASSUME Typed, Alone, RestartTakesOver, [Next]_vars
  PROVE  Alone' /\ RestartTakesOver'
<1>0. pc \in [Clients -> Places]
  BY DEF Typed
<1>1. ASSUME NEW c \in Clients, Kill(c) PROVE Alone' /\ RestartTakesOver'
  <2>1. /\ pc' = [pc EXCEPT ![c] = "sleep"] /\ vecus' = {} /\ plants' = {} /\ failed' = FALSE
        /\ overlapped' = \E d \in Clients \ {c} : Restarting(d)
    BY <1>1 DEF Kill, At
  <2>2. Restarting(c)'
    BY <1>0, <2>1 DEF Restarting
  <2>3. ~overlapped' => \A d \in Clients : Restarting(d)' => d = c
    BY <1>0, <2>1 DEF Restarting
  <2>4. pc'[c] = "sleep" /\ \A d \in Clients : pc'[d] = "halfway" => Restarting(d)'
    BY <1>0, <2>1 DEF Restarting
  <2>5. Alone'
    BY <2>1, <2>3, <2>4 DEF Alone
  <2>6. ~NoneRestarts'
    BY <2>2 DEF NoneRestarts
  <2> QED BY <2>5, <2>6 DEF RestartTakesOver
<1>2. ASSUME NEW c \in Clients, StartPlant(c) PROVE Alone' /\ RestartTakesOver'
  <2>1. /\ pc[c] = "sleep" /\ pc' = [pc EXCEPT ![c] = "halfway"]
        /\ plantProc' = started' /\ plants' = plants \cup {started'}
        /\ UNCHANGED <<vecus, overlapped, failed>>
    BY <1>2 DEF StartPlant, At, auxVars
  <2>2. Restarting(c) /\ Restarting(c)' /\ pc'[c] = "halfway"
        /\ \A d \in Clients \ {c} : pc'[d] = pc[d]
    BY <1>0, <2>1 DEF Restarting
  <2>3. ~overlapped => /\ \A d \in Clients : Restarting(d) => d = c
                       /\ vecus = {} /\ plants = {} /\ ~failed
    BY <2>1, <2>2 DEF Alone
  <2>4. ~overlapped' => /\ \A d \in Clients : Restarting(d)' => d = c
                        /\ vecus' = {} /\ plants' = {plantProc'} /\ ~failed'
    BY <2>1, <2>2, <2>3 DEF Restarting
  <2>5. Alone'
    BY <2>2, <2>4 DEF Alone, Restarting
  <2>6. ~NoneRestarts'
    BY <2>2 DEF NoneRestarts
  <2> QED BY <2>5, <2>6 DEF RestartTakesOver
<1>3. ASSUME NEW c \in Clients, StartVecu(c) PROVE Alone' /\ RestartTakesOver'
  <2>1. /\ pc[c] = "halfway" /\ pc' = [pc EXCEPT ![c] = "idle"]
        /\ vecuProc' = started' /\ vecus' = vecus \cup {started'}
        /\ UNCHANGED <<plants, plantProc, overlapped, failed>>
    BY <1>3 DEF StartVecu, At, auxVars
  <2>2. Restarting(c) /\ \A d \in Clients \ {c} : pc'[d] = pc[d] /\ pc'[c] = "idle"
    BY <1>0, <2>1 DEF Restarting
  <2>3. ~overlapped => /\ \A d \in Clients : Restarting(d) => d = c
                       /\ vecus = {} /\ plants = {plantProc} /\ ~failed
    BY <2>1, <2>2 DEF Alone
  <2>4. ~overlapped' => /\ \A d \in Clients : ~Restarting(d)'
                        /\ vecus' = {vecuProc'} /\ plants' = {plantProc'} /\ ~failed'
    BY <1>0, <2>1, <2>2, <2>3 DEF Restarting
  <2> QED BY <2>4 DEF Alone, RestartTakesOver, Restarting
<1>4. ASSUME NEW c \in Clients, StartVecuFails(c) PROVE Alone' /\ RestartTakesOver'
  <2>1. /\ pc[c] = "halfway" /\ pc' = [pc EXCEPT ![c] = "away"] /\ failed' = TRUE
        /\ UNCHANGED <<vecus, plants, plantProc, overlapped>>
    BY <1>4 DEF StartVecuFails, At, procVars
  <2>2. Restarting(c) /\ \A d \in Clients \ {c} : pc'[d] = pc[d]
    BY <1>0, <2>1 DEF Restarting
  <2>3. ~overlapped => /\ \A d \in Clients : Restarting(d) => d = c
                       /\ vecus = {} /\ plants = {plantProc}
    BY <2>1, <2>2 DEF Alone
  <2>4. ~overlapped' => /\ \A d \in Clients : ~Restarting(d)'
                        /\ vecus' = {} /\ plants' = {plantProc'}
    BY <1>0, <2>1, <2>2, <2>3 DEF Restarting
  <2> QED BY <2>1, <2>4 DEF Alone, RestartTakesOver, Restarting
<1>5. ASSUME \A c \in Clients : \A a \in InRestart : pc'[c] = a <=> pc[c] = a,
             UNCHANGED <<vecus, plants, vecuProc, plantProc, started, overlapped, failed>>
      PROVE  Alone' /\ RestartTakesOver'
  <2>1. \A c \in Clients : /\ pc'[c] = "sleep" <=> pc[c] = "sleep"
                           /\ pc'[c] = "halfway" <=> pc[c] = "halfway"
    BY <1>5 DEF InRestart
  <2>2. \A c \in Clients : Restarting(c)' <=> Restarting(c)
    BY <2>1 DEF Restarting
  <2>3. NoneRestarts' <=> NoneRestarts
    BY <1>5, <2>2 DEF NoneRestarts
  <2> QED BY <1>5, <2>1, <2>2, <2>3 DEF Alone, RestartTakesOver
<1> QED BY <1>1, <1>2, <1>3, <1>4, <1>5, OthersKeepRestarts DEF RestartStep

\* A restart that no other one cuts into leaves one vECU and one plant, those the server has
\* handles to, for any number of browsers, restarts and processes started by hand.
THEOREM RestartReplaces == Spec => []RestartTakesOver
<1>1. Init => Alone /\ RestartTakesOver
  BY DEF Init, Alone, RestartTakesOver, NoneRestarts, Restarting
<1>2. Typed /\ Alone /\ RestartTakesOver /\ [Next]_vars => Typed' /\ Alone' /\ RestartTakesOver'
  BY TypedStep, AloneStep
<1> QED BY <1>1, <1>2, TypedInit, PTL DEF Spec

-----------------------------------------------------------------------------
(* Restarts that cut into each other                                         *)

\* The processes that run and those that are still to be started, and who started last.
Bounded ==
  /\ Cardinality(vecus) + Cardinality(Where(InRestart)) <= Cardinality(Clients)
  /\ Cardinality(plants) + Cardinality(Where({"sleep"})) <= Cardinality(Clients)

Latest ==
  /\ \A c \in Clients : pc[c] = "halfway" => started > 2
  /\ started > 2 =>
       /\ (\E c \in Clients : pc[c] = "sleep") \/ plantProc \in plants
       /\ (\E c \in Clients : Restarting(c)) \/ failed \/ vecuProc \in vecus

\* Running processes are finitely many, and one more adds at most one to their number.
LEMMA OneMore ==
  ASSUME NEW n \in Nat, NEW S \in SUBSET (1 .. n), NEW x
  PROVE  /\ Cardinality(S) \in Nat /\ Cardinality(S \cup {x}) \in Nat
         /\ Cardinality(S \cup {x}) <= Cardinality(S) + 1
<1>1. IsFiniteSet(1 .. n)
  BY FS_Interval
<1>2. IsFiniteSet(S)
  BY <1>1, FS_Subset
<1>3. IsFiniteSet(S \cup {x}) /\ Cardinality(S) \in Nat
      /\ Cardinality(S \cup {x}) = IF x \in S THEN Cardinality(S) ELSE Cardinality(S) + 1
  BY <1>2, FS_AddElement, FS_CardinalityType
<1> QED BY <1>3

LEMMA BoundedInit == Init => Bounded
<1> SUFFICES ASSUME Init PROVE Bounded
  OBVIOUS
<1>1. Where(InRestart) = {} /\ Where({"sleep"}) = {}
  BY DEF Init, Where, InRestart
<1>2. Cardinality(Where(InRestart)) = 0 /\ Cardinality(Where({"sleep"})) = 0
  BY <1>1, FS_EmptySet
<1>3. Cardinality(Clients) \in Nat /\ Cardinality(Clients) # 0
  BY WebAssumption, FS_CardinalityType, FS_EmptySet
<1>4. (vecus = {} \/ vecus = {1}) /\ (plants = {} \/ plants = {2})
  BY DEF Init
<1>5. Cardinality(vecus) \in {0, 1} /\ Cardinality(plants) \in {0, 1}
  BY <1>4, FS_EmptySet, FS_Singleton
<1> QED BY <1>2, <1>3, <1>5 DEF Bounded

LEMMA BoundedStep ==
  ASSUME Typed, Bounded, Latest, [Next]_vars
  PROVE  Bounded' /\ Latest'
<1> DEFINE k == Cardinality(Clients)
           r == Cardinality(Where(InRestart))
           s == Cardinality(Where({"sleep"}))
<1>0. pc \in [Clients -> Places] /\ started \in Nat /\ vecus \in SUBSET (1 .. started)
      /\ plants \in SUBSET (1 .. started)
  BY DEF Typed
<1>1. k \in Nat /\ r \in Nat /\ s \in Nat
  BY WhereIsFinite
<1>2. Cardinality(vecus) \in Nat /\ Cardinality(plants) \in Nat
  BY <1>0, OneMore
<1>3. ASSUME NEW c \in Clients, NEW to \in Places, pc' = [pc EXCEPT ![c] = to]
      PROVE  /\ r' \in Nat /\ s' \in Nat
             /\ r' = r + (IF to \in InRestart THEN 1 ELSE 0) - (IF pc[c] \in InRestart THEN 1 ELSE 0)
             /\ s' = s + (IF to \in {"sleep"} THEN 1 ELSE 0) - (IF pc[c] \in {"sleep"} THEN 1 ELSE 0)
  <2>1. r' \in Nat /\ r' = r + (IF to \in InRestart THEN 1 ELSE 0) - (IF pc[c] \in InRestart THEN 1 ELSE 0)
    BY <1>0, <1>3, MoveChangesCount
  <2>2. s' \in Nat /\ s' = s + (IF to \in {"sleep"} THEN 1 ELSE 0) - (IF pc[c] \in {"sleep"} THEN 1 ELSE 0)
    BY <1>0, <1>3, MoveChangesCount
  <2> QED BY <2>1, <2>2
<1>4. ASSUME NEW c \in Clients, Kill(c) PROVE Bounded' /\ Latest'
  <2>1. pc' = [pc EXCEPT ![c] = "sleep"] /\ vecus' = {} /\ plants' = {}
    BY <1>4 DEF Kill, At
  <2>2. pc'[c] = "sleep"
    BY <1>0, <2>1
  <2>3. Cardinality(vecus') = 0 /\ Cardinality(plants') = 0
    BY <2>1, FS_EmptySet
  <2>4. r' <= k /\ s' <= k /\ r' \in Nat /\ s' \in Nat
    <3>1. IsFiniteSet(Clients) /\ Where(InRestart)' \in SUBSET Clients
          /\ Where({"sleep"})' \in SUBSET Clients
      BY WebAssumption DEF Where
    <3> QED BY <3>1, FS_Subset, FS_CardinalityType
  <2>5. Bounded'
    BY <1>1, <2>3, <2>4 DEF Bounded
  <2>6. Latest'
    <3>1. started' = started /\ \A d \in Clients : pc'[d] = "halfway" => pc[d] = "halfway"
      BY <1>0, <1>4, <2>1 DEF Kill
    <3> QED BY <2>2, <3>1 DEF Latest, Restarting
  <2> QED BY <2>5, <2>6
<1>5. ASSUME NEW c \in Clients, StartPlant(c) PROVE Bounded' /\ Latest'
  <2>1. /\ pc[c] = "sleep" /\ pc' = [pc EXCEPT ![c] = "halfway"] /\ "halfway" \in Places
        /\ plantProc' = started' /\ plants' = plants \cup {started'} /\ vecus' = vecus
    BY <1>5 DEF StartPlant, At, Places
  <2>2. pc'[c] = "halfway" /\ plantProc' \in plants'
    BY <1>0, <2>1
  <2>3. r' = r /\ s' = s - 1
    <3>1. /\ r' \in Nat /\ s' \in Nat
          /\ r' = r + (IF "halfway" \in InRestart THEN 1 ELSE 0) - (IF pc[c] \in InRestart THEN 1 ELSE 0)
          /\ s' = s + (IF "halfway" \in {"sleep"} THEN 1 ELSE 0) - (IF pc[c] \in {"sleep"} THEN 1 ELSE 0)
      BY ONLY c \in Clients, <1>3, <2>1
    <3>2. "sleep" \in InRestart /\ "halfway" \in InRestart /\ "halfway" # "sleep"
      BY DEF InRestart
    <3> HIDE DEF r, s
    <3> QED BY ONLY <1>1, <2>1, <3>1, <3>2
  <2>4. Cardinality(plants') \in Nat /\ Cardinality(plants') <= Cardinality(plants) + 1
    BY <1>0, <2>1, OneMore
  <2>5. Cardinality(vecus) + r <= k /\ Cardinality(plants) + s <= k
    BY DEF Bounded
  <2>6. Bounded'
    BY <1>1, <1>2, <2>1, <2>3, <2>4, <2>5 DEF Bounded
  <2>7. Latest'
    <3>1. started' = started + 1 /\ started >= 2 /\ started \in Nat
      BY <1>5 DEF StartPlant, Typed
    <3> QED BY <2>2, <3>1 DEF Latest, Restarting
  <2> QED BY <2>6, <2>7
<1>6. ASSUME NEW c \in Clients, StartVecu(c) PROVE Bounded' /\ Latest'
  <2>1. /\ pc[c] = "halfway" /\ pc' = [pc EXCEPT ![c] = "idle"] /\ "idle" \in Places
        /\ vecuProc' = started' /\ vecus' = vecus \cup {started'}
        /\ plants' = plants /\ plantProc' = plantProc
    BY <1>6 DEF StartVecu, At, Places
  <2>2. /\ vecuProc' \in vecus' /\ started' = started + 1 /\ started > 2
        /\ \A d \in Clients : (pc'[d] = "sleep" <=> pc[d] = "sleep") /\ (pc'[d] = "halfway" => pc[d] = "halfway")
    BY <1>0, <1>6, <2>1 DEF Latest, StartVecu
  <2>3. r' = r - 1 /\ s' = s
    <3>1. /\ r' \in Nat /\ s' \in Nat
          /\ r' = r + (IF "idle" \in InRestart THEN 1 ELSE 0) - (IF pc[c] \in InRestart THEN 1 ELSE 0)
          /\ s' = s + (IF "idle" \in {"sleep"} THEN 1 ELSE 0) - (IF pc[c] \in {"sleep"} THEN 1 ELSE 0)
      BY ONLY c \in Clients, <1>3, <2>1
    <3>2. "halfway" \in InRestart /\ "idle" \notin InRestart
      BY DEF InRestart
    <3> HIDE DEF r, s
    <3> QED BY ONLY <1>1, <2>1, <3>1, <3>2
  <2>4. Cardinality(vecus') \in Nat /\ Cardinality(vecus') <= Cardinality(vecus) + 1
    BY <1>0, <2>1, OneMore
  <2>5. Cardinality(vecus) + r <= k /\ Cardinality(plants) + s <= k
    BY DEF Bounded
  <2>6. Bounded'
    BY <1>1, <1>2, <2>1, <2>3, <2>4, <2>5 DEF Bounded
  <2>7. Latest'
    BY <1>0, <2>1, <2>2 DEF Latest
  <2> QED BY <2>6, <2>7
<1>7. ASSUME NEW c \in Clients, StartVecuFails(c) PROVE Bounded' /\ Latest'
  <2>1. /\ pc[c] = "halfway" /\ pc' = [pc EXCEPT ![c] = "away"] /\ "away" \in Places /\ failed' = TRUE
        /\ UNCHANGED <<vecus, plants, plantProc, started>>
    BY <1>7 DEF StartVecuFails, At, Places, procVars
  <2>2. \A d \in Clients : (pc'[d] = "sleep" <=> pc[d] = "sleep") /\ (pc'[d] = "halfway" => pc[d] = "halfway")
    BY <1>0, <2>1
  <2>3. r' = r - 1 /\ s' = s
    <3>1. /\ r' \in Nat /\ s' \in Nat
          /\ r' = r + (IF "away" \in InRestart THEN 1 ELSE 0) - (IF pc[c] \in InRestart THEN 1 ELSE 0)
          /\ s' = s + (IF "away" \in {"sleep"} THEN 1 ELSE 0) - (IF pc[c] \in {"sleep"} THEN 1 ELSE 0)
      BY ONLY c \in Clients, <1>3, <2>1
    <3>2. "halfway" \in InRestart /\ "away" \notin InRestart
      BY DEF InRestart
    <3> HIDE DEF r, s
    <3> QED BY ONLY <1>1, <2>1, <3>1, <3>2
  <2>4. Cardinality(vecus) + r <= k /\ Cardinality(plants) + s <= k
    BY DEF Bounded
  <2>5. Bounded'
    BY <1>1, <1>2, <2>1, <2>3, <2>4 DEF Bounded
  <2>6. Latest'
    BY <2>1, <2>2 DEF Latest
  <2> QED BY <2>5, <2>6
<1>8. ASSUME \A c \in Clients : \A a \in InRestart : pc'[c] = a <=> pc[c] = a,
             UNCHANGED <<vecus, plants, vecuProc, plantProc, started, overlapped, failed>>
      PROVE  Bounded' /\ Latest'
  <2>1. \A c \in Clients : /\ pc'[c] = "sleep" <=> pc[c] = "sleep"
                           /\ pc'[c] = "halfway" <=> pc[c] = "halfway"
    BY <1>8 DEF InRestart
  <2>2. Where(InRestart)' = Where(InRestart) /\ Where({"sleep"})' = Where({"sleep"})
    BY <2>1 DEF Where, InRestart
  <2>3. \A c \in Clients : Restarting(c)' <=> Restarting(c)
    BY <2>1 DEF Restarting
  <2> QED BY <1>8, <2>1, <2>2, <2>3 DEF Bounded, Latest
<1> QED BY <1>4, <1>5, <1>6, <1>7, <1>8, OthersKeepRestarts DEF RestartStep

\* However restarts cut into each other, there are never more vECUs or plants than browsers,
\* and the one the server has a handle to is among them.
THEOREM RestartsLeaveOneRunning == Spec => []RestartLeavesRunning
<1>1. Init => Bounded /\ Latest
  <2>1. Init => Latest
    BY DEF Init, Latest
  <2> QED BY <2>1, BoundedInit
<1>2. Typed /\ Bounded /\ Latest /\ [Next]_vars => Typed' /\ Bounded' /\ Latest'
  BY TypedStep, BoundedStep
<1>3. Typed /\ Bounded /\ Latest => RestartLeavesRunning
  <2> SUFFICES ASSUME Typed, Bounded, Latest PROVE RestartLeavesRunning
    OBVIOUS
  <2>1. started \in Nat /\ vecus \in SUBSET (1 .. started) /\ plants \in SUBSET (1 .. started)
    BY DEF Typed
  <2>2. Cardinality(vecus) \in Nat /\ Cardinality(plants) \in Nat
    BY <2>1, OneMore
  <2>3. Cardinality(Where(InRestart)) \in Nat /\ Cardinality(Where({"sleep"})) \in Nat
        /\ Cardinality(Clients) \in Nat
    BY WhereIsFinite
  <2>4. Cardinality(vecus) <= Cardinality(Clients) /\ Cardinality(plants) <= Cardinality(Clients)
    BY <2>2, <2>3 DEF Bounded
  <2>5. NoneRestarts => plantProc \in plants /\ (failed \/ vecuProc \in vecus)
    BY DEF NoneRestarts, Latest, Restarting
  <2> QED BY <2>4, <2>5 DEF RestartLeavesRunning
<1> QED BY <1>1, <1>2, <1>3, TypedInit, PTL DEF Spec

-----------------------------------------------------------------------------
(* The history                                                               *)

\* An entry added at the end leaves every other entry but the last as it is.
LEMMA HistoryStep ==
  ASSUME Typed, HistoryClosed, [Next]_vars
  PROVE  HistoryClosed'
<1> DEFINE n == Len(history)
<1>0. history \in Seq(Entries) /\ n \in Nat
  BY DEF Typed
<1>1. ASSUME NEW c \in Clients, StartVecu(c) PROVE HistoryClosed'
  <2>1. history' = Append(history, Entry(Restarted, FALSE)) /\ Entry(Restarted, FALSE) \in Entries
    BY <1>1 DEF StartVecu, Entry, Entries, Restarted
  <2>2. /\ Len(history') = n + 1 /\ \A i \in 1 .. n : history'[i] = history[i]
        /\ history'[n + 1] = Entry(Restarted, FALSE)
    BY ONLY <1>0, <2>1, AppendProperties
  <2>3. history'[n + 1].state = Restarted /\ ~history'[n + 1].open
    BY <2>2 DEF Entry
  <2> SUFFICES ASSUME NEW i \in 1 .. n + 1, history'[i].open
               PROVE  i = n + 1 \/ history'[i + 1].state = Restarted
    BY <2>2 DEF HistoryClosed
  <2>4. i \in 1 .. n /\ (i = n \/ i + 1 \in 1 .. n)
    BY <1>0, <2>3
  <2> HIDE DEF n
  <2>5. i = n \/ history[i + 1].state = Restarted
    BY <2>2, <2>4 DEF HistoryClosed, n
  <2> QED BY <2>2, <2>3, <2>4, <2>5
<1>2. ASSUME CanReader, Head(socket) # prev PROVE HistoryClosed'
  <2> DEFINE h == CloseLast(history)
             e == Entry(Head(socket), TRUE)
  <2>1. history' = Append(h, e)
    BY <1>2 DEF CanReader, TrackState
  <2>2. /\ h \in Seq(Entries) /\ Len(h) = n
        /\ \A i \in 1 .. n : /\ h[i].state = history[i].state
                             /\ i # n => h[i] = history[i]
                             /\ i = n => ~h[i].open
    BY <1>0, ClosesOnlyLast
  <2>3. e \in Entries
    <3>1. Head(socket) \in Int
      BY <1>2 DEF Typed, CanReader
    <3> QED BY <3>1 DEF Entry, Entries
  <2> HIDE DEF h, e
  <2>4. Len(history') = n + 1 /\ \A i \in 1 .. n : history'[i] = h[i]
    BY ONLY <2>1, <2>2, <2>3, AppendProperties
  <2> SUFFICES ASSUME NEW i \in 1 .. n + 1, history'[i].open
               PROVE  i = n + 1 \/ history'[i + 1].state = Restarted
    BY <2>4 DEF HistoryClosed
  <2>5. CASE i \in 1 .. n
    <3>1. i # n /\ history[i].open
      BY <2>2, <2>4, <2>5
    <3>2. i + 1 \in 1 .. n
      BY <1>0, <2>5, <3>1
    <3>3. history[i + 1].state = Restarted
      BY <2>5, <3>1 DEF HistoryClosed
    <3> QED BY <2>2, <2>4, <3>2, <3>3
  <2> QED BY <1>0, <2>5
<1>3. ASSUME CanReader, Head(socket) = prev PROVE HistoryClosed'
  BY <1>3 DEF CanReader, TrackState, HistoryClosed
<1>4. ASSUME history' = history PROVE HistoryClosed'
  BY <1>4 DEF HistoryClosed
<1>5. ASSUME NEW c \in Clients, Kill(c) \/ StartPlant(c) \/ StartVecuFails(c) PROVE history' = history
  BY <1>5 DEF Kill, StartPlant, StartVecuFails, logVars
<1>6. ASSUME NEW c \in Clients, Connect(c) \/ Disconnect(c) \/ Inject(c) \/ ClearVoltage(c)
                \/ ClearRest(c) \/ Reset(c) \/ ResetPlant(c)
      PROVE  history' = history
  BY <1>6 DEF Connect, Disconnect, Inject, ClearVoltage, ClearRest, ClearTemperature, ClearCurrent,
              ClearKind, ClearPlant, Reset, ResetPlant, logVars
<1>7. ASSUME NEW v \in vecus, VecuReports(v) PROVE history' = history
  BY <1>7 DEF VecuReports
<1>8. CASE UNCHANGED vars
  BY <1>4, <1>8 DEF vars
<1> QED BY <1>1, <1>2, <1>3, <1>4, <1>5, <1>6, <1>7, <1>8 DEF Next, Restart

\* Whatever frames of a killed vECU are still waiting, only the last entry of the history, or
\* one that a restart cut off, is shown as active; for every length of the history.
THEOREM HistoryIsClosed == Spec => []HistoryClosed
<1>1. Init => HistoryClosed
  BY DEF Init, HistoryClosed
<1>2. Typed /\ HistoryClosed /\ [Next]_vars => Typed' /\ HistoryClosed'
  BY TypedStep, HistoryStep
<1> QED BY <1>1, <1>2, TypedInit, PTL DEF Spec

-----------------------------------------------------------------------------
(* Clearing                                                                  *)

\* The kinds whose first index a coroutine has cleared when it stands at a place of "clear".
Done(place) ==
  CASE place = "temperature" -> {"cell_voltage"}
    [] place = "current"     -> {"cell_voltage", "temperature"}
    [] place = "plant"       -> {"cell_voltage", "temperature", "current"}
    [] OTHER                 -> {}

\* What is cleared stays cleared until it is injected, also in vECUs started since, for a
\* process that has not started has no overrides.
Cleared ==
  /\ overrides \in [Procs -> SUBSET Overrides] /\ since \in [Clients -> SUBSET Overrides]
  /\ \A p \in Procs : p > started => overrides[p] = {}
  /\ \A c \in Clients : \A v \in vecus : \A k \in Done(pc[c]) :
       <<k, 0>> \in overrides[v] => <<k, 0>> \in since[c]

LEMMA ClearedInit == Init => Cleared
<1>1. Init => Procs = Procs /\ overrides = [p \in Procs |-> {}] /\ since = [c \in Clients |-> {}]
              /\ \A c \in Clients : pc[c] = "away"
  BY DEF Init
<1>2. Init => vecus \subseteq Procs
  BY TypedInit, TypedBounds DEF Typed
<1> QED BY <1>1, <1>2 DEF Cleared, Done

\* A step that clears overrides keeps what is cleared.
LEMMA ClearingKeepsCleared ==
  ASSUME Typed, Cleared, NEW c \in Clients, NEW to, pc' = [pc EXCEPT ![c] = to],
         vecus' = vecus, started' = started,
         overrides' \in [Procs -> SUBSET Overrides], since' \in [Clients -> SUBSET Overrides],
         \A p \in Procs : overrides'[p] \subseteq overrides[p],
         \A d \in Clients \ {c} : since'[d] = since[d],
         \A v \in vecus : \A k \in Done(to) : <<k, 0>> \in overrides'[v] => <<k, 0>> \in since'[c]
  PROVE  Cleared'
<1>1. vecus \subseteq Procs
  BY TypedBounds DEF Typed
<1>2. pc'[c] = to /\ \A d \in Clients \ {c} : pc'[d] = pc[d]
  BY DEF Typed
<1>3. \A p \in Procs : p > started' => overrides'[p] = {}
  BY DEF Cleared
<1>4. ASSUME NEW d \in Clients, NEW v \in vecus, NEW k \in Done(pc'[d]),
             <<k, 0>> \in overrides'[v]
      PROVE  <<k, 0>> \in since'[d]
  <2>1. CASE d = c
    BY <1>2, <1>4, <2>1
  <2>2. CASE d # c
    <3>1. k \in Done(pc[d]) /\ since'[d] = since[d] /\ <<k, 0>> \in overrides[v]
      BY <1>1, <1>2, <1>4, <2>2
    <3> QED BY <3>1 DEF Cleared
  <2> QED BY <2>1, <2>2
<1> QED BY <1>3, <1>4 DEF Cleared

LEMMA ClearedStep ==
  ASSUME Typed, Cleared, [Next]_vars
  PROVE  Cleared'
<1>0. vecus \subseteq Procs /\ plants \subseteq Procs /\ vecus \subseteq 1 .. started
      /\ plants \subseteq 1 .. started /\ started \in Nat /\ pc \in [Clients -> Places]
  BY TypedBounds DEF Typed
<1>1. \A S \in SUBSET Overrides : \A procs :
        Without(procs, S) \in [Procs -> SUBSET Overrides]
        /\ \A p \in Procs : Without(procs, S)[p] \subseteq overrides[p]
  BY DEF Without, Cleared
<1>2. ASSUME NEW c \in Clients, Inject(c) PROVE Cleared'
  <2>1. PICK o \in Overrides : /\ overrides' = With(vecus, o) \/ overrides' = With(plants, o)
                               /\ since' = [d \in Clients |-> since[d] \cup {o}]
    BY <1>2 DEF Inject
  <2>2. vecus' = vecus /\ started' = started /\ pc' = pc
    BY <1>0, <1>2 DEF Inject, At, procVars
  <2>3. overrides' \in [Procs -> SUBSET Overrides]
        /\ (\A p \in Procs : overrides'[p] \subseteq overrides[p] \cup {o})
        /\ \A p \in Procs : p > started => overrides'[p] = {}
    BY <1>0, <2>1 DEF With, Cleared
  <2>4. since' \in [Clients -> SUBSET Overrides]
        /\ \A d \in Clients : since'[d] = since[d] \cup {o}
    BY <2>1 DEF Cleared
  <2>5. \A d \in Clients : \A v \in vecus : \A k \in Done(pc[d]) :
          <<k, 0>> \in overrides'[v] => <<k, 0>> \in since'[d]
    BY <1>0, <2>3, <2>4 DEF Cleared
  <2> QED BY <2>2, <2>3, <2>4, <2>5 DEF Cleared
<1>3. ASSUME NEW c \in Clients, NEW from, NEW to, NEW kind,
             ClearKind(c, from, to, kind), since' \in [Clients -> SUBSET Overrides],
             \A d \in Clients \ {c} : since'[d] = since[d],
             Done(to) \subseteq Done(from) \cup {kind}, Done(from) = {} \/ since'[c] = since[c]
      PROVE  Cleared'
  <2>1. /\ pc[c] = from /\ pc' = [pc EXCEPT ![c] = to] /\ vecus' = vecus /\ started' = started
        /\ overrides' = Without(vecus, {<<kind, 0>>})
    BY <1>3 DEF ClearKind, At, procVars
  <2>2. overrides' \in [Procs -> SUBSET Overrides]
        /\ \A p \in Procs : overrides'[p] \subseteq overrides[p]
    BY <2>1 DEF Without, Cleared
  <2>3. \A v \in vecus : overrides'[v] = overrides[v] \ {<<kind, 0>>}
    BY <1>0, <2>1 DEF Without
  <2>4. \A v \in vecus : \A k \in Done(to) : <<k, 0>> \in overrides'[v] => <<k, 0>> \in since'[c]
    BY <1>3, <2>1, <2>3 DEF Cleared
  <2> QED BY <1>3, <2>1, <2>2, <2>4, ClearingKeepsCleared
<1>4. ASSUME NEW c \in Clients, ClearVoltage(c) PROVE Cleared'
  <2>1. since' = [since EXCEPT ![c] = {}] /\ ClearKind(c, "idle", "temperature", "cell_voltage")
    BY <1>4 DEF ClearVoltage
  <2>2. since' \in [Clients -> SUBSET Overrides] /\ \A d \in Clients \ {c} : since'[d] = since[d]
    BY <2>1 DEF Cleared
  <2>3. Done("idle") = {} /\ Done("temperature") = {"cell_voltage"}
    BY DEF Done
  <2> QED BY <1>3, <2>1, <2>2, <2>3
<1>5. ASSUME NEW c \in Clients, ClearTemperature(c) PROVE Cleared'
  <2>1. since' = since /\ ClearKind(c, "temperature", "current", "temperature")
    BY <1>5 DEF ClearTemperature
  <2>2. Done("current") \subseteq Done("temperature") \cup {"temperature"}
    BY DEF Done
  <2>3. since' \in [Clients -> SUBSET Overrides]
    BY <2>1 DEF Cleared
  <2> QED BY <1>3, <2>1, <2>2, <2>3
<1>6. ASSUME NEW c \in Clients, ClearCurrent(c) PROVE Cleared'
  <2>1. since' = since /\ ClearKind(c, "current", "plant", "current")
    BY <1>6 DEF ClearCurrent
  <2>2. Done("plant") \subseteq Done("current") \cup {"current"}
    BY DEF Done
  <2>3. since' \in [Clients -> SUBSET Overrides]
    BY <2>1 DEF Cleared
  <2> QED BY <1>3, <2>1, <2>2, <2>3
<1>7. ASSUME NEW c \in Clients, ClearPlant(c) \/ ResetPlant(c) \/ Reset(c) \/ Connect(c)
                \/ Disconnect(c) \/ StartVecuFails(c)
      PROVE  Cleared'
  <2>1. PICK to \in {"idle", "kill", "reset", "away"} : pc' = [pc EXCEPT ![c] = to]
    BY <1>7 DEF ClearPlant, ResetPlant, Reset, Connect, Disconnect, StartVecuFails, At
  <2>2. vecus' = vecus /\ started' = started /\ since' = since
    BY <1>7 DEF ClearPlant, ResetPlant, Reset, Connect, Disconnect, StartVecuFails, procVars, auxVars
  <2>3. overrides' = overrides \/ overrides' = Without(plants, Overrides)
    BY <1>7 DEF ClearPlant, ResetPlant, Reset, Connect, Disconnect, StartVecuFails
  <2>4. overrides' \in [Procs -> SUBSET Overrides]
        /\ \A p \in Procs : overrides'[p] \subseteq overrides[p]
    BY <1>1, <2>3 DEF Cleared
  <2>5. Done(to) = {} /\ since' \in [Clients -> SUBSET Overrides]
    BY <2>2 DEF Done, Cleared
  <2> QED BY <2>1, <2>2, <2>4, <2>5, ClearingKeepsCleared
<1>8. ASSUME NEW c \in Clients, Kill(c) PROVE Cleared'
  <2>1. vecus' = {} /\ overrides' = [p \in Procs |-> {}] /\ since' = since
    BY <1>8 DEF Kill
  <2> QED BY <2>1 DEF Cleared
<1>9. ASSUME NEW c \in Clients, StartPlant(c) PROVE Cleared'
  <2>1. /\ pc' = [pc EXCEPT ![c] = "halfway"] /\ vecus' = vecus /\ started' = started + 1
        /\ overrides' = overrides /\ since' = since
    BY <1>9 DEF StartPlant, At, auxVars
  <2>2. \A p \in Procs : p > started' => p > started
    BY <1>0, <2>1 DEF Procs
  <2>3. Done(pc'[c]) = {} /\ \A d \in Clients \ {c} : pc'[d] = pc[d]
    BY <1>0, <2>1 DEF Done
  <2> QED BY <2>1, <2>2, <2>3 DEF Cleared
<1>10. ASSUME NEW c \in Clients, StartVecu(c) PROVE Cleared'
  <2>1. /\ pc' = [pc EXCEPT ![c] = "idle"] /\ vecus' = vecus \cup {started'}
        /\ started' = started + 1 /\ overrides' = overrides /\ since' = since
    BY <1>10 DEF StartVecu, At, auxVars
  <2>2. started' \in Procs
    <3>1. Typed'
      BY TypedStep
    <3>2. Typed' => (started \in Procs)'
      BY TypedBounds, PTL
    <3> QED BY <3>1, <3>2
  <2>3. overrides[started'] = {} /\ \A p \in Procs : p > started' => p > started
    <3>1. overrides[started'] = {}
      <4>1. started' > started
        BY <1>0, <2>1
      <4> QED BY <2>2, <4>1 DEF Cleared
    <3>2. \A p \in Procs : p > started' => p > started
      BY <1>0, <2>1 DEF Procs
    <3> QED BY <3>1, <3>2
  <2>4. Done(pc'[c]) = {} /\ \A d \in Clients \ {c} : pc'[d] = pc[d]
    BY <1>0, <2>1 DEF Done
  <2> QED BY <2>1, <2>3, <2>4 DEF Cleared
<1>11. ASSUME NEW v \in vecus, VecuReports(v) PROVE Cleared'
  BY <1>11 DEF VecuReports, auxVars, Cleared
<1>12. CASE CanReader
  BY <1>12 DEF CanReader, procVars, auxVars, Cleared
<1>13. CASE UNCHANGED vars
  BY <1>13 DEF vars, Cleared
<1> QED BY <1>2, <1>4, <1>5, <1>6, <1>7, <1>8, <1>9, <1>10, <1>11, <1>12, <1>13 DEF Next, Restart, ClearRest

\* When the server has worked off a "clear", nothing is left of the first cell and sensor, of
\* the current, or in the plants, but what somebody injected meanwhile; whatever the browsers
\* and the restarts do in between.
THEOREM ClearReaches == Spec => ClearReachesFirst
<1>1. ASSUME Typed, Cleared, Next, NEW c \in Clients, ClearIsDone(c)
      PROVE  /\ \A v \in vecus : {o \in overrides'[v] : o[2] = 0} \subseteq since[c]
             /\ \A p \in plants : overrides'[p] \subseteq since[c]
  <2>0. pc \in [Clients -> Places] /\ vecus \subseteq Procs /\ plants \subseteq Procs
    BY <1>1, TypedBounds DEF Typed
  <2>1. ClearPlant(c)
    <3>1. \A d \in Clients : \A from, to : At(d, from, to) => d = c /\ from = "plant" /\ to = "idle"
      BY <1>1, <2>0 DEF ClearIsDone, At
    <3>2. pc' # pc
      BY <1>1 DEF ClearIsDone
    <3>3. ~CanReader /\ \A v \in vecus : ~VecuReports(v)
      BY <3>2 DEF CanReader, VecuReports
    <3>4. \A d \in Clients : ~Connect(d) /\ ~Disconnect(d) /\ ~Inject(d) /\ ~ClearVoltage(d)
                            /\ ~ClearTemperature(d) /\ ~ClearCurrent(d)
      BY <3>1 DEF Connect, Disconnect, Inject, ClearVoltage, ClearTemperature, ClearCurrent, ClearKind
    <3>5. \A d \in Clients : ~Reset(d) /\ ~ResetPlant(d) /\ ~Kill(d) /\ ~StartPlant(d)
                            /\ ~StartVecu(d) /\ ~StartVecuFails(d)
      <4>1. \A d \in Clients : ~At(d, "idle", "reset") /\ ~At(d, "reset", "kill") /\ ~At(d, "kill", "sleep")
        BY <3>1
      <4>2. \A d \in Clients : ~At(d, "sleep", "halfway") /\ ~At(d, "halfway", "idle") /\ ~At(d, "halfway", "away")
        BY <3>1
      <4> QED BY <4>1, <4>2 DEF Reset, ResetPlant, Kill, StartPlant, StartVecu, StartVecuFails
    <3>6. \A d \in Clients : ClearPlant(d) => d = c
      BY <3>1 DEF ClearPlant
    <3> QED BY <1>1, <3>3, <3>4, <3>5, <3>6 DEF Next, ClearRest, Restart
  <2>2. overrides' = Without(plants, Overrides)
    BY <2>1 DEF ClearPlant
  <2>3. \A p \in plants : overrides'[p] = {}
    BY <1>1, <2>0, <2>2 DEF Without, Cleared
  <2>4. ASSUME NEW v \in vecus, NEW o \in overrides'[v], o[2] = 0 PROVE o \in since[c]
    <3>1. o \in overrides[v] /\ o \in Overrides
      BY <1>1, <2>0, <2>2, <2>4 DEF Without, Cleared
    <3>2. o = <<o[1], 0>> /\ o[1] \in Kinds
      BY <2>4, <3>1 DEF Overrides
    <3>3. o[1] \in Done(pc[c])
      BY <1>1, <3>2, WebAssumption DEF ClearIsDone, Done
    <3> QED BY <1>1, <3>1, <3>2, <3>3 DEF Cleared
  <2> QED BY <2>3, <2>4
<1>2. Typed /\ Cleared /\ [Next]_vars =>
        [\A c \in Clients : ClearIsDone(c) =>
           /\ \A v \in vecus : {o \in overrides'[v] : o[2] = 0} \subseteq since[c]
           /\ \A p \in plants : overrides'[p] \subseteq since[c]]_vars
  BY <1>1
<1>3. Typed /\ Cleared /\ [Next]_vars => Typed' /\ Cleared'
  BY TypedStep, ClearedStep
<1> QED BY <1>2, <1>3, TypedInit, ClearedInit, PTL DEF Spec, ClearReachesFirst

=============================================================================
