----------------------------- MODULE ToolProofs -----------------------------
(***************************************************************************)
(* The tools around the vECU: the driver that patches foxBMS and the       *)
(* runner that injects faults.                                             *)
(*                                                                         *)
(* The driver, for every list of scripts, every choice of the sentinel and *)
(* every tree.  AppliedOnce: in an unforced run the sentinel cannot be     *)
(* there, so no script from it on has been applied when the run begins;    *)
(* whatever interrupts the run leaves either that as it is or the sentinel *)
(* behind.  SuccessMeansPatched: the failures counted are at least the     *)
(* scripts that have not earned their exit status.                         *)
(*                                                                         *)
(* The runner, for every number of tests, restarts and crashes, every set  *)
(* of kinds and every size of its socket.  OverridesWithdrawn speaks of    *)
(* the value the vECU's table will have when it has read what was sent; so *)
(* the proof is about the last command of a kind in the socket: what       *)
(* sending, clearing, reading and a crash make of it.                      *)
(***************************************************************************)
EXTENDS ApplyPatches, FaultRunner, SequenceTheorems, FiniteSetTheorems, WellFoundedInduction, TLAPS

-----------------------------------------------------------------------------
(* The patch driver.                                                         *)

\* A script is at the position the list gives it, because no script is listed twice.
LEMMA PositionIsIndex ==
  ASSUME NEW i \in 1 .. Len(Patches)
  PROVE  Position(Patches[i]) = i /\ Patches[i] \in Scripts
<1>1. Patches \in Seq(Scripts) /\ DOMAIN Patches = 1 .. Len(Patches)
  BY PatchAssumption
<1>2. \A j \in DOMAIN Patches : Patches[j] = Patches[i] => j = i
  BY <1>1, PatchAssumption
<1> QED BY <1>1, <1>2 DEF Position, Scripts

\* Every script has a position.
LEMMA ScriptHasPosition ==
  ASSUME NEW p \in Scripts
  PROVE  Position(p) \in 1 .. Len(Patches) /\ Patches[Position(p)] = p
<1>1. PICK i \in 1 .. Len(Patches) : p = Patches[i]
  BY PatchAssumption DEF Scripts
<1> QED BY <1>1, PositionIsIndex

\* What going through the first files of a script does to the counts.
LEMMA ThroughCounts ==
  ASSUME PatchTypeOK, NEW p \in Scripts, NEW k
  PROVE  /\ Through(p, k) \in [Texts -> Nat]
         /\ \A t \in Texts :
              Through(p, k)[t] = count[t] \/ (ScriptOf(t) = p /\ Through(p, k)[t] = count[t] + 1)
<1>1. \A t \in Texts : count[t] \in Nat
  BY DEF PatchTypeOK
<1>2. \A t \in Texts :
        Through(p, k)[t] = count[t] \/ (ScriptOf(t) = p /\ Through(p, k)[t] = count[t] + 1)
  BY DEF Through, Replaces
<1>3. \A t \in Texts : Through(p, k)[t] \in Nat
  BY <1>1, <1>2
<1>4. Through(p, k) = [t \in Texts |-> Through(p, k)[t]]
  BY DEF Through
<1> QED BY <1>2, <1>3, <1>4

\* The files of a script, by their position and as a set.
LEMMA FilesOfScript ==
  ASSUME NEW p \in Scripts
  PROVE  /\ Len(FilesOf[p]) \in Nat /\ DOMAIN FilesOf[p] = 1 .. Len(FilesOf[p])
         /\ \A k \in DOMAIN FilesOf[p] : FilesOf[p][k] \in Files
         /\ FilesOf[p][1] \in Opens(p)
<1>1. FilesOf[p] \in Seq(Files) /\ FilesOf[p] # <<>>
  BY PatchAssumption
<1>2. Len(FilesOf[p]) \in Nat /\ DOMAIN FilesOf[p] = 1 .. Len(FilesOf[p])
  BY <1>1
<1>3. \A k \in DOMAIN FilesOf[p] : FilesOf[p][k] \in Files
  BY <1>1
<1>4. 1 \in DOMAIN FilesOf[p]
  BY <1>1, <1>2, EmptySeq
<1> QED BY <1>2, <1>3, <1>4 DEF Opens

-----------------------------------------------------------------------------
\* Every reachable state of the driver is well typed, for every list of scripts.
THEOREM PatchTypeCorrect == PatchSpec => []PatchTypeOK
<1>1. PatchInit => PatchTypeOK
  <2>1. Len(Patches) \in Nat /\ MaxRuns \in Nat
    BY PatchAssumption
  <2> SUFFICES ASSUME PatchInit PROVE PatchTypeOK
    OBVIOUS
  <2>2. tree \in Trees /\ count \in [Texts -> Nat] /\ emptied \subseteq Files
    BY DEF PatchInit
  <2>3. step \in 0 .. Len(Patches) + 1 /\ failed \in Nat /\ runs \in 0 .. MaxRuns
    BY <2>1 DEF PatchInit
  <2>4. force \in BOOLEAN /\ forced \in BOOLEAN
    BY DEF PatchInit
  <2> QED BY <2>2, <2>3, <2>4 DEF PatchTypeOK
<1>2. PatchTypeOK /\ [PatchNext]_patchVars => PatchTypeOK'
  <2> SUFFICES ASSUME PatchTypeOK, [PatchNext]_patchVars PROVE PatchTypeOK'
    OBVIOUS
  <2> USE DEF PatchTypeOK
  <2>0. Len(Patches) \in Nat /\ MaxRuns \in Nat /\ DOMAIN Patches = 1 .. Len(Patches)
    BY PatchAssumption
  <2>01. \A i \in DOMAIN Patches : Patches[i] \in Scripts
    BY DEF Scripts
  <2>1. ASSUME NEW f \in BOOLEAN, Refuse(f) PROVE PatchTypeOK'
    BY <2>0, <2>1 DEF Refuse
  <2>2. ASSUME NEW f \in BOOLEAN, Begin(f) PROVE PatchTypeOK'
    <3>1. step' \in 0 .. Len(Patches) + 1 /\ failed' \in Nat /\ runs' \in 0 .. MaxRuns
      BY <2>0, <2>2 DEF Begin
    <3>2. force' \in BOOLEAN /\ forced' \in BOOLEAN
      BY <2>2 DEF Begin
    <3>3. UNCHANGED <<tree, count, emptied>>
      BY <2>2 DEF Begin
    <3> QED BY <3>1, <3>2, <3>3
  <2>3. CASE Skip
    <3>0. runs < MaxRuns /\ runs' = runs + 1
      BY <2>3 DEF Skip
    <3>1. runs' \in 0 .. MaxRuns
      BY <2>0, <3>0
    <3>2. UNCHANGED <<tree, count, emptied, step, failed, force, forced>>
      BY <2>3 DEF Skip
    <3> QED BY <3>1, <3>2
  <2>4. CASE Apply
    <3>1. step' \in 0 .. Len(Patches) + 1 /\ failed' \in Nat
      BY <2>0, <2>4 DEF Apply
    <3>2. count' \in [Texts -> Nat]
      BY <2>4, <2>01, ThroughCounts DEF Apply
    <3>3. UNCHANGED <<tree, emptied, force, forced, runs>>
      BY <2>4 DEF Apply
    <3> QED BY <3>1, <3>2, <3>3
  <2>5. CASE Finish
    BY <2>0, <2>5 DEF Finish
  <2>6. CASE Interrupt
    <3>1. count' \in [Texts -> Nat]
      BY <2>6, <2>01, ThroughCounts DEF Interrupt
    <3> QED BY <2>0, <2>6, <3>1 DEF Interrupt
  <2>7. CASE InterruptWrite
    <3> DEFINE p == Patches[step]
    <3>1. p \in Scripts
      BY <2>7, <2>01 DEF InterruptWrite
    <3>2. PICK k \in DOMAIN FilesOf[p] :
            /\ emptied' = emptied \cup {FilesOf[p][k]}
            /\ count' = [t \in Texts |->
                           IF FileOf(t) = FilesOf[p][k] THEN 0 ELSE Through(p, k - 1)[t]]
      BY <2>7 DEF InterruptWrite
    <3>3. Through(p, k - 1) \in [Texts -> Nat]
      BY <3>1, ThroughCounts
    <3>4. count' \in [Texts -> Nat] /\ emptied' \subseteq Files
      BY <3>1, <3>2, <3>3, FilesOfScript
    <3> QED BY <2>0, <2>7, <3>4 DEF InterruptWrite
  <2>8. CASE Checkout
    BY <2>0, <2>8 DEF Checkout
  <2>9. CASE UNCHANGED patchVars
    BY <2>9 DEF patchVars
  <2> QED BY <2>1, <2>2, <2>3, <2>4, <2>5, <2>6, <2>7, <2>8, <2>9 DEF PatchNext, Run
<1> QED BY <1>1, <1>2, PTL DEF PatchSpec

-----------------------------------------------------------------------------
(* Success                                                                  *)

\* A text that another keeps from being replaced was replaced together with it.
Together ==
  \A t \in Texts : \A u \in Blockers[t] : count[u] > 0 /\ Found(t) => count[t] > 0

\* A script goes through its files: of texts that block each other it replaces all or none.
LEMMA ThroughTogether ==
  ASSUME PatchTypeOK, Together, NEW p \in Scripts, NEW k,
         NEW t \in Texts, NEW u \in Blockers[t], Through(p, k)[u] > 0, Found(t)
  PROVE  Through(p, k)[t] > 0
<1>1. u \in Texts /\ ScriptOf(u) = ScriptOf(t) /\ FileOf(u) = FileOf(t) /\ Blockers[u] = Blockers[t]
  BY PatchAssumption
<1>2. count[t] \in Nat /\ count[u] \in Nat /\ Through(p, k)[t] >= count[t]
  BY <1>1, ThroughCounts DEF PatchTypeOK
<1>3. CASE count[u] > 0
  BY <1>2, <1>3, ThroughCounts DEF Together, PatchTypeOK
<1>4. CASE ~(count[u] > 0)
  <2>1. Replaces(p, u) /\ \E i \in 1 .. k : FilesOf[p][i] = FileOf(u)
    BY <1>1, <1>2, <1>4 DEF Through
  <2>2. Replaces(p, t) /\ \E i \in 1 .. k : FilesOf[p][i] = FileOf(t)
    BY <1>1, <2>1 DEF Replaces, Kept
  <2> QED BY <1>2, <2>2 DEF Through
<1> QED BY <1>3, <1>4

LEMMA NextTogether == PatchTypeOK /\ Together /\ [PatchNext]_patchVars => Together'
<1> SUFFICES ASSUME PatchTypeOK, Together, [PatchNext]_patchVars PROVE Together'
  OBVIOUS
<1>1. \A i \in DOMAIN Patches : Patches[i] \in Scripts
  BY DEF Scripts
<1>2. ASSUME UNCHANGED <<tree, count, emptied>> PROVE Together'
  BY <1>2 DEF Together, Found
<1>3. ASSUME NEW p \in Scripts, NEW k, count' = Through(p, k), UNCHANGED <<tree, emptied>>
      PROVE  Together'
  <2>1. \A t \in Texts : Found(t)' <=> Found(t)
    BY <1>3 DEF Found
  <2>2. \A t \in Texts : \A u \in Blockers[t] :
          Through(p, k)[u] > 0 /\ Found(t) => Through(p, k)[t] > 0
    BY ThroughTogether
  <2> QED BY <1>3, <2>1, <2>2 DEF Together
<1>4. CASE InterruptWrite
  <2> DEFINE p == Patches[step]
  <2>1. p \in Scripts /\ tree' = tree
    BY <1>1, <1>4 DEF InterruptWrite
  <2>2. PICK k \in DOMAIN FilesOf[p] :
          /\ emptied' = emptied \cup {FilesOf[p][k]}
          /\ count' = [t \in Texts |->
                         IF FileOf(t) = FilesOf[p][k] THEN 0 ELSE Through(p, k - 1)[t]]
    BY <1>4 DEF InterruptWrite
  <2>3. SUFFICES ASSUME NEW t \in Texts, NEW u \in Blockers[t], count'[u] > 0, Found(t)'
                 PROVE  count'[t] > 0
    BY DEF Together
  <2>4. Found(t) /\ FileOf(t) # FilesOf[p][k]
    BY <2>1, <2>2, <2>3 DEF Found
  <2>5. u \in Texts /\ FileOf(u) = FileOf(t)
    BY PatchAssumption
  <2>6. Through(p, k - 1)[u] > 0 /\ count'[t] = Through(p, k - 1)[t]
    BY <2>2, <2>3, <2>4, <2>5
  <2> HIDE DEF p
  <2> QED BY <2>1, <2>4, <2>6, ThroughTogether
<1>5. CASE Checkout
  <2>1. SUFFICES ASSUME NEW t \in Texts, NEW u \in Blockers[t], count'[u] > 0, Found(t)'
                 PROVE  count'[t] > 0
    BY DEF Together
  <2>2. u \in Texts /\ ScriptOf(u) = ScriptOf(t) /\ ScriptOf(t) \in Scripts
        /\ FileOf(t) \in Opens(ScriptOf(t))
    BY PatchAssumption
  <2>3. count' = [v \in Texts |-> IF ScriptOf(v) \in Outside THEN count[v] ELSE 0]
        /\ emptied' = emptied \cap UNION {Opens(p) : p \in Scripts \cap Outside}
        /\ tree' = tree
    BY <1>5 DEF Checkout
  <2>4. ScriptOf(t) \in Outside /\ count'[u] = count[u] /\ count'[t] = count[t]
    BY <2>1, <2>2, <2>3
  <2>5. Found(t)
    BY <2>1, <2>2, <2>3, <2>4 DEF Found
  <2> QED BY <2>1, <2>4, <2>5 DEF Together
<1>6. CASE Apply
  BY <1>1, <1>3, <1>6 DEF Apply
<1>7. CASE Interrupt
  BY <1>1, <1>3, <1>7 DEF Interrupt
<1>8. CASE Finish \/ Skip \/ \E f \in BOOLEAN : Refuse(f) \/ Begin(f)
  BY <1>2, <1>8 DEF Finish, Skip, Refuse, Begin
<1>9. CASE UNCHANGED patchVars
  BY <1>2, <1>9 DEF patchVars
<1> QED BY <1>4, <1>5, <1>6, <1>7, <1>8, <1>9 DEF PatchNext, Run

\* A script that does not fail has earned its exit status.
LEMMA EarnedByApplying ==
  ASSUME PatchTypeOK, Together, Apply, NEW q \in Scripts,
         Earned(q) \/ (q = Patches[step] /\ ~Fails(q))
  PROVE  Earned(q)'
<1> DEFINE p == Patches[step]
<1>1. p \in Scripts /\ UNCHANGED <<tree, emptied>> /\ count' = Through(p, Len(FilesOf[p]))
  BY DEF Apply, Scripts
<1>2. \A t \in Texts : count[t] \in Nat /\ count'[t] \in Nat /\ count'[t] >= count[t]
  BY <1>1, ThroughCounts DEF PatchTypeOK
<1>3. (Missing(q)' <=> Missing(q)) /\ \A t \in Texts : Found(t)' <=> Found(t)
  BY <1>1 DEF Missing, Found
<1>4. TextsOf(q) \subseteq Texts
  BY DEF TextsOf
<1>5. CASE Earned(q)
  BY <1>2, <1>3, <1>4, <1>5 DEF Earned
<1>6. CASE q = p /\ ~Fails(q)
  <2>1. ~Missing(q)
    BY <1>6 DEF Fails
  <2>2. ASSUME NEW t \in TextsOf(q), Replaces(q, t) PROVE count'[t] > 0
    <3>1. t \in Texts /\ ScriptOf(t) = q
      BY <2>2 DEF TextsOf
    <3>2. \E i \in 1 .. Len(FilesOf[q]) : FilesOf[q][i] = FileOf(t)
      BY <3>1, PatchAssumption, FilesOfScript DEF Opens
    <3> QED BY <1>1, <1>2, <1>6, <2>2, <3>1, <3>2 DEF Through
  <2>3. ASSUME NEW t \in TextsOf(q), Found(t) PROVE count'[t] > 0
    <3>1. t \in Texts /\ ScriptOf(t) = q
      BY <2>3 DEF TextsOf
    <3>2. CASE Kept(t)
      <4>1. PICK u \in Blockers[t] : count[u] > 0
        BY <3>2 DEF Kept
      <4>2. count[t] > 0
        BY <2>3, <3>1, <4>1 DEF Together
      <4> QED BY <1>2, <3>1, <4>2
    <3>3. CASE ~Kept(t)
      BY <2>1, <2>2, <2>3, <3>1, <3>3 DEF Replaces
    <3> QED BY <3>2, <3>3
  <2>4. ASSUME q \in Strict PROVE \E t \in TextsOf(q) : count'[t] > 0
    <3>1. CASE \E t \in TextsOf(q) : Replaces(q, t)
      BY <2>2, <3>1
    <3>2. ASSUME PatchedBefore(q) PROVE \E t \in TextsOf(q) : count'[t] > 0
      <4>1. FilesOf[q][1] \in Opens(q)
        BY FilesOfScript
      <4>2. \A f \in Opens(q) : \E u \in TextsOf(q) : FileOf(u) = f /\ count[u] > 0
        BY <3>2 DEF PatchedBefore
      <4>3. PICK u \in TextsOf(q) : count[u] > 0
        BY <4>1, <4>2
      <4> QED BY <1>2, <1>4, <4>3
    <3>3. (\E t \in TextsOf(q) : Replaces(q, t)) \/ PatchedBefore(q)
      BY <1>6, <2>4 DEF Fails
    <3> QED BY <3>1, <3>2, <3>3
  <2>5. \A t \in TextsOf(q) : Found(t)' => count'[t] > 0
    BY <1>3, <1>4, <2>3
  <2> QED BY <1>3, <2>1, <2>4, <2>5 DEF Earned
<1> QED BY <1>5, <1>6

\* While the driver runs, it has counted at least the failures of the scripts that have not
\* earned their exit status; and it says "success" or "tolerated" only when it has just run
\* all scripts.
Unearned(i) == ~Earned(Patches[i])

Accounted ==
  /\ step # 0 => report = "running"
  /\ step # 0 => \A i \in 1 .. Len(Patches) : i < step /\ Unearned(i) => failed > 0
  /\ step # 0 => \A i, j \in 1 .. Len(Patches) :
                   i < j /\ j < step /\ Unearned(i) /\ Unearned(j) => failed > 1
  /\ SuccessMeansPatched

\* The step of one script.
LEMMA ApplyKeepsAccounted ==
  ASSUME PatchTypeOK, Together, Accounted, Apply
  PROVE  Accounted'
<1> DEFINE p == Patches[step]
<1>1. step \in 1 .. Len(Patches) /\ step' = step + 1 /\ report' = report
  BY PatchAssumption DEF Apply
<1>4. failed \in Nat /\ failed' = IF Fails(p) THEN failed + 1 ELSE failed
  BY DEF Apply, PatchTypeOK
<1>5. \A i \in 1 .. Len(Patches) : Unearned(i)' => Unearned(i)
  BY PositionIsIndex, EarnedByApplying DEF Unearned
<1>6. ASSUME NEW i \in 1 .. Len(Patches), i = step, Unearned(i)' PROVE Fails(p)
  BY <1>6, PositionIsIndex, EarnedByApplying DEF Unearned
<1>7. \A i \in 1 .. Len(Patches) : i < step' /\ Unearned(i)' => failed' > 0
  <2> SUFFICES ASSUME NEW i \in 1 .. Len(Patches), i < step', Unearned(i)' PROVE failed' > 0
    OBVIOUS
  <2>1. CASE i < step
    BY <2>1, <1>1, <1>4, <1>5 DEF Accounted
  <2>2. CASE i = step
    <3>1. Fails(p)
      BY <2>2, <1>6
    <3> QED BY <3>1, <1>4
  <2> QED BY <2>1, <2>2, <1>1
<1>8. \A i, j \in 1 .. Len(Patches) :
        i < j /\ j < step' /\ Unearned(i)' /\ Unearned(j)' => failed' > 1
  <2> SUFFICES ASSUME NEW i \in 1 .. Len(Patches), NEW j \in 1 .. Len(Patches),
                      i < j, j < step', Unearned(i)', Unearned(j)'
               PROVE  failed' > 1
    OBVIOUS
  <2>1. Unearned(i) /\ Unearned(j) /\ i < step
    BY <1>1, <1>5
  <2>2. failed > 0
    BY <2>1, <1>1 DEF Accounted
  <2>3. CASE j < step
    BY <2>1, <2>3, <1>1, <1>4 DEF Accounted
  <2>4. CASE j = step
    <3>1. Fails(p)
      BY <2>4, <1>6
    <3> QED BY <2>2, <3>1, <1>4
  <2> QED BY <2>3, <2>4, <1>1
<1>9. report' = "running"
  BY <1>1 DEF Accounted
<1> QED BY <1>7, <1>8, <1>9 DEF Accounted, SuccessMeansPatched, Unearned

\* The driver's verdict.
LEMMA FinishKeepsAccounted ==
  ASSUME PatchTypeOK, Accounted, Finish
  PROVE  Accounted'
<1>1. /\ step = Len(Patches) + 1 /\ step' = 0 /\ Len(Patches) \in Nat
      /\ report' = (IF failed = 0 THEN "success" ELSE IF failed <= 1 THEN "tolerated" ELSE "failed")
      /\ UNCHANGED <<tree, count, emptied>>
  BY PatchAssumption DEF Finish
<1>2. \A q \in Scripts : Earned(q)' <=> Earned(q)
  BY <1>1 DEF Earned, Missing, Found
<1>3. \A q \in Scripts : Earned(q) \/ failed > 0
  <2> TAKE q \in Scripts
  <2>2. Position(q) \in 1 .. Len(Patches) /\ Patches[Position(q)] = q
    BY ScriptHasPosition
  <2>3. Position(q) < step /\ step # 0
    BY <2>2, <1>1
  <2> QED BY <2>2, <2>3 DEF Accounted, Unearned
<1>4. \A q, r \in Scripts : Earned(q) \/ Earned(r) \/ q = r \/ failed > 1
  <2> SUFFICES ASSUME NEW q \in Scripts, NEW r \in Scripts, ~Earned(q), ~Earned(r), q # r
               PROVE  failed > 1
    OBVIOUS
  <2> DEFINE i == Position(q)
             j == Position(r)
  <2>2. i \in 1 .. Len(Patches) /\ Patches[i] = q /\ j \in 1 .. Len(Patches) /\ Patches[j] = r
    BY ScriptHasPosition
  <2>3. i # j
    BY <2>2
  <2>4. Unearned(i) /\ Unearned(j)
    BY <2>2 DEF Unearned
  <2>5. i < step /\ j < step /\ step # 0
    BY <2>2, <1>1
  <2> HIDE DEF i, j
  <2> QED BY <2>2, <2>3, <2>4, <2>5 DEF Accounted
<1>5. failed \in Nat
  BY DEF PatchTypeOK
<1>7. SuccessMeansPatched'
  BY <1>1, <1>2, <1>3, <1>4, <1>5 DEF SuccessMeansPatched
<1> QED BY <1>1, <1>7 DEF Accounted

\* What "All patches applied successfully" and the tolerated failure are worth, for every
\* list of scripts, whatever they look for and however earlier runs were interrupted.
THEOREM SuccessIsEarned == PatchSpec => []SuccessMeansPatched
<1>1. PatchInit => Accounted /\ Together
  <2> SUFFICES ASSUME PatchInit PROVE Accounted /\ Together
    OBVIOUS
  <2>1. step = 0 /\ report = "none" /\ \A t \in Texts : count[t] = 0
    BY DEF PatchInit
  <2>2. \A t \in Texts : \A u \in Blockers[t] : ~(count[u] > 0)
    BY <2>1, PatchAssumption
  <2> QED BY <2>1, <2>2 DEF Accounted, SuccessMeansPatched, Together
<1>2. PatchTypeOK /\ Together /\ Accounted /\ [PatchNext]_patchVars => Accounted'
  <2> SUFFICES ASSUME PatchTypeOK, Together, Accounted, [PatchNext]_patchVars PROVE Accounted'
    OBVIOUS
  <2> USE DEF Accounted, SuccessMeansPatched
  <2>1. ASSUME NEW f \in BOOLEAN, Refuse(f) PROVE Accounted'
    BY <2>1 DEF Refuse
  <2>2. ASSUME NEW f \in BOOLEAN, Begin(f) PROVE Accounted'
    <3>1. step' = 1 /\ report' = "running"
      BY <2>2 DEF Begin
    <3> QED BY <3>1
  <2>3. CASE Skip
    BY <2>3 DEF Skip
  <2>4. CASE Apply
    BY <2>4, ApplyKeepsAccounted
  <2>5. CASE Finish
    BY <2>5, FinishKeepsAccounted
  <2>6. CASE Interrupt
    BY <2>6 DEF Interrupt
  <2>7. CASE InterruptWrite
    BY <2>7 DEF InterruptWrite
  <2>8. CASE Checkout
    BY <2>8 DEF Checkout
  <2>9. CASE UNCHANGED patchVars
    BY <2>9 DEF patchVars, Unearned, Earned, Missing, Found
  <2> QED BY <2>1, <2>2, <2>3, <2>4, <2>5, <2>6, <2>7, <2>8, <2>9 DEF PatchNext, Run
<1>3. Accounted => SuccessMeansPatched
  BY DEF Accounted
<1> QED BY <1>1, <1>2, <1>3, NextTogether, PatchTypeCorrect, PTL DEF PatchSpec

-----------------------------------------------------------------------------
(* Idempotence                                                              *)

\* The place of a text is that of its script, and the sentinel guards the texts from its own on.
PlaceOf(t) == Position(ScriptOf(t))
Covered == {t \in Texts : ScriptOf(t) \notin Outside /\ PlaceOf(t) >= PlaceOf(Sentinel)}

\* As long as the sentinel works: none is replaced twice; those that the running driver has
\* not reached are not replaced; the sentinel is there once the driver has passed it; and
\* when the driver does not run and the sentinel is not there, none is replaced.
Guarding ==
  SentinelUsable =>
    /\ \A t \in Covered : count[t] <= 1
    /\ step # 0 => \A t \in Covered : PlaceOf(t) >= step => count[t] = 0
    /\ step > PlaceOf(Sentinel) => count[Sentinel] > 0
    /\ step = 0 /\ count[Sentinel] = 0 => \A t \in Covered : count[t] = 0

\* The place of a text is in the list, and the sentinel is one of the texts it guards.
LEMMA TextsHavePlaces ==
  /\ \A t \in Texts : PlaceOf(t) \in 1 .. Len(Patches) /\ Patches[PlaceOf(t)] = ScriptOf(t)
  /\ Sentinel \in Covered
<1>1. \A t \in Texts : PlaceOf(t) \in 1 .. Len(Patches) /\ Patches[PlaceOf(t)] = ScriptOf(t)
  BY PatchAssumption, ScriptHasPosition DEF PlaceOf
<1>2. Sentinel \in Texts /\ ScriptOf(Sentinel) \notin Outside /\ PlaceOf(Sentinel) \in Int
  BY <1>1, SentinelAssumption
<1> QED BY <1>1, <1>2 DEF Covered

\* The only text at the sentinel's place is the sentinel.
LEMMA SentinelAlone ==
  ASSUME NEW t \in Texts, ScriptOf(t) = ScriptOf(Sentinel)
  PROVE  t = Sentinel
  BY SentinelAssumption DEF TextsOf

\* The step of one script.
LEMMA ApplyKeepsGuarding ==
  ASSUME PatchTypeOK, Guarding, Apply
  PROVE  Guarding'
<1> SUFFICES ASSUME SentinelUsable'
             PROVE  /\ \A t \in Covered : count'[t] <= 1
                    /\ \A t \in Covered : PlaceOf(t) >= step' => count'[t] = 0
                    /\ step' > PlaceOf(Sentinel) => count'[Sentinel] > 0
                    /\ step' # 0
  BY DEF Guarding, Covered
<1> DEFINE p == Patches[step]
<1>1. /\ step \in 1 .. Len(Patches) /\ step' = step + 1 /\ UNCHANGED <<tree, emptied, forced>>
      /\ count' = Through(p, Len(FilesOf[p]))
  BY PatchAssumption DEF Apply
<1>2. SentinelUsable
  BY <1>1 DEF SentinelUsable, Missing, Found
<1>3. Position(p) = step /\ p \in Scripts
  BY <1>1, PositionIsIndex
<1>4. \A t \in Texts : /\ count[t] \in Nat
                       /\ count'[t] = count[t] \/ (PlaceOf(t) = step /\ count'[t] = count[t] + 1)
  BY <1>1, <1>3, ThroughCounts DEF PatchTypeOK, PlaceOf
<1>5. \A t \in Covered : t \in Texts /\ PlaceOf(t) \in 1 .. Len(Patches)
  BY TextsHavePlaces DEF Covered
<1>6. \A t \in Covered : count'[t] <= 1
  BY <1>1, <1>2, <1>4, <1>5 DEF Guarding
<1>7. \A t \in Covered : PlaceOf(t) >= step' => count'[t] = 0
  BY <1>1, <1>2, <1>4, <1>5 DEF Guarding
<1>8. step' > PlaceOf(Sentinel) => count'[Sentinel] > 0
  <2>0. Sentinel \in Texts /\ Sentinel \in Covered /\ PlaceOf(Sentinel) \in 1 .. Len(Patches)
    BY TextsHavePlaces, SentinelAssumption
  <2>1. CASE step > PlaceOf(Sentinel)
    BY <2>0, <2>1, <1>2, <1>4 DEF Guarding
  <2>2. CASE step = PlaceOf(Sentinel)
    <3>1. p = ScriptOf(Sentinel)
      BY <2>0, <2>2, TextsHavePlaces
    <3>2. CASE Kept(Sentinel)
      <4>1. PICK u \in Blockers[Sentinel] : count[u] > 0
        BY <3>2 DEF Kept
      <4>2. u = Sentinel
        BY <2>0, PatchAssumption, SentinelAlone
      <4> QED BY <2>0, <1>4, <4>1, <4>2
    <3>3. CASE ~Kept(Sentinel)
      <4>1. Replaces(p, Sentinel)
        BY <3>1, <3>3, <1>2 DEF Replaces, SentinelUsable
      <4>2. \E i \in 1 .. Len(FilesOf[p]) : FilesOf[p][i] = FileOf(Sentinel)
        BY <2>0, <3>1, <1>3, PatchAssumption, FilesOfScript DEF Opens
      <4>3. count'[Sentinel] = count[Sentinel] + 1
        BY <1>1, <2>0, <4>1, <4>2 DEF Through
      <4> QED BY <2>0, <1>4, <4>3
    <3> QED BY <3>2, <3>3
  <2> QED BY <2>0, <2>1, <2>2, <1>1
<1> QED BY <1>1, <1>6, <1>7, <1>8

\* Whatever ends the driver before its time leaves the sentinel or none of the guarded texts.
LEMMA StopKeepsGuarding ==
  ASSUME PatchTypeOK, Guarding, step \in 1 .. Len(Patches) + 1, step' = 0,
         SentinelUsable' => SentinelUsable,
         SentinelUsable' => count'[Sentinel] >= count[Sentinel],
         \A t \in Texts : \/ count'[t] \in {0, count[t]}
                          \/ PlaceOf(t) = step /\ count'[t] = count[t] + 1
  PROVE  Guarding'
<1> SUFFICES ASSUME SentinelUsable'
             PROVE  /\ \A t \in Covered : count'[t] <= 1
                    /\ count'[Sentinel] = 0 => \A t \in Covered : count'[t] = 0
  <2>1. Sentinel \in Texts /\ PlaceOf(Sentinel) \in 1 .. Len(Patches)
    BY TextsHavePlaces, SentinelAssumption
  <2> QED BY <2>1 DEF Guarding, Covered
<1>0. Sentinel \in Texts /\ Sentinel \in Covered /\ PlaceOf(Sentinel) \in Nat
  BY TextsHavePlaces, SentinelAssumption
<1>1. \A t \in Covered : t \in Texts /\ count[t] \in Nat /\ PlaceOf(t) >= PlaceOf(Sentinel)
                         /\ PlaceOf(t) \in Nat
  BY TextsHavePlaces DEF Covered, PatchTypeOK
<1>2. \A t \in Covered : count'[t] <= 1
  BY <1>1 DEF Guarding
<1>3. ASSUME count'[Sentinel] = 0 PROVE \A t \in Covered : count'[t] = 0
  <2>1. count[Sentinel] = 0 /\ step <= PlaceOf(Sentinel)
    BY <1>0, <1>1, <1>3 DEF Guarding
  <2>2. \A t \in Covered : PlaceOf(t) >= step /\ count[t] = 0
    BY <1>0, <1>1, <2>1 DEF Guarding
  <2>3. ASSUME NEW t \in Covered, PlaceOf(t) = step PROVE t = Sentinel
    <3>1. PlaceOf(t) = PlaceOf(Sentinel) /\ t \in Texts
      BY <1>0, <1>1, <2>1, <2>3
    <3> QED BY <1>0, <3>1, TextsHavePlaces, SentinelAlone
  <2> QED BY <1>1, <1>3, <2>2, <2>3
<1> QED BY <1>2, <1>3

\* However often and however the driver is run, interrupted and run again, no guarded text
\* is replaced twice while the sentinel works, for every list and every sentinel.
THEOREM NothingIsAppliedTwice == PatchSpec => []AppliedOnce
<1>1. PatchInit => Guarding
  <2> SUFFICES ASSUME PatchInit PROVE Guarding
    OBVIOUS
  <2>1. \A t \in Covered : count[t] = 0
    BY DEF PatchInit, Covered
  <2>2. step = 0 /\ PlaceOf(Sentinel) \in 1 .. Len(Patches)
    BY TextsHavePlaces, SentinelAssumption DEF PatchInit
  <2> QED BY <2>1, <2>2 DEF Guarding
<1>2. PatchTypeOK /\ Guarding /\ [PatchNext]_patchVars => Guarding'
  <2> SUFFICES ASSUME PatchTypeOK, Guarding, [PatchNext]_patchVars PROVE Guarding'
    OBVIOUS
  <2> USE DEF Guarding
  <2>0. /\ Sentinel \in Texts /\ Sentinel \in Covered /\ PlaceOf(Sentinel) \in 1 .. Len(Patches)
        /\ Len(Patches) \in Nat /\ DOMAIN Patches = 1 .. Len(Patches)
    BY TextsHavePlaces, SentinelAssumption, PatchAssumption
  <2>1. ASSUME UNCHANGED <<tree, count, emptied, step, forced>> PROVE Guarding'
    BY <2>1 DEF Covered, SentinelUsable, Missing, Found
  <2>2. ASSUME NEW f \in BOOLEAN, Refuse(f) PROVE Guarding'
    BY <2>1, <2>2 DEF Refuse
  <2>3. ASSUME NEW f \in BOOLEAN, Begin(f) PROVE Guarding'
    <3> SUFFICES ASSUME SentinelUsable'
                 PROVE  \A t \in Covered : count'[t] = 0
      <4>1. step' = 1
        BY <2>3 DEF Begin
      <4> QED BY <2>0, <4>1 DEF Covered
    <3>1. ~f /\ SentinelUsable /\ count' = count /\ step = 0 /\ count[Sentinel] \in Nat
      BY <2>0, <2>3 DEF Begin, SentinelUsable, Missing, Found, PatchTypeOK
    <3>2. count[Sentinel] = 0
      BY <2>3, <3>1 DEF Begin, AlreadyPatched
    <3> QED BY <3>1, <3>2
  <2>4. CASE Skip
    BY <2>1, <2>4 DEF Skip
  <2>5. CASE Apply
    BY <2>5, ApplyKeepsGuarding
  <2>6. CASE Finish
    <3>1. step \in 1 .. Len(Patches) + 1 /\ step' = 0 /\ UNCHANGED <<tree, count, emptied, forced>>
      BY <2>0, <2>6 DEF Finish
    <3>2. SentinelUsable' => SentinelUsable
      BY <3>1 DEF SentinelUsable, Missing, Found
    <3>3. count'[Sentinel] >= count[Sentinel]
      BY <2>0, <3>1 DEF PatchTypeOK
    <3> QED BY <3>1, <3>2, <3>3, StopKeepsGuarding
  <2>7. CASE Interrupt
    <3> DEFINE p == Patches[step]
    <3>1. step \in 1 .. Len(Patches) /\ step' = 0 /\ UNCHANGED <<tree, emptied, forced>>
      BY <2>0, <2>7 DEF Interrupt
    <3>2. PICK k \in 0 .. Len(FilesOf[p]) : count' = Through(p, k)
      BY <2>7 DEF Interrupt
    <3>3. p \in Scripts /\ Position(p) = step
      BY <3>1, PositionIsIndex
    <3>4. \A t \in Texts : /\ count[t] \in Nat
                           /\ count'[t] = count[t] \/ (PlaceOf(t) = step /\ count'[t] = count[t] + 1)
      BY <3>2, <3>3, ThroughCounts DEF PatchTypeOK, PlaceOf
    <3>5. SentinelUsable' => SentinelUsable
      BY <3>1 DEF SentinelUsable, Missing, Found
    <3>6. count'[Sentinel] >= count[Sentinel]
      BY <2>0, <3>4
    <3> QED BY <3>1, <3>4, <3>5, <3>6, StopKeepsGuarding
  <2>8. CASE InterruptWrite
    <3> DEFINE p == Patches[step]
    <3>1. step \in 1 .. Len(Patches) /\ step' = 0 /\ UNCHANGED <<tree, forced>>
      BY <2>0, <2>8 DEF InterruptWrite
    <3>2. PICK k \in DOMAIN FilesOf[p] :
            /\ emptied' = emptied \cup {FilesOf[p][k]}
            /\ count' = [t \in Texts |->
                           IF FileOf(t) = FilesOf[p][k] THEN 0 ELSE Through(p, k - 1)[t]]
      BY <2>8 DEF InterruptWrite
    <3>3. p \in Scripts /\ Position(p) = step
      BY <3>1, PositionIsIndex
    <3>4. \A t \in Texts :
            /\ count[t] \in Nat
            /\ \/ Through(p, k - 1)[t] = count[t]
               \/ PlaceOf(t) = step /\ Through(p, k - 1)[t] = count[t] + 1
      BY <3>3, ThroughCounts DEF PatchTypeOK, PlaceOf
    <3>5. \A t \in Texts : \/ count'[t] \in {0, count[t]}
                           \/ PlaceOf(t) = step /\ count'[t] = count[t] + 1
      BY <3>2, <3>4
    <3>6. SentinelUsable' => SentinelUsable /\ FileOf(Sentinel) # FilesOf[p][k]
      BY <3>1, <3>2 DEF SentinelUsable, Missing, Found
    <3>7. SentinelUsable' => count'[Sentinel] >= count[Sentinel]
      BY <2>0, <3>2, <3>4, <3>6
    <3> QED BY <3>1, <3>5, <3>6, <3>7, StopKeepsGuarding
  <2>9. CASE Checkout
    <3>1. step = 0 /\ step' = 0 /\ \A t \in Texts : ScriptOf(t) \notin Outside => count'[t] = 0
      BY <2>9 DEF Checkout
    <3>2. \A t \in Covered : count'[t] = 0
      BY <3>1 DEF Covered
    <3> QED BY <2>0, <3>1, <3>2 DEF Covered
  <2>10. CASE UNCHANGED patchVars
    BY <2>1, <2>10 DEF patchVars
  <2> QED BY <2>2, <2>3, <2>4, <2>5, <2>6, <2>7, <2>8, <2>9, <2>10 DEF PatchNext, Run
<1>3. Guarding => AppliedOnce
  BY DEF Guarding, AppliedOnce, Covered, PlaceOf
<1> QED BY <1>1, <1>2, <1>3, PatchTypeCorrect, PTL DEF PatchSpec

-----------------------------------------------------------------------------
(* The runner: commands and frames under way.                                *)

Commands == [kind : Kinds, value : Values]
Frames ==
  [probe : {"SPS"}, life : Nat, closed : BOOLEAN]
    \cup [probe : {"DIAG"}, life : Nat, bits : SUBSET Kinds]
    \cup [probe : {"STATE"}, life : Nat, bms : BmsStates]

-----------------------------------------------------------------------------
(* The last command of a kind.                                               *)

\* A set of positions that is not empty has a greatest element, and only one.
LEMMA MaxIsLast ==
  ASSUME NEW n \in Nat, NEW T \in SUBSET (1 .. n), T # {}
  PROVE  Max(T) \in T /\ \A j \in T : j <= Max(T)
<1> DEFINE R == {pair \in Nat \X Nat : pair[1] < pair[2]}
           D == {n - k : k \in T}
<1>1. IsWellFoundedOn(R, Nat)
  BY NatLessThanWellFounded DEF OpToRel
<1>2. D \subseteq Nat /\ D # {}
  <2>1. \A k \in T : n - k \in Nat
    OBVIOUS
  <2> QED BY <2>1
<1>3. \A x, y \in D : y < x => <<y, x>> \in R
  BY <1>2
<1> HIDE DEF R, D
<1>4. PICK d \in D : \A y \in D : ~(<<y, d>> \in R)
  BY <1>1, <1>2, WFMin
<1>5. PICK k \in T : d = n - k
  BY <1>4 DEF D
<1>6. ASSUME NEW j \in T PROVE k >= j
  <2>1. n - j \in D /\ n - j \in Nat /\ d \in Nat
    BY <1>2, <1>4 DEF D
  <2>2. ~(n - j < d)
    BY <1>3, <1>4, <2>1
  <2>3. j \in Nat /\ k \in Nat
    OBVIOUS
  <2> QED BY <1>5, <2>1, <2>2, <2>3
<1>7. \E x \in T : \A y \in T : x >= y
  BY <1>6
<1>8. Max(T) \in T /\ \A y \in T : Max(T) >= y
  BY <1>7 DEF Max
<1>9. \A j \in T : j \in Nat
  OBVIOUS
<1> QED BY <1>8, <1>9

\* An element no other exceeds is that one.
LEMMA LastIsMax ==
  ASSUME NEW n \in Nat, NEW T \in SUBSET (1 .. n), NEW x \in T, \A j \in T : j <= x
  PROVE  Max(T) = x
<1>1. Max(T) \in T /\ x <= Max(T) /\ Max(T) <= x
  <2>1. T # {}
    OBVIOUS
  <2>2. Max(T) \in T /\ \A j \in T : j <= Max(T)
    BY <2>1, MaxIsLast
  <2> QED BY <2>2
<1>2. \A j \in T : j \in Nat
  OBVIOUS
<1>3. x \in Nat /\ Max(T) \in Nat
  BY <1>1, <1>2
<1> QED BY <1>1, <1>3

\* Where the commands of kind k stand in c, and the value o will have for k when c is read.
Sent(c, k) == {i \in DOMAIN c : c[i].kind = k}
Eventual(o, c, k) == IF Sent(c, k) = {} THEN o[k] ELSE c[Max(Sent(c, k))].value

\* Final is about the present table and socket, Eventual about any.
LEMMA FinalIsEventual ==
  \A k : /\ Final(k) = Eventual(overrides, cmds, k)
         /\ Final(k)' = Eventual(overrides', cmds', k)
BY DEF Final, Eventual, Sent

\* The positions of a kind are positions of the socket.
LEMMA SentPositions ==
  ASSUME NEW c \in Seq(Commands), NEW k
  PROVE  Len(c) \in Nat /\ Sent(c, k) \in SUBSET (1 .. Len(c))
BY LenProperties DEF Sent

\* Reading a command changes nothing in what will be in the table.
LEMMA ReadKeepsEventual ==
  ASSUME NEW c \in Seq(Commands), c # <<>>, NEW k \in Kinds, NEW o \in [Kinds -> Values]
  PROVE  Eventual([o EXCEPT ![Head(c).kind] = Head(c).value], Tail(c), k) = Eventual(o, c, k)
<1> DEFINE r == [o EXCEPT ![Head(c).kind] = Head(c).value]
           t == Tail(c)
           S == Sent(c, k)
           T == Sent(t, k)
<1>1. /\ Len(c) \in Nat /\ Len(c) > 0 /\ Head(c) = c[1] /\ c[1] \in Commands
      /\ t \in Seq(Commands) /\ Len(t) = Len(c) - 1
      /\ \A i \in 1 .. Len(t) : t[i] = c[i + 1]
  BY HeadTailProperties, LenProperties, ElementOfSeq, EmptySeq
<1>2. S \in SUBSET (1 .. Len(c)) /\ T \in SUBSET (1 .. Len(t))
  BY <1>1, SentPositions
<1>3. \A i \in 1 .. Len(t) : i \in T <=> i + 1 \in S
  <2>1. DOMAIN c = 1 .. Len(c) /\ DOMAIN t = 1 .. Len(t)
    BY <1>1, LenProperties
  <2> QED BY <1>1, <2>1 DEF Sent
<1>4. 1 \in S <=> c[1].kind = k
  <2>1. DOMAIN c = 1 .. Len(c)
    BY LenProperties
  <2> QED BY <1>1, <2>1 DEF Sent
<1>5. r[k] = IF c[1].kind = k THEN c[1].value ELSE o[k]
  BY <1>1 DEF Commands
<1> HIDE DEF r, t, S, T
<1>6. CASE T = {}
  <2>1. \A j \in S : j = 1
    <3> SUFFICES ASSUME NEW j \in S, j # 1 PROVE FALSE
      OBVIOUS
    <3>1. j \in 1 .. Len(c)
      BY <1>2
    <3>2. j - 1 \in 1 .. Len(t) /\ (j - 1) + 1 = j
      BY <1>1, <3>1
    <3>3. j - 1 \in T
      BY <1>3, <3>2
    <3> QED BY <1>6, <3>3
  <2>2. CASE c[1].kind = k
    <3>1. S = {1}
      BY <1>4, <2>1, <2>2
    <3>2. Max(S) = 1
      <4>1. 1 \in S /\ \A j \in S : j <= 1
        BY <3>1
      <4>2. S \in SUBSET (1 .. Len(c)) /\ Len(c) \in Nat
        BY <1>1, <1>2
      <4> QED BY <4>1, <4>2, LastIsMax
    <3> QED BY <1>5, <1>6, <2>2, <3>1, <3>2 DEF Eventual, S, T, r, t
  <2>3. CASE c[1].kind # k
    <3>1. S = {}
      BY <1>4, <2>1, <2>3
    <3> QED BY <1>5, <1>6, <2>3, <3>1 DEF Eventual, S, T, r, t
  <2> QED BY <2>2, <2>3
<1>7. CASE T # {}
  <2> DEFINE m == Max(T)
  <2>1. m \in T /\ (\A j \in T : j <= m) /\ Len(t) \in Nat
    <3>1. Len(t) \in Nat
      BY <1>1, LenProperties
    <3>2. Max(T) \in T /\ \A j \in T : j <= Max(T)
      BY <1>2, <1>7, <3>1, MaxIsLast
    <3> QED BY <3>1, <3>2
  <2>2. m \in 1 .. Len(t)
    BY <1>2, <2>1
  <2> HIDE DEF m
  <2>3. m + 1 \in S
    BY <1>3, <2>1, <2>2
  <2>4. ASSUME NEW j \in S PROVE j <= m + 1
    <3>1. j \in 1 .. Len(c)
      BY <1>2
    <3>2. CASE j = 1
      BY <2>2, <3>2
    <3>3. CASE j # 1
      <4>1. j - 1 \in 1 .. Len(t) /\ (j - 1) + 1 = j
        BY <1>1, <3>1, <3>3
      <4>2. j - 1 \in T
        BY <1>3, <4>1
      <4>3. j - 1 <= m
        BY <2>1, <4>2
      <4> QED BY <2>2, <3>1, <4>3
    <3> QED BY <3>2, <3>3
  <2>5. Max(S) = m + 1
    BY <1>1, <1>2, <2>3, <2>4, LastIsMax
  <2>6. t[m] = c[m + 1]
    BY <1>1, <2>2
  <2> QED BY <1>7, <2>3, <2>5, <2>6 DEF Eventual, S, T, m, t
<1> QED BY <1>6, <1>7 DEF r, t

\* Commands that all say "off" leave "off" for every kind among them and for every kind that
\* was "off" before.
LEMMA OffsWithdraw ==
  ASSUME NEW c \in Seq(Commands), NEW d \in Seq(Commands), NEW k \in Kinds, NEW o,
         \A i \in 1 .. Len(d) : d[i].value = "off",
         Eventual(o, c, k) = "off" \/ \E i \in 1 .. Len(d) : d[i].kind = k
  PROVE  Eventual(o, c \o d, k) = "off"
<1> DEFINE e == c \o d
           S == Sent(e, k)
           T == Sent(c, k)
<1>1. /\ e \in Seq(Commands) /\ Len(e) = Len(c) + Len(d)
      /\ Len(c) \in Nat /\ Len(d) \in Nat
      /\ \A i \in 1 .. Len(c) : e[i] = c[i]
      /\ \A i \in 1 .. Len(d) : e[Len(c) + i] = d[i]
  <2>1. Len(c) \in Nat /\ Len(d) \in Nat
    BY LenProperties
  <2>2. e \in Seq(Commands) /\ Len(e) = Len(c) + Len(d)
        /\ \A i \in 1 .. Len(c) + Len(d) : e[i] = IF i <= Len(c) THEN c[i] ELSE d[i - Len(c)]
    BY ConcatProperties
  <2>3. \A i \in 1 .. Len(d) : Len(c) + i \in 1 .. Len(c) + Len(d)
                               /\ ~(Len(c) + i <= Len(c)) /\ (Len(c) + i) - Len(c) = i
    BY <2>1
  <2>4. \A i \in 1 .. Len(c) : i \in 1 .. Len(c) + Len(d) /\ i <= Len(c)
    BY <2>1
  <2> QED BY <2>1, <2>2, <2>3, <2>4
<1>2. S \in SUBSET (1 .. Len(e)) /\ T \in SUBSET (1 .. Len(c)) /\ Len(e) \in Nat
  BY <1>1, SentPositions
<1>3. /\ \A i \in 1 .. Len(e) : i \in S <=> e[i].kind = k
      /\ \A i \in 1 .. Len(c) : i \in T <=> c[i].kind = k
  <2>1. DOMAIN e = 1 .. Len(e) /\ DOMAIN c = 1 .. Len(c)
    BY <1>1, LenProperties
  <2> QED BY <2>1 DEF Sent
<1>4. Eventual(o, e, k) = (IF S = {} THEN o[k] ELSE e[Max(S)].value)
      /\ Eventual(o, c, k) = (IF T = {} THEN o[k] ELSE c[Max(T)].value)
  BY DEF Eventual
<1> HIDE DEF e, S, T
<1>5. CASE \E i \in 1 .. Len(d) : d[i].kind = k
  <2>1. PICK i \in 1 .. Len(d) : d[i].kind = k
    BY <1>5
  <2>2. Len(c) + i \in 1 .. Len(e)
    BY <1>1
  <2>3. Len(c) + i \in S
    BY <1>1, <1>3, <2>1, <2>2
  <2> DEFINE m == Max(S)
  <2>4. m \in S /\ Len(c) + i <= m
    BY <1>2, <2>3, MaxIsLast
  <2> HIDE DEF m
  <2>5. m \in 1 .. Len(e)
    BY <1>2, <2>4
  <2>6. m - Len(c) \in 1 .. Len(d) /\ Len(c) + (m - Len(c)) = m
    BY <1>1, <2>4, <2>5
  <2>7. e[m].value = "off"
    BY <1>1, <2>6
  <2> QED BY <1>4, <2>3, <2>7 DEF m, e
<1>6. CASE ~ \E i \in 1 .. Len(d) : d[i].kind = k
  <2>1. \A i \in S : i \in T
    <3>1. ASSUME NEW i \in S PROVE i \in T
      <4>1. i \in 1 .. Len(e) /\ e[i].kind = k
        BY <1>2, <1>3
      <4>2. CASE i <= Len(c)
        <5>1. i \in 1 .. Len(c)
          BY <1>1, <4>1, <4>2
        <5> QED BY <1>1, <1>3, <4>1, <5>1
      <4>3. CASE ~(i <= Len(c))
        <5>1. i - Len(c) \in 1 .. Len(d) /\ Len(c) + (i - Len(c)) = i
          BY <1>1, <4>1, <4>3
        <5> QED BY <1>1, <1>6, <4>1, <5>1
      <4> QED BY <4>2, <4>3
    <3> QED BY <3>1
  <2>2. \A i \in T : i \in S
    <3>1. \A i \in 1 .. Len(c) : i \in 1 .. Len(e)
      BY <1>1
    <3> QED BY <1>1, <1>2, <1>3, <3>1
  <2>3. S = T
    BY <2>1, <2>2
  <2>4. Eventual(o, c, k) = "off"
    BY <1>6
  <2>5. T # {} => Max(T) \in 1 .. Len(c)
    BY <1>1, <1>2, MaxIsLast
  <2> QED BY <1>1, <1>4, <2>3, <2>4, <2>5 DEF e
<1> QED BY <1>5, <1>6

-----------------------------------------------------------------------------
(* What the injector does to the commands under way.                         *)

\* SetToSeq lists a finite set: every element is in it.
LEMMA SetIsListed ==
  ASSUME NEW S, IsFiniteSet(S)
  PROVE  /\ Cardinality(S) \in Nat
         /\ SetToSeq(S) \in [1 .. Cardinality(S) -> S]
         /\ \A x \in S : \E i \in 1 .. Cardinality(S) : SetToSeq(S)[i] = x
<1> DEFINE n == Cardinality(S)
           f == SetToSeq(S)
<1>1. n \in Nat /\ ExistsBijection(1 .. n, S)
  BY FS_CardinalityType
<1> HIDE DEF n
<1>2. \E g \in [1 .. n -> S] : IsInjective(g)
  BY <1>1 DEF ExistsBijection, Bijection, Injection
<1>3. f \in [1 .. n -> S] /\ IsInjective(f)
  BY <1>2 DEF SetToSeq, n
<1> HIDE DEF f
<1>4. f \in Injection(1 .. n, S)
  BY <1>3 DEF Injection
<1>5. 1 \in Int /\ n \in Int
  BY <1>1
<1>6. Cardinality(1 .. n) = n
  BY <1>1, <1>5, FS_Interval
<1>7. Cardinality(1 .. n) = Cardinality(S)
  BY <1>6 DEF n
<1>8. f \in Surjection(1 .. n, S)
  BY <1>4, <1>7, FS_Injection
<1> QED BY <1>1, <1>3, <1>8 DEF Surjection, f, n

\* Intervals tell their lengths.
LEMMA SameInterval ==
  ASSUME NEW m \in Nat, NEW n \in Nat, 1 .. m = 1 .. n
  PROVE  m = n
<1>1. CASE m < n
  <2>1. n \in 1 .. n /\ n \notin 1 .. m
    BY <1>1
  <2> QED BY <2>1
<1>2. CASE n < m
  <2>1. m \in 1 .. m /\ m \notin 1 .. n
    BY <1>2
  <2> QED BY <2>1
<1> QED BY <1>1, <1>2

\* The socket and the table as far as commands are concerned.
Commanded == cmds \in Seq(Commands) /\ overrides \in [Kinds -> Values]

\* inject_multi keeps the type of the commands.
LEMMA SendIsTyped ==
  ASSUME Commanded, NEW k \in Kinds, NEW v \in Values, Send(k, v)
  PROVE  cmds' \in Seq(Commands)
<1>1. [kind |-> k, value |-> v] \in Commands
  BY DEF Commands
<1>2. Append(cmds, [kind |-> k, value |-> v]) \in Seq(Commands)
  BY <1>1, AppendProperties DEF Commanded
<1> QED BY <1>2 DEF Send, Commanded

\* After clear() every kind will be "off", whatever was under way.
LEMMA ClearWithdraws ==
  ASSUME Commanded, Clear
  PROVE  /\ cmds' \in Seq(Commands)
         /\ \A k \in Kinds : Eventual(overrides, cmds', k) = "off"
<1> DEFINE A == {k \in Kinds : Final(k) # "off"}
           n == Cardinality(A)
           d == [i \in 1 .. n |-> [kind |-> SetToSeq(A)[i], value |-> "off"]]
<1>1. IsFiniteSet(A)
  <2>1. A \in SUBSET Kinds
    OBVIOUS
  <2> HIDE DEF A
  <2> QED BY <2>1, RunnerAssumption, FS_Subset
<1>2. \A k \in A : k \in Kinds
  OBVIOUS
<1>3. \A k \in Kinds : k \notin A => Eventual(overrides, cmds, k) = "off"
  BY FinalIsEventual
<1> HIDE DEF A
<1>4. /\ n \in Nat /\ SetToSeq(A) \in [1 .. n -> A]
      /\ \A x \in A : \E i \in 1 .. n : SetToSeq(A)[i] = x
  BY <1>1, SetIsListed
<1>5. cmds' = cmds \o d
  <2>1. DOMAIN SetToSeq(A) = 1 .. n
    BY <1>4
  <2> QED BY <2>1 DEF Clear, A
<1> HIDE DEF n
<1>6. \A i \in 1 .. n : [kind |-> SetToSeq(A)[i], value |-> "off"] \in Commands
  BY <1>2, <1>4 DEF Commands, Values
<1>7. d \in [1 .. n -> Commands]
  BY <1>6
<1>8. d \in Seq(Commands) /\ Len(d) = n
  <2> HIDE DEF d
  <2>1. d \in Seq(Commands)
    BY <1>4, <1>7, SeqDef
  <2>2. DOMAIN d = 1 .. Len(d) /\ Len(d) \in Nat
    BY <2>1, LenProperties
  <2>3. n \in Nat /\ 1 .. Len(d) = 1 .. n
    BY <1>4, <1>7, <2>2
  <2>4. Len(d) = n
    BY <2>2, <2>3, SameInterval
  <2> QED BY <2>1, <2>4
<1>9. \A i \in 1 .. n : d[i].value = "off" /\ d[i].kind = SetToSeq(A)[i]
  OBVIOUS
<1> HIDE DEF d
<1>10. cmds' \in Seq(Commands)
  BY <1>5, <1>8, ConcatProperties DEF Commanded
<1>11. ASSUME NEW k \in Kinds PROVE Eventual(overrides, cmds \o d, k) = "off"
  <2>1. Eventual(overrides, cmds, k) = "off" \/ \E i \in 1 .. Len(d) : d[i].kind = k
    BY <1>3, <1>4, <1>8, <1>9
  <2>2. \A i \in 1 .. Len(d) : d[i].value = "off"
    BY <1>8, <1>9
  <2> QED BY <1>8, <2>1, <2>2, OffsWithdraw DEF Commanded
<1> QED BY <1>5, <1>10, <1>11

\* Nothing is left of an override when the process is gone.
LEMMA BlankWithdraws ==
  ASSUME Blank
  PROVE  /\ cmds' \in Seq(Commands) /\ overrides' \in [Kinds -> Values]
         /\ \A k \in Kinds : Eventual(overrides', cmds', k) = "off"
<1>1. cmds' = <<>> /\ overrides' = [k \in Kinds |-> "off"]
  BY DEF Blank
<1>2. cmds' \in Seq(Commands) /\ overrides' \in [Kinds -> Values]
  BY <1>1, EmptySeq DEF Values
<1>3. \A k : Sent(<<>>, k) = {}
  BY DEF Sent
<1> QED BY <1>1, <1>2, <1>3 DEF Eventual

-----------------------------------------------------------------------------
(* What each step does to commands and frames.                               *)

\* Where nothing of a test is left.
Between == {"initial", "check", "start", "done", "settle"}

\* A test that is running has a kind it overrides.
LEMMA TestHasKind ==
  ASSUME TypeOK, test.protocol \in AllProtocols
  PROVE  test.kind \in Kinds
<1>1. test # NoTest
  <2>1. NoTest.protocol = "none"
    BY DEF NoTest
  <2>2. "none" \notin AllProtocols
    BY DEF AllProtocols
  <2> QED BY <2>1, <2>2
<1> QED BY <1>1 DEF TypeOK, Tests

\* Five things can happen to the commands; only within a test does the runner send an
\* override, and only from there does it come to a test's end by way of clear().
LEMMA CommandSteps ==
  ASSUME TypeOK, [Next]_vars
  PROVE  \/ UNCHANGED <<cmds, overrides>> /\ (pc' \in Between => pc \in Between)
         \/ /\ UNCHANGED overrides /\ pc' \notin Between
            /\ \E k \in Kinds, v \in Values : Send(k, v)
         \/ UNCHANGED overrides /\ Clear
         \/ Blank
         \/ VecuRead
<1> DEFINE Quiet == UNCHANGED <<cmds, overrides>> /\ (pc' \in Between => pc \in Between)
           Sends == /\ UNCHANGED overrides /\ pc' \notin Between
                    /\ \E k \in Kinds, v \in Values : Send(k, v)
           Clears == UNCHANGED overrides /\ Clear
<1>0. "bad" \in Values /\ "safe" \in Values
  BY DEF Values
<1>1. CASE Receive
  BY <1>1 DEF Receive, vecuVars
<1>2. ASSUME NEW more \in SUBSET {"rest"}, Latch(more) PROVE Quiet
  <2>1. pc \in Between /\ UNCHANGED <<cmds, vecuVars>>
    BY <1>2 DEF Latch, Checking, Between
  <2> QED BY <2>1 DEF vecuVars
<1>3. CASE StartTest
  <2>1. UNCHANGED overrides /\ pc' = "watch"
    BY <1>3 DEF StartTest, vecuVars
  <2>2. PICK t \in Tests : Send(t.kind, "bad")
    BY <1>3 DEF StartTest
  <2>3. t.kind \in Kinds
    BY DEF Tests
  <2>4. \E k \in Kinds, v \in Values : Send(k, v)
    BY <1>0, <2>2, <2>3
  <2> QED BY <2>1, <2>4 DEF Between
<1>4. CASE AfterTest
  BY <1>4 DEF AfterTest, vecuVars
<1>5. CASE WatchDirect
  <2>1. UNCHANGED overrides /\ pc' = "judged" /\ Send(test.kind, "bad")
    BY <1>5 DEF WatchDirect, vecuVars, Judge, Goto
  <2>2. test.kind \in Kinds
    BY <1>5, TestHasKind DEF WatchDirect, AllProtocols
  <2>3. \E k \in Kinds, v \in Values : Send(k, v)
    BY <1>0, <2>1, <2>2
  <2> QED BY <2>1, <2>3 DEF Between
<1>6. CASE WatchClears
  BY <1>6 DEF WatchClears, vecuVars
<1>7. CASE WatchRecovery
  <2>1. UNCHANGED overrides /\ pc' \in {"judged", "hold", "withdraw"}
    BY <1>7 DEF WatchRecovery, vecuVars, Judge, Goto
  <2>2. test.kind \in Kinds
    <3>1. test.protocol \in AllProtocols
      BY <1>7 DEF WatchRecovery, AllProtocols
    <3> QED BY <3>1, TestHasKind
  <2>3. Clear \/ Send(test.kind, "bad") \/ Send(test.kind, "safe")
    BY <1>7 DEF WatchRecovery
  <2>4. Clear \/ \E k \in Kinds, v \in Values : Send(k, v)
    BY <1>0, <2>2, <2>3
  <2> QED BY <2>1, <2>4 DEF Between
<1>8. CASE WatchOpens
  BY <1>8 DEF WatchOpens, vecuVars, Judge, Goto, Between
<1>9. CASE WatchVaries
  <2>1. UNCHANGED overrides /\ pc' = "watch"
    BY <1>9 DEF WatchVaries, vecuVars
  <2>2. test.kind \in Kinds
    BY <1>9, TestHasKind DEF WatchVaries, AllProtocols
  <2>3. \E v \in {"bad", "safe"} : Send(test.kind, v)
    BY <1>9 DEF WatchVaries
  <2>4. \E k \in Kinds, v \in Values : Send(k, v)
    BY <1>0, <2>2, <2>3
  <2> QED BY <2>1, <2>4 DEF Between
<1>10. CASE WithdrawSeen \/ WithdrawTimeout \/ HoldBroken \/ HoldTimeout \/ WatchTimeout
  <2>1. pc' = "judged" /\ UNCHANGED <<cmds, vecuVars>>
    BY <1>10 DEF WithdrawSeen, WithdrawTimeout, HoldBroken, HoldTimeout, WatchTimeout, Judge, Goto
  <2> QED BY <2>1 DEF vecuVars, Between
<1>11. CASE WithdrawAgain
  <2>1. UNCHANGED overrides /\ pc' = "judged" /\ Send(test.kind, "bad")
    BY <1>11 DEF WithdrawAgain, vecuVars, Judge, Goto
  <2>2. test.kind \in Kinds
    BY <1>11, TestHasKind DEF WithdrawAgain, AllProtocols
  <2>3. \E k \in Kinds, v \in Values : Send(k, v)
    BY <1>0, <2>1, <2>2
  <2> QED BY <2>1, <2>3 DEF Between
<1>12. CASE InitialTimeout \/ SkipTest \/ Settled
  <2>1. pc \in Between /\ UNCHANGED <<cmds, vecuVars>>
    BY <1>12 DEF InitialTimeout, SkipTest, Settled, Between
  <2> QED BY <2>1 DEF vecuVars
<1>13. CASE ClearAndRetry
  BY <1>13 DEF ClearAndRetry, vecuVars
<1>14. CASE Restart
  BY <1>14 DEF Restart, NewVecu
<1>15. CASE VecuDetect \/ VecuRecover \/ VecuState \/ VecuProbe
  <2>1. UNCHANGED <<cmds, overrides, runnerVars>>
    BY <1>15 DEF VecuDetect, VecuRecover, VecuState, VecuProbe, vecuVars
  <2> QED BY <2>1 DEF runnerVars
<1>16. CASE VecuCrash
  BY <1>16 DEF VecuCrash
<1>17. CASE UNCHANGED vars
  BY <1>17 DEF vars, runnerVars, vecuVars
<1>18. CASE Runner
  <2>1. CASE Deadline
    BY <2>1, <1>10, <1>12, <1>13, <1>14 DEF Deadline
  <2> QED BY <1>18, <2>1, <1>1, <1>2, <1>3, <1>4, <1>5, <1>6, <1>7, <1>8, <1>9, <1>10, <1>11 DEF Runner
<1>19. CASE Vecu
  BY <1>19, <1>15, <1>16 DEF Vecu
<1> QED BY <1>17, <1>18, <1>19 DEF Next

\* The commands keep their type, and between tests every kind is or will be "off".
Withdrawn ==
  /\ Commanded
  /\ pc \in Between => \A k \in Kinds : Eventual(overrides, cmds, k) = "off"

\* Every step keeps that.
LEMMA WithdrawnStep ==
  ASSUME TypeOK, Withdrawn, [Next]_vars
  PROVE  Withdrawn'
<1>1. CASE UNCHANGED <<cmds, overrides>> /\ (pc' \in Between => pc \in Between)
  BY <1>1 DEF Withdrawn, Commanded
<1>2. CASE /\ UNCHANGED overrides /\ pc' \notin Between
           /\ \E k \in Kinds, v \in Values : Send(k, v)
  <2>1. cmds' \in Seq(Commands)
    BY <1>2, SendIsTyped DEF Withdrawn
  <2> QED BY <1>2, <2>1 DEF Withdrawn, Commanded
<1>3. CASE UNCHANGED overrides /\ Clear
  <2>1. cmds' \in Seq(Commands) /\ \A k \in Kinds : Eventual(overrides, cmds', k) = "off"
    BY <1>3, ClearWithdraws DEF Withdrawn
  <2> QED BY <1>3, <2>1 DEF Withdrawn, Commanded
<1>4. CASE Blank
  <2>1. /\ cmds' \in Seq(Commands) /\ overrides' \in [Kinds -> Values]
        /\ \A k \in Kinds : Eventual(overrides', cmds', k) = "off"
    BY <1>4, BlankWithdraws
  <2> QED BY <2>1 DEF Withdrawn, Commanded
<1>5. CASE VecuRead
  <2>1. /\ cmds # <<>> /\ cmds' = Tail(cmds) /\ pc' = pc
        /\ overrides' = [overrides EXCEPT ![Head(cmds).kind] = Head(cmds).value]
    BY <1>5 DEF VecuRead, runnerVars
  <2>2. cmds \in Seq(Commands) /\ overrides \in [Kinds -> Values]
    BY DEF Withdrawn, Commanded
  <2>3. Head(cmds) \in Commands /\ cmds' \in Seq(Commands)
    BY <2>1, <2>2, HeadTailProperties
  <2>4. overrides' \in [Kinds -> Values]
    BY <2>1, <2>2, <2>3 DEF Commands
  <2>5. \A k \in Kinds : Eventual(overrides', cmds', k) = Eventual(overrides, cmds, k)
    BY <2>1, <2>2, ReadKeepsEventual
  <2> QED BY <2>1, <2>3, <2>4, <2>5 DEF Withdrawn, Commanded
<1> QED BY <1>1, <1>2, <1>3, <1>4, <1>5, CommandSteps

\* Four things can happen to the frames the runner has not read, and a new life begins only
\* with an empty socket.
LEMMA FrameSteps ==
  ASSUME [Next]_vars
  PROVE  \/ UNCHANGED <<frames, life>>
         \/ frames' = <<>> /\ life' \in {life, life + 1}
         \/ UNCHANGED life /\ frames # <<>> /\ frames' = Tail(frames)
         \/ VecuProbe
<1>1. CASE Receive
  BY <1>1 DEF Receive, vecuVars
<1>2. ASSUME NEW more \in SUBSET {"rest"}, Latch(more) PROVE UNCHANGED <<frames, life>>
  <2>1. UNCHANGED <<frames, vecuVars>>
    BY <1>2 DEF Latch
  <2> QED BY <2>1 DEF vecuVars
<1>3. CASE StartTest \/ WatchDirect \/ WatchClears \/ WatchRecovery \/ WatchOpens \/ WatchVaries
  <2>1. UNCHANGED <<frames, vecuVars>>
    BY <1>3 DEF StartTest, WatchDirect, WatchClears, WatchRecovery, WatchOpens, WatchVaries
  <2> QED BY <2>1 DEF vecuVars
<1>4. CASE AfterTest
  <2>1. UNCHANGED vecuVars /\ (frames' = <<>> \/ UNCHANGED frames)
    BY <1>4 DEF AfterTest
  <2> QED BY <2>1 DEF vecuVars
<1>5. CASE WithdrawSeen \/ WithdrawAgain \/ HoldBroken \/ WatchTimeout \/ WithdrawTimeout
             \/ HoldTimeout
  <2>1. UNCHANGED <<frames, vecuVars>>
    BY <1>5 DEF WithdrawSeen, WithdrawAgain, HoldBroken, WatchTimeout, WithdrawTimeout, HoldTimeout
  <2> QED BY <2>1 DEF vecuVars
<1>6. CASE InitialTimeout \/ ClearAndRetry \/ SkipTest \/ Settled
  <2>1. UNCHANGED <<frames, vecuVars>>
    BY <1>6 DEF InitialTimeout, ClearAndRetry, SkipTest, Settled
  <2> QED BY <2>1 DEF vecuVars
<1>7. CASE Restart
  BY <1>7 DEF Restart
<1>8. CASE VecuRead \/ VecuDetect \/ VecuRecover \/ VecuState \/ VecuCrash
  BY <1>8 DEF VecuRead, VecuDetect, VecuRecover, VecuState, VecuCrash
<1>9. CASE UNCHANGED vars
  BY <1>9 DEF vars, vecuVars
<1>10. CASE Runner
  <2>1. CASE Deadline
    BY <2>1, <1>5, <1>6, <1>7 DEF Deadline
  <2> QED BY <1>10, <2>1, <1>1, <1>2, <1>3, <1>4, <1>5 DEF Runner
<1> QED BY <1>8, <1>9, <1>10 DEF Next, Vecu

\* The frames keep their type and fit into the buffer; all are of the present life.
Socketed ==
  /\ frames \in Seq(Frames) /\ Len(frames) <= MaxFrames
  /\ \A i \in 1 .. Len(frames) : frames[i].life = life

\* Every step keeps that too.
LEMMA SocketedStep ==
  ASSUME TypeOK, Socketed, [Next]_vars
  PROVE  Socketed'
<1>0. Len(frames) \in Nat /\ MaxFrames \in Nat /\ life \in Nat
  BY LenProperties, RunnerAssumption DEF Socketed, TypeOK
<1>1. CASE UNCHANGED <<frames, life>>
  BY <1>1 DEF Socketed
<1>2. CASE frames' = <<>>
  <2>1. frames' \in Seq(Frames) /\ Len(frames') = 0
    BY <1>2, EmptySeq
  <2> QED BY <1>0, <2>1 DEF Socketed
<1>3. CASE UNCHANGED life /\ frames # <<>> /\ frames' = Tail(frames)
  <2>1. /\ frames' \in Seq(Frames) /\ Len(frames') = Len(frames) - 1
        /\ \A i \in 1 .. Len(frames') : frames'[i] = frames[i + 1]
    BY <1>3, HeadTailProperties DEF Socketed
  <2>2. \A i \in 1 .. Len(frames') : i + 1 \in 1 .. Len(frames)
    BY <1>0, <2>1
  <2>3. \A i \in 1 .. Len(frames') : frames'[i].life = life'
    BY <1>3, <2>1, <2>2 DEF Socketed
  <2> QED BY <1>0, <2>1, <2>3 DEF Socketed
<1>4. CASE VecuProbe
  <2>1. PICK f : /\ frames' = Append(frames, f)
                 /\ f \in {[probe |-> "SPS", life |-> life, closed |-> closed],
                            [probe |-> "DIAG", life |-> life, bits |-> bits],
                            [probe |-> "STATE", life |-> life, bms |-> bms]}
    BY <1>4 DEF VecuProbe
  <2>2. f \in Frames /\ f.life = life
    <3>1. closed \in BOOLEAN /\ bits \in SUBSET Kinds /\ bms \in BmsStates
      BY DEF TypeOK
    <3> QED BY <1>0, <2>1, <3>1 DEF Frames
  <2>3. UNCHANGED life /\ Len(frames) < MaxFrames
    BY <1>4 DEF VecuProbe, vecuVars
  <2>4. /\ frames' \in Seq(Frames) /\ Len(frames') = Len(frames) + 1
        /\ \A i \in 1 .. Len(frames) : frames'[i] = frames[i]
        /\ frames'[Len(frames) + 1] = f
    BY <2>1, <2>2, AppendProperties DEF Socketed
  <2>5. ASSUME NEW i \in 1 .. Len(frames') PROVE frames'[i].life = life'
    <3>1. CASE i \in 1 .. Len(frames)
      BY <2>3, <2>4, <3>1 DEF Socketed
    <3>2. CASE i = Len(frames) + 1
      BY <2>2, <2>3, <2>4, <3>2
    <3> QED BY <1>0, <2>4, <3>1, <3>2
  <2>6. Len(frames') <= MaxFrames
    BY <1>0, <2>3, <2>4
  <2> QED BY <2>4, <2>5, <2>6 DEF Socketed
<1> QED BY <1>1, <1>2, <1>3, <1>4, FrameSteps

-----------------------------------------------------------------------------
(* Types.                                                                    *)

\* The runner's part and the vECU's part of the type invariant.
RunnerTyped ==
  /\ pc \in Monitoring \union {"start", "judged", "done"}
  /\ test \in Tests \union {NoTest}
  /\ left \in 0 .. MaxTests /\ attempt \in 0 .. MaxRestarts + 1
  /\ ok \subseteq Flags
  /\ monitor \in Views
  /\ verdict \in Verdicts

VecuTyped ==
  /\ alive \in BOOLEAN /\ life \in Nat /\ crashes \in 0 .. MaxCrashes
  /\ bits \subseteq Kinds /\ bms \in BmsStates /\ closed \in BOOLEAN

\* The type invariant follows from the four parts the proof speaks of.
LEMMA TypeFromParts ==
  RunnerTyped /\ VecuTyped /\ Commanded /\ Socketed => TypeOK
<1> SUFFICES ASSUME RunnerTyped, VecuTyped, Commanded, Socketed PROVE TypeOK
  OBVIOUS
<1>1. \A i \in DOMAIN cmds : cmds[i].kind \in Kinds /\ cmds[i].value \in Values
  <2>1. DOMAIN cmds = 1 .. Len(cmds) /\ \A i \in 1 .. Len(cmds) : cmds[i] \in Commands
    BY LenProperties, ElementOfSeq DEF Commanded
  <2> QED BY <2>1 DEF Commands
<1>2. \A i \in DOMAIN frames : frames[i].life \in Nat /\ frames[i].probe \in {"SPS", "DIAG", "STATE"}
  <2>1. DOMAIN frames = 1 .. Len(frames) /\ \A i \in 1 .. Len(frames) : frames[i] \in Frames
    BY LenProperties, ElementOfSeq DEF Socketed
  <2> QED BY <2>1 DEF Frames
<1>3. Len(frames) <= MaxFrames /\ overrides \in [Kinds -> Values]
  BY DEF Socketed, Commanded
<1>4. RunnerTyped /\ VecuTyped
  OBVIOUS
<1> QED BY <1>1, <1>2, <1>3, <1>4 DEF TypeOK, RunnerTyped, VecuTyped

\* Going on to the next case keeps the runner's part, as the steps of one test do.
LEMMA NextCaseTyped ==
  ASSUME TypeOK, NextCase, UNCHANGED monitor
  PROVE  RunnerTyped'
<1>1. left' \in 0 .. MaxTests /\ attempt' \in 0 .. MaxRestarts + 1
  BY RunnerAssumption DEF NextCase, TypeOK
<1>2. pc' \in {"check", "done"} /\ ok' = {} /\ test' = NoTest /\ verdict' = "none"
  BY DEF NextCase
<1>3. monitor' \in Views
  BY DEF TypeOK
<1> QED BY <1>1, <1>2, <1>3 DEF RunnerTyped, Monitoring, Checking, Verdicts

\* A step within a test only moves and judges.
LEMMA GotoTyped ==
  ASSUME TypeOK, verdict' \in Verdicts,
         \E p \in Monitoring \union {"start", "judged", "done"} : Goto(p)
  PROVE  RunnerTyped'
BY DEF TypeOK, RunnerTyped, Goto

\* Every step keeps the runner's part.
LEMMA RunnerTypedStep ==
  ASSUME TypeOK, Socketed, [Next]_vars
  PROVE  RunnerTyped'
<1> DEFINE Places == Monitoring \union {"start", "judged", "done"}
<1>0. /\ "start" \in Places /\ "judged" \in Places /\ "done" \in Places /\ "watch" \in Places
      /\ "withdraw" \in Places /\ "hold" \in Places /\ "settle" \in Places
      /\ "PASS" \in Verdicts /\ "FAIL" \in Verdicts /\ "ERROR" \in Verdicts /\ verdict \in Verdicts
  BY DEF Monitoring, Verdicts, TypeOK
<1> DEFINE Moves == verdict' \in Verdicts /\ \E p \in Places : Goto(p)
<1>1. CASE Receive
  <2>1. Head(frames) \in Frames
    BY <1>1, HeadTailProperties DEF Receive, Socketed
  <2>2. monitor' \in Views
    <3>1. monitor \in Views /\ monitor' = Updated(monitor, Head(frames))
      BY <1>1 DEF Receive, TypeOK
    <3> QED BY <2>1, <3>1 DEF Updated, Frames, Views
  <2>3. UNCHANGED <<pc, test, left, attempt, ok, verdict>>
    BY <1>1 DEF Receive
  <2> QED BY <2>2, <2>3 DEF TypeOK, RunnerTyped
<1>2. ASSUME NEW more \in SUBSET {"rest"}, Latch(more) PROVE RunnerTyped'
  <2>1. UNCHANGED monitor
    BY <1>2 DEF Latch
  <2>2. CASE NextCase
    BY <2>1, <2>2, NextCaseTyped
  <2>3. CASE ok' = ok \union Met \union more /\ UNCHANGED <<pc, test, left, attempt, verdict>>
    <3>1. ok' \subseteq Flags
      BY <2>3 DEF TypeOK, Met, Flags
    <3> QED BY <2>1, <2>3, <3>1 DEF TypeOK, RunnerTyped
  <2>4. CASE pc' = "start" /\ ok' = {} /\ attempt' = 0 /\ UNCHANGED <<test, left, verdict>>
    <3>1. attempt' \in 0 .. MaxRestarts + 1
      BY <2>4, RunnerAssumption
    <3> QED BY <1>0, <2>1, <2>4, <3>1 DEF TypeOK, RunnerTyped
  <2> QED BY <1>2, <2>2, <2>3, <2>4 DEF Latch
<1>3. CASE StartTest
  <2>1. test' \in Tests /\ pc' = "watch" /\ UNCHANGED <<left, attempt, ok, monitor, verdict>>
    BY <1>3 DEF StartTest
  <2> QED BY <1>0, <2>1 DEF TypeOK, RunnerTyped
<1>4. CASE AfterTest
  <2>1. CASE Goto("settle") /\ UNCHANGED verdict
    BY <1>0, <2>1, GotoTyped
  <2>2. CASE NextCase /\ UNCHANGED monitor
    BY <2>2, NextCaseTyped
  <2> QED BY <1>4, <2>1, <2>2 DEF AfterTest
<1>5. CASE WatchDirect \/ WatchClears \/ WatchRecovery \/ WatchOpens \/ WatchTimeout
  <2>1. CASE WatchDirect
    BY <1>0, <2>1, GotoTyped DEF WatchDirect, Judge
  <2>2. CASE WatchClears
    BY <1>0, <2>2, GotoTyped DEF WatchClears
  <2>3. CASE WatchRecovery
    <3>1. Moves
      BY <1>0, <2>3 DEF WatchRecovery, Judge
    <3> QED BY <3>1, GotoTyped
  <2>4. CASE WatchOpens
    BY <1>0, <2>4, GotoTyped DEF WatchOpens, Judge
  <2>5. CASE WatchTimeout
    BY <1>0, <2>5, GotoTyped DEF WatchTimeout, Judge
  <2> QED BY <1>5, <2>1, <2>2, <2>3, <2>4, <2>5
<1>6. CASE WithdrawSeen \/ WithdrawTimeout \/ WithdrawAgain \/ HoldBroken \/ HoldTimeout
  <2>1. Goto("judged") /\ verdict' \in {"PASS", "FAIL", "ERROR"}
    BY <1>6 DEF WithdrawSeen, WithdrawTimeout, WithdrawAgain, HoldBroken, HoldTimeout, Judge
  <2> QED BY <1>0, <2>1, GotoTyped
<1>7. CASE InitialTimeout
  BY <1>0, <1>7, GotoTyped DEF InitialTimeout
<1>8. CASE SkipTest \/ Settled
  BY <1>8, NextCaseTyped DEF SkipTest, Settled
<1>9. CASE ClearAndRetry \/ Restart
  <2>1. attempt' \in 0 .. MaxRestarts + 1
    <3>1. (attempt' = attempt + 1 /\ attempt \in 0 .. MaxRestarts) \/ attempt' = 1
      BY <1>9 DEF ClearAndRetry, Restart
    <3> QED BY <3>1, RunnerAssumption
  <2>2. ok' = {} /\ UNCHANGED <<pc, test, left, monitor, verdict>>
    BY <1>9 DEF ClearAndRetry, Restart
  <2> QED BY <2>1, <2>2 DEF TypeOK, RunnerTyped
<1>10. CASE WatchVaries \/ Vecu \/ UNCHANGED vars
  <2>1. UNCHANGED <<pc, test, left, attempt, ok, monitor, verdict>>
    BY <1>10 DEF WatchVaries, Vecu, VecuRead, VecuDetect, VecuRecover, VecuState, VecuProbe,
                 VecuCrash, runnerVars, vars
  <2> QED BY <2>1 DEF TypeOK, RunnerTyped
<1>11. CASE Runner
  <2>1. CASE Deadline
    BY <2>1, <1>5, <1>6, <1>7, <1>8, <1>9 DEF Deadline
  <2> QED BY <1>11, <2>1, <1>1, <1>2, <1>3, <1>4, <1>5, <1>6, <1>10 DEF Runner
<1> QED BY <1>10, <1>11 DEF Next

\* Every step keeps the vECU's part.
LEMMA VecuTypedStep ==
  ASSUME TypeOK, [Next]_vars
  PROVE  VecuTyped'
<1>1. CASE Restart
  <2>1. /\ alive' = TRUE /\ life' = life + 1 /\ UNCHANGED crashes
        /\ bits' = {} /\ bms' = "starting" /\ closed' = FALSE
    BY <1>1 DEF Restart, NewVecu, Blank
  <2>2. alive' \in BOOLEAN /\ closed' \in BOOLEAN
    BY <2>1, Zenon
  <2>3. life' \in Nat /\ crashes' \in 0 .. MaxCrashes /\ bits' \subseteq Kinds /\ bms' \in BmsStates
    BY <2>1 DEF TypeOK, BmsStates
  <2> QED BY <2>2, <2>3 DEF VecuTyped
<1>2. CASE VecuCrash
  <2>1. /\ alive' = FALSE /\ crashes < MaxCrashes /\ crashes' = crashes + 1 /\ UNCHANGED life
        /\ bits' = {} /\ bms' = "starting" /\ closed' = FALSE
    BY <1>2 DEF VecuCrash, Blank
  <2>2. crashes' \in 0 .. MaxCrashes
    BY <2>1, RunnerAssumption DEF TypeOK
  <2> QED BY <2>1, <2>2 DEF TypeOK, VecuTyped, BmsStates
<1>3. CASE VecuDetect \/ VecuRecover
  <2>1. bits' \subseteq Kinds /\ UNCHANGED <<alive, life, crashes, bms, closed>>
    BY <1>3 DEF VecuDetect, VecuRecover, TypeOK
  <2> QED BY <2>1 DEF TypeOK, VecuTyped
<1>4. CASE VecuState
  <2>1. bms' \in BmsStates /\ closed' \in BOOLEAN /\ UNCHANGED <<alive, life, crashes, bits>>
    BY <1>4 DEF VecuState, TypeOK, BmsStates
  <2> QED BY <2>1 DEF TypeOK, VecuTyped
<1>5. CASE UNCHANGED <<alive, life, crashes, bits, bms, closed>>
  BY <1>5 DEF TypeOK, VecuTyped
<1>6. CASE VecuRead \/ VecuProbe \/ UNCHANGED vars
  BY <1>5, <1>6 DEF VecuRead, VecuProbe, vars, vecuVars
<1>7. CASE Runner /\ ~Restart
  <2>1. CASE Deadline
    <3>1. UNCHANGED vecuVars
      BY <1>7, <2>1 DEF Deadline, InitialTimeout, ClearAndRetry, SkipTest, WatchTimeout,
                        WithdrawTimeout, HoldTimeout, Settled
    <3> QED BY <1>5, <3>1 DEF vecuVars
  <2>2. ASSUME NEW more \in SUBSET {"rest"}, Latch(more) PROVE UNCHANGED vecuVars
    BY <2>2 DEF Latch
  <2>3. CASE Receive \/ StartTest \/ AfterTest \/ WatchDirect \/ WatchClears \/ WatchRecovery
             \/ WatchOpens \/ WatchVaries \/ WithdrawSeen \/ WithdrawAgain \/ HoldBroken
    <3>1. UNCHANGED vecuVars
      BY <2>3 DEF Receive, StartTest, AfterTest, WatchDirect, WatchClears, WatchRecovery,
                  WatchOpens, WatchVaries, WithdrawSeen, WithdrawAgain, HoldBroken
    <3> QED BY <1>5, <3>1 DEF vecuVars
  <2> QED BY <1>5, <1>7, <2>1, <2>2, <2>3 DEF Runner, vecuVars
<1>8. CASE Vecu
  BY <1>2, <1>3, <1>4, <1>6, <1>8 DEF Vecu
<1> QED BY <1>1, <1>6, <1>7, <1>8 DEF Next

-----------------------------------------------------------------------------
\* Everything the proof needs to know of a reachable state.
RunnerInv == TypeOK /\ Withdrawn /\ Socketed

\* The invariant holds at the start and every step keeps it.
LEMMA RunnerInvHolds == Spec => []RunnerInv
<1>1. Init => RunnerInv
  <2> SUFFICES ASSUME Init PROVE RunnerInv
    OBVIOUS
  <2>1. cmds \in Seq(Commands) /\ frames \in Seq(Frames) /\ Len(frames) = 0
    BY EmptySeq DEF Init
  <2>2. Commanded
    BY <2>1 DEF Init, Commanded, Values
  <2>3. Socketed
    BY <2>1, RunnerAssumption DEF Socketed
  <2>4. RunnerTyped
    BY RunnerAssumption DEF Init, RunnerTyped, Monitoring, Checking, Views, BmsStates, Verdicts
  <2>5. VecuTyped
    <3>1. alive \in BOOLEAN /\ closed \in BOOLEAN
      BY Zenon DEF Init
    <3>2. life \in Nat /\ crashes \in 0 .. MaxCrashes /\ bits \subseteq Kinds /\ bms \in BmsStates
      BY RunnerAssumption DEF Init, BmsStates
    <3> QED BY <3>1, <3>2 DEF VecuTyped
  <2>6. Withdrawn
    <3>1. \A k : Sent(cmds, k) = {}
      BY DEF Init, Sent
    <3> QED BY <2>2, <3>1 DEF Init, Withdrawn, Eventual
  <2> QED BY <2>2, <2>3, <2>4, <2>5, <2>6, TypeFromParts DEF RunnerInv
<1>2. RunnerInv /\ [Next]_vars => RunnerInv'
  <2> SUFFICES ASSUME RunnerInv, [Next]_vars PROVE RunnerInv'
    OBVIOUS
  <2>1. RunnerTyped' /\ VecuTyped'
    BY RunnerTypedStep, VecuTypedStep DEF RunnerInv
  <2>2. Withdrawn' /\ Socketed'
    BY WithdrawnStep, SocketedStep DEF RunnerInv
  <2>3. Commanded'
    BY <2>2 DEF Withdrawn
  <2>4. (RunnerTyped /\ VecuTyped /\ Commanded /\ Socketed => TypeOK)'
    BY TypeFromParts, PTL
  <2> QED BY <2>1, <2>2, <2>3, <2>4 DEF RunnerInv
<1> QED BY <1>1, <1>2, PTL DEF Spec

\* Every reachable state of the runner, the two sockets and the vECU is well typed.
THEOREM RunnerTypeCorrect == Spec => []TypeOK
<1>1. RunnerInv => TypeOK
  BY DEF RunnerInv
<1> QED BY <1>1, RunnerInvHolds, PTL

\* Whatever the outcome of a test, and with commands still under way or the vECU crashed,
\* the next one begins with every override withdrawn (test_fault_injection.py 236-251).
THEOREM OverridesAreWithdrawn == Spec => []OverridesWithdrawn
<1>1. RunnerInv => OverridesWithdrawn
  BY FinalIsEventual DEF RunnerInv, Withdrawn, Between, OverridesWithdrawn
<1> QED BY <1>1, RunnerInvHolds, PTL

\* The runner never reads a frame of a vECU that it has replaced (test_fault_injection.py
\* 198-215).
THEOREM OldFramesAreGone == Spec => []NoFrameOfOldLife
<1>1. RunnerInv => NoFrameOfOldLife
  BY LenProperties DEF RunnerInv, Socketed, NoFrameOfOldLife
<1> QED BY <1>1, RunnerInvHolds, PTL

-----------------------------------------------------------------------------
(* Why a run ends.  RunEnds and BenchLeftClean need fairness, but what their  *)
(* fairness acts on does not: a rank that no step raises and every deadline   *)
(* and every step that does not wait lowers, and commands that only get fewer *)
(* once the runner has ended.                                                 *)

\* What is left of a test, in steps of the runner that do not wait.
Stage ==
  CASE pc = "done"     -> 0
    [] pc = "initial"  -> 1
    [] pc = "settle"   -> 1
    [] pc = "judged"   -> 2
    [] pc = "withdraw" -> 3
    [] pc = "hold"     -> 3
    [] pc = "watch"    -> 4
    [] pc = "start"    -> 5
    [] pc = "check"    -> 7 + MaxRestarts - attempt

PerTest == 8 + MaxRestarts
Rank == left * PerTest + Stage

Place == <<pc, left, attempt>>

\* The stage of a test lies between that of the end and that of a test that begins.
LEMMA StageRange ==
  ASSUME TypeOK
  PROVE  /\ Stage \in 0 .. PerTest - 1 /\ left \in Nat /\ attempt \in Nat
         /\ attempt <= MaxRestarts + 1 /\ PerTest \in Nat /\ MaxRestarts \in Nat
         /\ Rank \in Nat
  <1>1. MaxRestarts \in Nat /\ MaxTests \in Nat
    BY RunnerAssumption
  <1>2. left \in Nat /\ attempt \in Nat /\ attempt <= MaxRestarts + 1
    BY <1>1 DEF TypeOK
  <1>3. PerTest \in Nat
    BY <1>1 DEF PerTest
  <1>4. pc \in {"initial", "check", "watch", "withdraw", "hold", "settle", "start", "judged", "done"}
    BY DEF TypeOK, Monitoring, Checking
  <1>5. Stage \in 0 .. PerTest - 1
    <2>1. CASE pc = "check"
      <3>1. Stage = 7 + MaxRestarts - attempt
        BY <2>1 DEF Stage
      <3> QED BY <1>1, <1>2, <3>1 DEF PerTest
    <2>2. CASE pc # "check"
      <3>1. Stage \in 0 .. 5
        BY <1>4, <2>2 DEF Stage
      <3> QED BY <1>1, <3>1 DEF PerTest
    <2> QED BY <2>1, <2>2
  <1>6. left * PerTest \in Nat
    BY <1>2, <1>3
  <1> QED
    BY <1>1, <1>2, <1>3, <1>5, <1>6 DEF Rank

LEMMA OneTestLess ==
  ASSUME NEW n \in Nat, NEW w \in Nat, n > 0
  PROVE  (n - 1) * w = n * w - w /\ (n - 1) * w \in Nat /\ n * w \in Nat
OBVIOUS

\* Going on to the next case costs less than a test.
LEMMA NextCaseLowers ==
  ASSUME TypeOK, NextCase, Stage \in Nat \ {0}
  PROVE  Rank' < Rank
  <1>1. Stage \in Nat \ {0} /\ PerTest \in Nat /\ left \in Nat /\ MaxRestarts \in Nat
        /\ PerTest = 8 + MaxRestarts
    BY StageRange DEF PerTest
  <1>2. attempt' = 0 /\ Rank = left * PerTest + Stage /\ Rank' = left' * PerTest + Stage'
    BY DEF NextCase, Rank, PerTest
  <1>3. CASE left > 0
    <2>1. left' = left - 1 /\ Stage' = 7 + MaxRestarts
      BY <1>1, <1>2, <1>3 DEF NextCase, Stage
    <2>2. left' * PerTest = left * PerTest - PerTest /\ left * PerTest \in Nat
      BY <1>1, <1>3, <2>1, OneTestLess
    <2> QED
      BY <1>1, <1>2, <2>1, <2>2
  <1>4. CASE ~(left > 0)
    <2>1. left' = left /\ Stage' = 0 /\ left * PerTest \in Nat
      BY <1>1, <1>4 DEF NextCase, Stage
    <2> QED
      BY <1>1, <1>2, <2>1
  <1> QED
    BY <1>3, <1>4

\* A step within a test lowers the rank by what it lowers the stage.
LEMMA StageLowers ==
  ASSUME TypeOK, left' = left, Stage' \in Nat, Stage' < Stage
  PROVE  Rank' < Rank
  <1>1. left * PerTest \in Nat /\ Stage \in Nat
    BY StageRange
  <1>2. Rank = left * PerTest + Stage /\ Rank' = left * PerTest + Stage'
    BY DEF Rank, PerTest
  <1> QED
    BY <1>1, <1>2

\* The steps of the runner lower the rank, or wait: they read a frame, latch a flag, or vary
\* what a test injects.
Waits == UNCHANGED Place

LEMMA RankStep ==
  ASSUME TypeOK, [Next]_vars
  PROVE  /\ Rank' < Rank \/ Waits
         /\ Deadline \/ Unblocked => Rank' < Rank
  <1>0. /\ MaxRestarts \in Nat /\ attempt \in Nat /\ attempt <= MaxRestarts + 1
        /\ left * PerTest \in Nat
    BY StageRange
  <1>1. ASSUME Receive \/ WatchVaries \/ Vecu \/ UNCHANGED vars PROVE Waits
    <2>1. UNCHANGED Place
      <3>1. CASE Receive \/ WatchVaries \/ UNCHANGED vars
        BY <3>1 DEF Receive, WatchVaries, runnerVars, vars, Place
      <3>2. CASE Vecu
        BY <3>2 DEF Vecu, VecuRead, VecuDetect, VecuRecover, VecuState, VecuProbe, VecuCrash,
                    runnerVars, Place
      <3> QED BY <1>1, <3>1, <3>2
    <2> QED BY <2>1 DEF Waits
  <1>2. ASSUME NEW more \in SUBSET {"rest"}, Latch(more) PROVE Rank' < Rank \/ Waits
    <2>1. CASE pc = "initial" /\ NextCase
      BY <2>1, NextCaseLowers DEF Stage
    <2>2. CASE pc = "check" /\ pc' = "start" /\ UNCHANGED left
      <3>1. Stage' = 5 /\ Stage = 7 + MaxRestarts - attempt
        BY <2>2 DEF Stage
      <3> QED BY <1>0, <2>2, <3>1, StageLowers
    <2> QED BY <1>2, <2>1, <2>2 DEF Latch, Waits, Place
  <1>3. CASE StartTest \/ WatchClears \/ WatchRecovery \/ WatchDirect \/ WatchOpens \/ WatchTimeout
    <2>1. /\ left' = left
          /\ \/ pc = "start" /\ pc' = "watch"
             \/ pc = "watch" /\ pc' \in {"withdraw", "hold", "judged"}
      BY <1>3 DEF StartTest, WatchClears, WatchRecovery, WatchDirect, WatchOpens, WatchTimeout, Judge, Goto
    <2>2. Stage' \in Nat /\ Stage' < Stage
      BY <2>1 DEF Stage
    <2> QED BY <2>1, <2>2, StageLowers
  <1>4. CASE WithdrawSeen \/ WithdrawTimeout \/ WithdrawAgain \/ HoldBroken \/ HoldTimeout
    <2>1. left' = left /\ pc \in {"withdraw", "hold"} /\ pc' = "judged"
      BY <1>4 DEF WithdrawSeen, WithdrawTimeout, WithdrawAgain, HoldBroken, HoldTimeout, Judge, Goto
    <2>2. Stage' \in Nat /\ Stage' < Stage
      BY <2>1 DEF Stage
    <2> QED BY <2>1, <2>2, StageLowers
  <1>5. CASE InitialTimeout
    <2>1. left' = left /\ Stage' = 0 /\ Stage = 1
      BY <1>5 DEF InitialTimeout, Goto, Stage
    <2> QED BY <2>1, StageLowers
  <1>6. CASE ClearAndRetry \/ Restart
    <2>1. left' = left /\ pc = "check" /\ pc' = "check" /\ attempt' = attempt + 1
          /\ attempt <= MaxRestarts
      BY <1>0, <1>6 DEF ClearAndRetry, Restart
    <2>2. Stage' \in Nat /\ Stage' < Stage
      BY <1>0, <2>1 DEF Stage
    <2> QED BY <2>1, <2>2, StageLowers
  <1>7. CASE SkipTest \/ Settled
    <2>1. NextCase /\ pc \in {"check", "settle"}
      BY <1>7 DEF SkipTest, Settled
    <2>2. Stage \in Nat \ {0}
      BY <1>0, <2>1 DEF Stage
    <2> QED BY <2>1, <2>2, NextCaseLowers
  <1>8. CASE AfterTest
    <2>1. pc = "judged" /\ Stage = 2
      BY <1>8 DEF AfterTest, Stage
    <2>2. CASE Goto("settle")
      <3>1. left' = left /\ Stage' = 1
        BY <2>2 DEF Goto, Stage
      <3> QED BY <2>1, <3>1, StageLowers
    <2>3. CASE NextCase
      BY <2>1, <2>3, NextCaseLowers
    <2> QED BY <1>8, <2>2, <2>3 DEF AfterTest
  <1>9. Deadline \/ Unblocked => Rank' < Rank
    BY <1>3, <1>4, <1>5, <1>6, <1>7, <1>8 DEF Deadline, Unblocked
  <1>10. Rank' < Rank \/ Waits
    BY <1>1, <1>2, <1>3, <1>4, <1>5, <1>6, <1>7, <1>8, <1>9 DEF Next, Runner
  <1> QED
    BY <1>9, <1>10

\* The part of RunEnds that needs no fairness: every step of the runner that changes its place
\* brings it nearer to its end, the deadlines and the steps that wait for nothing do so always,
\* and no crash, diagnosis or late frame takes it back (test_fault_injection.py 171-243).
RunRunsDown ==
  [][/\ Rank' < Rank \/ UNCHANGED Place
     /\ Deadline \/ Unblocked => Rank' < Rank]_vars

THEOREM EveryRunRunsDown == Spec => [](Rank \in Nat) /\ RunRunsDown
  <1>1. TypeOK => Rank \in Nat
    BY StageRange
  <1>2. TypeOK /\ [Next]_vars
          => [/\ Rank' < Rank \/ UNCHANGED Place
              /\ Deadline \/ Unblocked => Rank' < Rank]_vars
    BY RankStep DEF Waits
  <1> QED
    BY <1>1, <1>2, RunnerTypeCorrect, PTL DEF Spec, RunRunsDown

-----------------------------------------------------------------------------
\* Restarts the runner can still make for the running test, and in the tests to come.
Unused == (IF pc = "check" THEN IF attempt = 0 THEN MaxRestarts ELSE MaxRestarts + 1 - attempt ELSE 0)
Restarts == life + left * MaxRestarts + Unused

\* A run restarts the vECU at most MaxRestarts times for each of its tests: attempts are counted
\* afresh only with a test less to do (test_fault_injection.py 189-204).
RestartsBounded == life <= MaxTests * MaxRestarts

LEMMA RestartsStep ==
  ASSUME TypeOK, [Next]_vars
  PROVE  Restarts' <= Restarts
  <1>0. /\ MaxRestarts \in Nat /\ attempt \in Nat /\ attempt <= MaxRestarts + 1
        /\ left \in Nat /\ left * MaxRestarts \in Nat /\ life \in Nat /\ Unused \in 0 .. MaxRestarts
    <2>1. MaxRestarts \in Nat /\ attempt \in Nat /\ attempt <= MaxRestarts + 1 /\ left \in Nat
      BY StageRange
    <2> QED BY <2>1 DEF TypeOK, Unused
  <1>1. CASE UNCHANGED <<life, pc, left, attempt>>
    BY <1>0, <1>1 DEF Restarts, Unused
  <1>2. ASSUME NextCase, life' = life PROVE Restarts' <= Restarts
    <2>1. CASE left > 0
      <3>1. left' = left - 1 /\ Unused' = MaxRestarts
        BY <1>2, <2>1 DEF NextCase, Unused
      <3>2. left' * MaxRestarts = left * MaxRestarts - MaxRestarts
        BY <1>0, <2>1, <3>1, OneTestLess
      <3> QED BY <1>0, <1>2, <3>1, <3>2 DEF Restarts
    <2>2. CASE ~(left > 0)
      <3>1. left' = left /\ Unused' = 0
        BY <1>2, <2>2 DEF NextCase, Unused
      <3> QED BY <1>0, <1>2, <3>1 DEF Restarts
    <2> QED BY <2>1, <2>2
  <1>3. ASSUME left' = left, life' = life, Unused' = 0 PROVE Restarts' <= Restarts
    BY <1>0, <1>3 DEF Restarts
  <1>4. CASE ClearAndRetry
    <2>1. left' = left /\ life' = life /\ Unused' = MaxRestarts /\ Unused = MaxRestarts
      BY <1>0, <1>4 DEF ClearAndRetry, vecuVars, Unused
    <2> QED BY <1>0, <2>1 DEF Restarts
  <1>5. CASE Restart
    <2>1. left' = left /\ life' = life + 1 /\ Unused' = Unused - 1
      BY <1>0, <1>5 DEF Restart, Unused
    <2> QED BY <1>0, <2>1 DEF Restarts
  <1>6. ASSUME left' = left, life' = life, pc' # "check" PROVE Restarts' <= Restarts
    BY <1>3, <1>6 DEF Unused
  <1>7. CASE Receive \/ WatchVaries \/ Vecu \/ UNCHANGED vars
    BY <1>1, <1>7 DEF Receive, WatchVaries, Vecu, VecuRead, VecuDetect, VecuRecover, VecuState,
                      VecuProbe, VecuCrash, runnerVars, vecuVars, vars
  <1>8. ASSUME NEW more \in SUBSET {"rest"}, Latch(more) PROVE Restarts' <= Restarts
    BY <1>1, <1>2, <1>6, <1>8 DEF Latch, vecuVars
  <1>9. CASE StartTest \/ WatchClears \/ WatchRecovery \/ WatchDirect \/ WatchOpens \/ WatchTimeout
    BY <1>6, <1>9 DEF StartTest, WatchClears, WatchRecovery, WatchDirect, WatchOpens, WatchTimeout,
                      Judge, Goto, vecuVars
  <1>10. CASE WithdrawSeen \/ WithdrawTimeout \/ WithdrawAgain \/ HoldBroken \/ HoldTimeout
    BY <1>6, <1>10 DEF WithdrawSeen, WithdrawTimeout, WithdrawAgain, HoldBroken, HoldTimeout,
                       Judge, Goto, vecuVars
  <1>11. CASE InitialTimeout
    BY <1>6, <1>11 DEF InitialTimeout, Goto, vecuVars
  <1>12. CASE SkipTest \/ Settled
    BY <1>2, <1>12 DEF SkipTest, Settled, vecuVars
  <1>13. CASE AfterTest
    BY <1>2, <1>6, <1>13 DEF AfterTest, Goto, vecuVars
  <1> QED
    BY <1>4, <1>5, <1>7, <1>8, <1>9, <1>10, <1>11, <1>12, <1>13 DEF Next, Runner, Deadline

THEOREM RestartsAreBounded == Spec => []RestartsBounded
  <1> DEFINE Within == Restarts <= MaxTests * MaxRestarts
  <1>1. Init => Within
    <2> SUFFICES ASSUME Init PROVE Within
      OBVIOUS
    <2>1. left = MaxTests /\ life = 0 /\ Unused = 0 /\ MaxTests * MaxRestarts \in Nat
      BY RunnerAssumption DEF Init, Unused
    <2> QED BY <2>1 DEF Restarts
  <1>2. TypeOK => Restarts \in Nat /\ life <= Restarts
    <2> SUFFICES ASSUME TypeOK PROVE Restarts \in Nat /\ life <= Restarts
      OBVIOUS
    <2>1. /\ MaxRestarts \in Nat /\ attempt \in Nat /\ attempt <= MaxRestarts + 1
          /\ left \in Nat /\ life \in Nat
      BY StageRange DEF TypeOK
    <2>2. left * MaxRestarts \in Nat /\ Unused \in Nat
      BY <2>1 DEF Unused
    <2> QED BY <2>1, <2>2 DEF Restarts
  <1>3. MaxTests * MaxRestarts \in Nat
    BY RunnerAssumption
  <1>4. TypeOK /\ TypeOK' /\ Within /\ [Next]_vars => Within'
    <2> SUFFICES ASSUME TypeOK, TypeOK', Within, [Next]_vars PROVE Within'
      OBVIOUS
    <2>1. Restarts' <= Restarts
      BY RestartsStep
    <2>2. Restarts' \in Nat /\ Restarts \in Nat
      <3>1. (TypeOK => Restarts \in Nat)'
        BY <1>2, PTL
      <3> QED BY <1>2, <3>1
    <2> QED BY <1>3, <2>1, <2>2
  <1>5. TypeOK /\ Within => RestartsBounded
    <2> SUFFICES ASSUME TypeOK, Within PROVE life <= MaxTests * MaxRestarts
      BY DEF RestartsBounded
    <2>1. life \in Nat /\ Restarts \in Nat /\ life <= Restarts
      BY <1>2 DEF TypeOK
    <2> QED BY <1>3, <2>1
  <1> QED
    BY <1>1, <1>4, <1>5, RunnerTypeCorrect, PTL DEF Spec

-----------------------------------------------------------------------------
\* After its last test the runner is silent: a living vECU works off what was sent, one command
\* with each read of its loop, and then has no override left, whatever it diagnoses meanwhile.
BenchRunsDry ==
  /\ [](pc = "done" /\ cmds = << >> => overrides = [k \in Kinds |-> "off"])
  /\ [][pc = "done" => /\ pc' = "done"
                       /\ Len(cmds') < Len(cmds) \/ UNCHANGED <<cmds, overrides>> \/ VecuCrash
                       /\ VecuRead => Len(cmds') < Len(cmds)
                       /\ VecuCrash => cmds' = << >>]_vars

THEOREM EveryBenchRunsDry == Spec => BenchRunsDry
  <1>1. RunnerInv /\ pc = "done" /\ cmds = << >> => overrides = [k \in Kinds |-> "off"]
    <2> SUFFICES ASSUME RunnerInv, pc = "done", cmds = << >>
                 PROVE  overrides = [k \in Kinds |-> "off"]
      OBVIOUS
    <2>1. \A k \in Kinds : Final(k) = "off"
      BY FinalIsEventual DEF RunnerInv, Withdrawn, Between
    <2>2. \A k \in Kinds : Final(k) = overrides[k]
      BY DEF Final
    <2>3. overrides \in [Kinds -> Values]
      BY DEF RunnerInv, TypeOK
    <2> QED BY <2>1, <2>2, <2>3
  <1>2. ASSUME RunnerInv, Next, pc = "done"
        PROVE  /\ pc' = "done"
               /\ Len(cmds') < Len(cmds) \/ UNCHANGED <<cmds, overrides>> \/ VecuCrash
               /\ VecuRead => Len(cmds') < Len(cmds)
               /\ VecuCrash => cmds' = << >>
    <2>1. Vecu
      BY <1>2 DEF Next, Runner, Deadline, Receive, Latch, StartTest, AfterTest, WatchDirect,
                  WatchClears, WatchRecovery, WatchOpens, WatchVaries, WithdrawSeen, WithdrawAgain,
                  HoldBroken, InitialTimeout, ClearAndRetry, Restart, SkipTest, WatchTimeout,
                  WithdrawTimeout, HoldTimeout, Settled, Monitoring, Checking
    <2>2. pc' = "done"
      BY <1>2, <2>1 DEF Vecu, VecuRead, VecuDetect, VecuRecover, VecuState, VecuProbe, VecuCrash,
                        runnerVars
    <2>3. VecuRead => Len(cmds') < Len(cmds)
      <3>1. cmds \in Seq(Commands)
        BY <1>2 DEF RunnerInv, Withdrawn, Commanded
      <3>2. ASSUME VecuRead PROVE Len(cmds') = Len(cmds) - 1 /\ Len(cmds) \in Nat
        <4>1. cmds # << >> /\ cmds' = Tail(cmds)
          BY <3>2 DEF VecuRead
        <4> QED BY <3>1, <4>1, HeadTailProperties, LenProperties
      <3> QED BY <3>2
    <2>4. VecuCrash => cmds' = << >>
      BY DEF VecuCrash, Blank
    <2>5. VecuDetect \/ VecuRecover \/ VecuState \/ VecuProbe => UNCHANGED <<cmds, overrides>>
      BY DEF VecuDetect, VecuRecover, VecuState, VecuProbe, vecuVars
    <2> QED BY <2>1, <2>2, <2>3, <2>4, <2>5 DEF Vecu
  <1>3. RunnerInv /\ [Next]_vars
          => [pc = "done" => /\ pc' = "done"
                             /\ Len(cmds') < Len(cmds) \/ UNCHANGED <<cmds, overrides>> \/ VecuCrash
                             /\ VecuRead => Len(cmds') < Len(cmds)
                             /\ VecuCrash => cmds' = << >>]_vars
    BY <1>2
  <1> QED
    BY <1>1, <1>3, RunnerInvHolds, PTL DEF Spec, BenchRunsDry

=============================================================================
