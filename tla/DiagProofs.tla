----------------------------- MODULE DiagProofs -----------------------------
(***************************************************************************)
(* The diagnosis probes for every number of IDs, threshold, bitmap width   *)
(* and width of tick and count.                                            *)
(***************************************************************************)
EXTENDS DiagHistory, TLAPS

\* A streak of tolerated length is in the counter; a longer one shows in the bitmap.
StreakCounted ==
  \A id \in Ids :
    /\ streak[id] <= Threshold => streak[id] <= counter[id]
    /\ streak[id] = Threshold + 1 => counter[id] = Threshold /\ (id \in Shown => id \in bitmap)

\* The handler was not called in the future.
CalledBefore == initialized => firstNow <= now

DiagInv == HistTypeOK /\ CalledBefore /\ BitHasEvidence /\ StreakCounted

\* The tick, and with it the start of the window, is in range.
LEMMA TickRange ==
  ASSUME TypeOK
  PROVE  OS_GetTickCount \in 0 .. TickModulus - 1 /\ First \in 0 .. TickModulus - 1
<1>1. TickModulus \in Nat /\ TickModulus > 0
  BY DiagAssumption
<1>2. now \in Nat /\ firstTick \in 0 .. TickModulus - 1
  BY DEF TypeOK
<1>3. now % TickModulus \in 0 .. TickModulus - 1
  BY <1>1, <1>2
<1> QED
  BY <1>2, <1>3 DEF OS_GetTickCount, First

\* What the proofs know of % on numbers of any size: the remainder is unique, so the
\* difference of two wrapped ticks, wrapped, is the wrapped difference.
LEMMA Division ==
  ASSUME NEW m \in Nat, m > 0, NEW x \in Int
  PROVE  x = m * (x \div m) + (x % m) /\ x % m \in 0 .. m - 1
  OBVIOUS

LEMMA RemainderUnique ==
  ASSUME NEW m \in Nat, m > 0, NEW q \in Int, NEW p \in Int,
         NEW r \in 0 .. m - 1, NEW s \in 0 .. m - 1, m * q + r = m * p + s
  PROVE  r = s
<1>1. m * (q - p) = s - r
  BY Z3
<1>2. q - p \in Int
  OBVIOUS
<1>3. ASSUME q - p >= 1 PROVE m * (q - p) >= m
  BY <1>2, <1>3
<1>4. ASSUME q - p <= -1 PROVE m * (q - p) <= -m
  BY <1>2, <1>4
<1>5. q - p = 0
  BY <1>1, <1>2, <1>3, <1>4
<1> QED
  BY <1>1, <1>5

LEMMA Remainder ==
  ASSUME NEW m \in Nat, m > 0, NEW x \in Int, NEW q \in Int, NEW r \in 0 .. m - 1,
         x = m * q + r
  PROVE  x % m = r
<1> DEFINE p == x \div m
           s == x % m
<1>1. x = m * p + s /\ s \in 0 .. m - 1 /\ p \in Int
  BY Division
<1> HIDE DEF p, s
<1> QED
  BY <1>1, RemainderUnique DEF s

LEMMA WrappedDifference ==
  ASSUME NEW m \in Nat, m > 0, NEW a \in Nat, NEW d \in Nat
  PROVE  (((a + d) % m) - (a % m)) % m = d % m
<1> DEFINE qa == a \div m
           qb == (a + d) \div m
           qd == d \div m
           ra == a % m
           rb == (a + d) % m
           rd == d % m
<1>1. a = m * qa + ra /\ qa \in Int /\ ra \in Int
  BY Division
<1>2. a + d = m * qb + rb /\ qb \in Int /\ rb \in Int
  BY Division
<1>3. d = m * qd + rd /\ qd \in Int /\ rd \in 0 .. m - 1
  BY Division
<1> HIDE DEF qa, qb, qd, ra, rb, rd
<1>4. rb - ra = m * (qa + qd - qb) + rd /\ qa + qd - qb \in Int /\ rb - ra \in Int
  BY <1>1, <1>2, <1>3, Z3
<1>5. (rb - ra) % m = rd
  BY <1>3, <1>4, Remainder
<1> QED
  BY <1>5 DEF ra, rb, rd

LEMMA CountRange ==
  ASSUME NEW n \in 0 .. CountModulus - 1
  PROVE  (n + 1) % CountModulus \in 0 .. CountModulus - 1
  BY DiagAssumption

LEMMA AgeRange ==
  ASSUME TypeOK, firstNow \in Nat, CalledBefore
  PROVE  Age \in Nat
<1>1. CASE initialized
  BY <1>1 DEF TypeOK, CalledBefore, Age
<1>2. CASE ~initialized
  BY <1>2 DEF TypeOK, Age
<1> QED
  BY <1>1, <1>2

LEMMA InitDiag == HistInit => DiagInv
<1> SUFFICES ASSUME HistInit PROVE DiagInv
  OBVIOUS
<1> USE DiagAssumption DEF HistInit, Init
<1>1. now \in Nat /\ firstTick \in 0 .. TickModulus - 1 /\ faultCount \in 0 .. CountModulus - 1
  OBVIOUS
<1>2. counter \in [Ids -> 0 .. Threshold] /\ streak \in [Ids -> 0 .. Threshold + 1]
  OBVIOUS
<1>3. bitmap \in SUBSET Shown /\ lastId \in Ids /\ lastEvent \in {0, 1}
  BY DEF Ids
<1>4. initialized \in BOOLEAN /\ firstNow \in Nat /\ swallowed \in Nat \union {-1}
  OBVIOUS
<1>5. HistTypeOK
  BY <1>1, <1>2, <1>3, <1>4 DEF HistTypeOK, TypeOK
<1>6. CalledBefore /\ BitHasEvidence
  BY DEF CalledBefore, BitHasEvidence
<1>7. StreakCounted
  BY DEF StreakCounted
<1> QED
  BY <1>5, <1>6, <1>7 DEF DiagInv

\* A step of the handler, whatever it reports, starts the window at most once.
LEMMA FirstStep ==
  ASSUME HistTypeOK, CalledBefore, TakeFirst, NoteFirst, now' = now
  PROVE  /\ initialized' \in BOOLEAN /\ firstTick' \in 0 .. TickModulus - 1
         /\ firstNow' \in Nat /\ now' \in Nat /\ CalledBefore'
<1>1. initialized' /\ initialized' \in BOOLEAN
  BY DEF TakeFirst
<1>2. firstTick' \in 0 .. TickModulus - 1
  BY TickRange DEF TakeFirst, HistTypeOK
<1>3. firstNow' \in Nat /\ firstNow' <= now
  <2>1. CASE initialized
    BY <2>1 DEF NoteFirst, HistTypeOK, TypeOK, CalledBefore
  <2>2. CASE ~initialized
    BY <2>2 DEF NoteFirst, HistTypeOK, TypeOK
  <2> QED
    BY <2>1, <2>2
<1> QED
  BY <1>1, <1>2, <1>3 DEF CalledBefore, HistTypeOK, TypeOK

LEMMA SuppressStep ==
  ASSUME DiagInv, NEW id \in Ids, HistSuppress(id)
  PROVE  DiagInv'
<1> USE DEF DiagInv, HistSuppress, Suppress
<1>1. /\ initialized' \in BOOLEAN /\ firstTick' \in 0 .. TickModulus - 1
      /\ firstNow' \in Nat /\ now' \in Nat /\ CalledBefore'
  BY FirstStep
<1>2. swallowed' \in Nat
  BY AgeRange DEF HistTypeOK
<1>3. UNCHANGED <<counter, bitmap, faultCount, lastId, lastEvent, streak>>
  BY DEF reported
<1>4. HistTypeOK'
  BY <1>1, <1>2, <1>3 DEF HistTypeOK, TypeOK
<1>5. BitHasEvidence' /\ StreakCounted'
  BY <1>3 DEF BitHasEvidence, StreakCounted
<1> QED
  BY <1>1, <1>4, <1>5

LEMMA IgnoreStep ==
  ASSUME DiagInv, NEW id \in Ids, HistIgnore(id)
  PROVE  DiagInv'
<1> USE DEF DiagInv, HistIgnore, Ignore
<1>1. /\ initialized' \in BOOLEAN /\ firstTick' \in 0 .. TickModulus - 1
      /\ firstNow' \in Nat /\ now' \in Nat /\ CalledBefore'
  BY FirstStep
<1>2. UNCHANGED <<counter, bitmap, faultCount, lastId, lastEvent, streak, swallowed>>
  BY DEF reported
<1>3. HistTypeOK'
  BY <1>1, <1>2 DEF HistTypeOK, TypeOK
<1>4. BitHasEvidence' /\ StreakCounted'
  BY <1>2 DEF BitHasEvidence, StreakCounted
<1> QED
  BY <1>1, <1>3, <1>4

LEMMA CountUpStep ==
  ASSUME DiagInv, NEW id \in Ids, HistFault(id), CountUp(id)
  PROVE  DiagInv'
<1> USE DEF DiagInv, HistFault, CountUp
<1>1. /\ initialized' \in BOOLEAN /\ firstTick' \in 0 .. TickModulus - 1
      /\ firstNow' \in Nat /\ now' \in Nat /\ CalledBefore'
  BY FirstStep
<1>2. UNCHANGED <<bitmap, faultCount, lastId, lastEvent, swallowed>>
  BY DEF reported
<1>3. counter \in [Ids -> 0 .. Threshold] /\ streak \in [Ids -> 0 .. Threshold + 1]
  BY DEF HistTypeOK, TypeOK
<1>4. streak[id] <= counter[id]
  BY <1>3, DiagAssumption DEF StreakCounted
<1>5. streak[id] + 1 \in 0 .. Threshold /\ streak' = [streak EXCEPT ![id] = streak[id] + 1]
  <2>1. streak[id] \in Nat /\ counter[id] \in Nat /\ Threshold \in Nat /\ counter[id] < Threshold
    BY <1>3, DiagAssumption
  <2>2. streak[id] + 1 \in 0 .. Threshold /\ ~(streak[id] > Threshold)
    BY <1>4, <2>1
  <2> QED
    BY <2>2
<1>6. counter' \in [Ids -> 0 .. Threshold] /\ streak' \in [Ids -> 0 .. Threshold + 1]
  BY <1>3, <1>5, DiagAssumption
<1>7. HistTypeOK'
  BY <1>1, <1>2, <1>6 DEF HistTypeOK, TypeOK
<1>8. BitHasEvidence'
  BY <1>2, <1>3, DiagAssumption DEF BitHasEvidence, HistTypeOK, TypeOK, Shown
<1>10. StreakCounted'
  BY <1>2, <1>3, <1>4, <1>5, DiagAssumption DEF StreakCounted
<1> QED
  BY <1>1, <1>7, <1>8, <1>10

LEMMA ConfirmStep ==
  ASSUME DiagInv, NEW id \in Ids, HistFault(id), Confirm(id)
  PROVE  DiagInv'
<1> USE DEF DiagInv, HistFault, Confirm
<1>1. /\ initialized' \in BOOLEAN /\ firstTick' \in 0 .. TickModulus - 1
      /\ firstNow' \in Nat /\ now' \in Nat /\ CalledBefore'
  BY FirstStep
<1>2. UNCHANGED <<counter, swallowed>>
  OBVIOUS
<1>3. /\ counter \in [Ids -> 0 .. Threshold] /\ streak \in [Ids -> 0 .. Threshold + 1]
      /\ bitmap \in SUBSET Shown /\ faultCount \in 0 .. CountModulus - 1
  BY DEF HistTypeOK, TypeOK
<1>4. streak' \in [Ids -> 0 .. Threshold + 1]
  BY <1>3, DiagAssumption
<1>5. faultCount' \in 0 .. CountModulus - 1
  BY <1>3, CountRange
<1>6. bitmap' \in SUBSET Shown /\ lastId' \in Ids /\ lastEvent' \in {0, 1}
  BY <1>3
<1>7. HistTypeOK'
  BY <1>1, <1>2, <1>3, <1>4, <1>5, <1>6 DEF HistTypeOK, TypeOK
<1>8. BitHasEvidence'
  BY <1>2, <1>3 DEF BitHasEvidence
<1>10. id \in Shown => id \in bitmap'
  OBVIOUS
<1>11. StreakCounted'
  BY <1>2, <1>3, <1>10, DiagAssumption DEF StreakCounted
<1> QED
  BY <1>1, <1>7, <1>8, <1>11

LEMMA OkStep ==
  ASSUME DiagInv, NEW id \in Ids, HistOk(id)
  PROVE  DiagInv'
<1> USE DEF DiagInv, HistOk, EventOk
<1>1. /\ initialized' \in BOOLEAN /\ firstTick' \in 0 .. TickModulus - 1
      /\ firstNow' \in Nat /\ now' \in Nat /\ CalledBefore'
  BY FirstStep
<1>2. UNCHANGED <<faultCount, lastId, lastEvent, swallowed>>
  OBVIOUS
<1>3. /\ counter \in [Ids -> 0 .. Threshold] /\ streak \in [Ids -> 0 .. Threshold + 1]
      /\ bitmap \in SUBSET Shown
  BY DEF HistTypeOK, TypeOK
<1>4. /\ streak' \in [Ids -> 0 .. Threshold + 1] /\ bitmap' \in SUBSET Shown
      /\ streak' = [streak EXCEPT ![id] = 0]
  BY <1>3, DiagAssumption
<1>5. counter' \in [Ids -> 0 .. Threshold] /\ \A i \in Ids \ {id} : counter'[i] = counter[i]
  BY <1>3, DiagAssumption
<1>6. HistTypeOK'
  BY <1>1, <1>2, <1>4, <1>5 DEF HistTypeOK, TypeOK
<1>7. BitHasEvidence'
  BY <1>3, <1>5 DEF BitHasEvidence, Shown
<1>9. StreakCounted'
  BY <1>3, <1>4, <1>5, DiagAssumption DEF StreakCounted
<1> QED
  BY <1>1, <1>6, <1>7, <1>9

LEMMA TickStep ==
  ASSUME DiagInv, HistTick
  PROVE  DiagInv'
<1> USE DEF DiagInv, HistTick, Tick
<1>1. /\ UNCHANGED <<initialized, firstTick, counter, bitmap, faultCount, lastId, lastEvent,
                     streak, firstNow, swallowed>>
      /\ now' \in Nat /\ now' = now + 1
  BY DEF graceVars, reported, HistTypeOK, TypeOK
<1>2. HistTypeOK'
  BY <1>1 DEF HistTypeOK, TypeOK
<1>3. CalledBefore'
  BY <1>1 DEF CalledBefore, HistTypeOK, TypeOK
<1>4. BitHasEvidence' /\ StreakCounted'
  BY <1>1 DEF BitHasEvidence, StreakCounted
<1> QED
  BY <1>2, <1>3, <1>4

LEMMA StutterStep ==
  ASSUME DiagInv, UNCHANGED histVars
  PROVE  DiagInv'
  BY DEF DiagInv, histVars, diagVars, HistTypeOK, TypeOK, CalledBefore, BitHasEvidence,
         StreakCounted

LEMMA NextDiag == DiagInv /\ [HistNext]_histVars => DiagInv'
<1> SUFFICES ASSUME DiagInv, [HistNext]_histVars PROVE DiagInv'
  OBVIOUS
<1>1. ASSUME NEW id \in Ids, HistSuppress(id) PROVE DiagInv'
  BY <1>1, SuppressStep
<1>2. ASSUME NEW id \in Ids, HistIgnore(id) PROVE DiagInv'
  BY <1>2, IgnoreStep
<1>3. ASSUME NEW id \in Ids, HistFault(id) PROVE DiagInv'
  BY <1>3, CountUpStep, ConfirmStep DEF HistFault
<1>4. ASSUME NEW id \in Ids, HistOk(id) PROVE DiagInv'
  BY <1>4, OkStep
<1>5. CASE HistTick
  BY <1>5, TickStep
<1>6. CASE UNCHANGED histVars
  BY <1>6, StutterStep
<1> QED
  BY <1>1, <1>2, <1>3, <1>4, <1>5, <1>6 DEF HistNext

\* What the probes report stays in range however often tick and count wrap.
THEOREM DiagTypeCorrect == HistSpec => []HistTypeOK
<1>1. DiagInv => HistTypeOK
  BY DEF DiagInv
<1> QED
  BY InitDiag, NextDiag, <1>1, PTL DEF HistSpec

\* A bit of the bitmap always has an enabled ID at its threshold behind it.
THEOREM NoFalseReport == HistSpec => []BitHasEvidence
<1>1. DiagInv => BitHasEvidence
  BY DEF DiagInv
<1> QED
  BY InitDiag, NextDiag, <1>1, PTL DEF HistSpec

\* A fault that lasts longer than the threshold outside the window shows its bit.
THEOREM NoMissedFault == HistSpec => []SustainedFaultShown
<1>1. DiagInv => SustainedFaultShown
  BY DEF DiagInv, StreakCounted, SustainedFaultShown, Shown
<1> QED
  BY InitDiag, NextDiag, <1>1, PTL DEF HistSpec

-----------------------------------------------------------------------------
(* The grace window on the wrapping tick.                                  *)

\* Between the steps the start of the window is the tick of the first call, and
\* nothing has happened before that call.
FirstIsTick == initialized => firstTick = firstNow % TickModulus

NotCalled == ~initialized => bitmap = {} /\ counter = [id \in Ids |-> 0]

WindowInv == DiagInv /\ FirstIsTick /\ NotCalled /\ StartupQuiet /\ SwallowedInWindow

\* What the code measures is the age of the handler, wrapped.
LEMMA ElapsedIsAge ==
  ASSUME DiagInv, FirstIsTick
  PROVE  ElapsedMs = Age % TickModulus
<1>1. TickModulus \in Nat /\ TickModulus > 0 /\ now \in Nat /\ firstNow \in Nat
  BY DiagAssumption DEF DiagInv, HistTypeOK, TypeOK
<1>2. CASE initialized
  <2> DEFINE d == now - firstNow
  <2>1. d \in Nat /\ firstNow + d = now
    BY <1>1, <1>2 DEF DiagInv, CalledBefore
  <2> HIDE DEF d
  <2>2. (((firstNow + d) % TickModulus) - (firstNow % TickModulus)) % TickModulus
          = d % TickModulus
    BY <1>1, <2>1, WrappedDifference
  <2>3. ((now % TickModulus) - (firstNow % TickModulus)) % TickModulus
          = (now - firstNow) % TickModulus
    BY Zenon, <2>1, <2>2 DEF d
  <2> QED
    BY <1>2, <2>3 DEF ElapsedMs, First, OS_GetTickCount, Age, FirstIsTick
<1>3. CASE ~initialized
  <2>1. now % TickModulus \in Int
    BY <1>1, Division
  <2>2. (now % TickModulus) - (now % TickModulus) = 0 /\ now - now = 0
    BY <1>1, <2>1
  <2> QED
    BY <1>3, <2>2 DEF ElapsedMs, First, OS_GetTickCount, Age
<1> QED
  BY <1>2, <1>3

\* So the early return is taken whenever the handler is younger than Grace.
LEMMA YoungIsInGrace ==
  ASSUME DiagInv, FirstIsTick, Age < Grace
  PROVE  InGrace
<1>1. Age \in Nat
  BY AgeRange DEF DiagInv, HistTypeOK
<1>2. Age \in 0 .. TickModulus - 1 /\ Grace \in Nat
  BY <1>1, DiagAssumption
<1>3. Age = TickModulus * 0 + Age
  BY <1>1, DiagAssumption
<1>4. Age % TickModulus = Age
  BY <1>1, <1>2, <1>3, DiagAssumption, Remainder
<1> QED
  BY <1>4, ElapsedIsAge DEF InGrace

\* A call does not change the age, and keeps the start of the window.
LEMMA CallKeepsAge ==
  ASSUME DiagInv, FirstIsTick, TakeFirst, NoteFirst, now' = now
  PROVE  Age' = Age /\ FirstIsTick' /\ initialized'
<1>1. CASE initialized
  BY <1>1 DEF TakeFirst, NoteFirst, First, FirstIsTick, Age
<1>2. CASE ~initialized
  BY <1>2 DEF TakeFirst, NoteFirst, First, FirstIsTick, Age, OS_GetTickCount
<1> QED
  BY <1>1, <1>2 DEF TakeFirst

\* While the window is open, or has not been opened, nothing has been counted.
LEMMA QuietNow ==
  ASSUME WindowInv, Age < Grace
  PROVE  bitmap = {} /\ counter = [id \in Ids |-> 0]
  BY DEF WindowInv, NotCalled, StartupQuiet

LEMMA InitWindow == HistInit => WindowInv
<1> SUFFICES ASSUME HistInit PROVE WindowInv
  OBVIOUS
<1>1. DiagInv
  BY InitDiag
<1>2. FirstIsTick /\ NotCalled /\ StartupQuiet /\ SwallowedInWindow
  BY DEF HistInit, Init, FirstIsTick, NotCalled, StartupQuiet, SwallowedInWindow
<1> QED
  BY <1>1, <1>2 DEF WindowInv

LEMMA NextWindow == WindowInv /\ [HistNext]_histVars => WindowInv'
<1> SUFFICES ASSUME WindowInv, [HistNext]_histVars PROVE WindowInv'
  OBVIOUS
<1>0. DiagInv'
  BY NextDiag DEF WindowInv
<1>1. ASSUME NEW id \in Ids, HistSuppress(id) PROVE WindowInv'
  <2> USE <1>1 DEF HistSuppress, Suppress
  <2>1. Age' = Age /\ FirstIsTick' /\ initialized'
    BY CallKeepsAge DEF WindowInv
  <2>2. UNCHANGED <<counter, bitmap>>
    BY DEF reported
  <2>3. StartupQuiet' /\ NotCalled'
    BY <2>1, <2>2, QuietNow DEF StartupQuiet, NotCalled
  <2>4. SwallowedInWindow'
    BY ElapsedIsAge DEF WindowInv, InGrace, SwallowedInWindow
  <2> QED
    BY <1>0, <2>1, <2>3, <2>4 DEF WindowInv
<1>2. ASSUME NEW id \in Ids, HistIgnore(id) PROVE WindowInv'
  <2> USE <1>2 DEF HistIgnore, Ignore
  <2>1. Age' = Age /\ FirstIsTick' /\ initialized'
    BY CallKeepsAge DEF WindowInv
  <2>2. UNCHANGED <<counter, bitmap, swallowed>>
    BY DEF reported
  <2>3. StartupQuiet' /\ NotCalled' /\ SwallowedInWindow'
    BY <2>1, <2>2, QuietNow DEF StartupQuiet, NotCalled, SwallowedInWindow, WindowInv
  <2> QED
    BY <1>0, <2>1, <2>3 DEF WindowInv
<1>3. ASSUME NEW id \in Ids, HistFault(id) PROVE WindowInv'
  <2>1. TakeFirst /\ NoteFirst /\ now' = now /\ swallowed' = swallowed /\ ~InGrace
    BY <1>3 DEF HistFault, CountUp, Confirm
  <2>2. Age' = Age /\ FirstIsTick' /\ initialized'
    BY <2>1, CallKeepsAge DEF WindowInv
  <2>3. ~(Age < Grace)
    BY <2>1, YoungIsInGrace DEF WindowInv
  <2>4. StartupQuiet' /\ NotCalled' /\ SwallowedInWindow'
    BY <2>1, <2>2, <2>3 DEF StartupQuiet, NotCalled, SwallowedInWindow, WindowInv
  <2> QED
    BY <1>0, <2>2, <2>4 DEF WindowInv
<1>4. ASSUME NEW id \in Ids, HistOk(id) PROVE WindowInv'
  <2> USE <1>4 DEF HistOk, EventOk
  <2>1. Age' = Age /\ FirstIsTick' /\ initialized'
    BY CallKeepsAge DEF WindowInv
  <2>2. ASSUME Age < Grace PROVE bitmap' = {} /\ counter' = [i \in Ids |-> 0]
    <3>1. bitmap = {} /\ counter = [i \in Ids |-> 0]
      BY <2>2, QuietNow
    <3> QED
      BY <3>1
  <2>3. StartupQuiet' /\ NotCalled' /\ SwallowedInWindow'
    BY <2>1, <2>2 DEF StartupQuiet, NotCalled, SwallowedInWindow, WindowInv
  <2> QED
    BY <1>0, <2>1, <2>3 DEF WindowInv
<1>5. CASE HistTick
  <2>1. UNCHANGED <<initialized, firstTick, counter, bitmap, firstNow, swallowed>>
        /\ now' = now + 1
    BY <1>5 DEF HistTick, Tick, graceVars, reported
  <2>2. FirstIsTick' /\ NotCalled' /\ SwallowedInWindow'
    BY <2>1 DEF FirstIsTick, NotCalled, SwallowedInWindow, WindowInv
  <2>3. initialized => Age' = Age + 1 /\ Age \in Int /\ Grace \in Int
    BY <2>1, DiagAssumption DEF Age, WindowInv, DiagInv, HistTypeOK, TypeOK
  <2>4. StartupQuiet'
    BY <2>1, <2>3 DEF StartupQuiet, WindowInv
  <2> QED
    BY <1>0, <2>2, <2>4 DEF WindowInv
<1>6. CASE UNCHANGED histVars
  <2>1. UNCHANGED <<now, initialized, firstTick, counter, bitmap, firstNow, swallowed>>
    BY <1>6 DEF histVars, diagVars
  <2>2. FirstIsTick' /\ NotCalled' /\ SwallowedInWindow' /\ StartupQuiet'
    BY <2>1 DEF FirstIsTick, NotCalled, SwallowedInWindow, StartupQuiet, Age, WindowInv
  <2> QED
    BY <1>0, <2>2 DEF WindowInv
<1> QED
  BY <1>1, <1>2, <1>3, <1>4, <1>5, <1>6 DEF HistNext

\* Nothing is counted or shown in the first Grace milliseconds, whatever tick the
\* handler starts at.
THEOREM QuietAtStartup == HistSpec => []StartupQuiet
<1>1. WindowInv => StartupQuiet
  BY DEF WindowInv
<1> QED
  BY InitWindow, NextWindow, <1>1, PTL DEF HistSpec

\* Later faults are swallowed only in the windows that a wrap of the tick reopens.
THEOREM SwallowedOnlyInWindow == HistSpec => []SwallowedInWindow
<1>1. WindowInv => SwallowedInWindow
  BY DEF WindowInv
<1> QED
  BY InitWindow, NextWindow, <1>1, PTL DEF HistSpec
=============================================================================
