---------------------------- MODULE TelemetryProofs ----------------------------
(***************************************************************************)
(* The signals of a frame, the range 0x7F4 reports and what the sidecar    *)
(* holds, proved for every value: a signal comes back as it was put in,    *)
(* cut off to its length, and leaves the others alone, so that no voltage  *)
(* spills into another cell's; 0x7F4 covers whatever the last read of the  *)
(* database found; the trip replay keeps to its clock, however long the    *)
(* trip and the intervals are; and through a socket buffer of any size the *)
(* sidecar gets what the plant sent, and never mixes three rounds.         *)
(***************************************************************************)
EXTENDS CellTelemetry, WellFoundedInduction, SequenceTheorems, TLAPS

\* A field is a run of bit positions that begins at its least significant bit.
LEMMA FieldIsRun ==
  ASSUME NEW s \in Nat, NEW l \in Nat
  PROVE  Lsb(s, l) \in Int /\ Field(s, l) = Lsb(s, l) .. Lsb(s, l) + l - 1
<1>1. BigEndian(s) \in Int
  BY DEF BigEndian
<1> QED BY <1>1 DEF Lsb, Field

\* A signal comes back as it was put in, but for the bits beyond its length.
LEMMA RoundTrip ==
  ASSUME NEW s \in Nat, NEW l \in Nat, NEW m, NEW v
  PROVE  DecodeSignal(EncodeSignal(m, s, l, v), s, l) = v \cap 0 .. l - 1
<1>1. Lsb(s, l) \in Int /\ Field(s, l) = Lsb(s, l) .. Lsb(s, l) + l - 1
  BY FieldIsRun
<1> QED BY <1>1 DEF DecodeSignal, EncodeSignal

\* A signal leaves those alone whose fields lie below or above its own.
LEMMA NoSpill ==
  ASSUME NEW s \in Nat, NEW l \in Nat, NEW t \in Nat, NEW n \in Nat, NEW m, NEW v,
         Lsb(s, l) + l <= Lsb(t, n) \/ Lsb(t, n) + n <= Lsb(s, l)
  PROVE  DecodeSignal(EncodeSignal(m, s, l, v), t, n) = DecodeSignal(m, t, n)
<1>1. /\ Lsb(s, l) \in Int /\ Field(s, l) = Lsb(s, l) .. Lsb(s, l) + l - 1
      /\ Lsb(t, n) \in Int
  BY FieldIsRun
<1> QED BY <1>1 DEF DecodeSignal, EncodeSignal

\* Where 0x270 has its signals.
LEMMA Layout270 ==
  /\ Lsb(7, 8) = 56
  /\ Lsb(12, 1) = 52 /\ Lsb(13, 1) = 53 /\ Lsb(14, 1) = 54 /\ Lsb(15, 1) = 55
  /\ Lsb(11, 13) = 39 /\ Lsb(30, 13) = 26 /\ Lsb(33, 13) = 13 /\ Lsb(52, 13) = 0
BY DEF Lsb, BigEndian

\* The signals of 0x270 do not overlap: putting one in leaves those that were put in before.
LEMMA Apart270 ==
  ASSUME NEW m, NEW v
  PROVE  /\ DecodeSignal(EncodeSignal(m, 52, 13, v), 33, 13) = DecodeSignal(m, 33, 13)
         /\ DecodeSignal(EncodeSignal(m, 52, 13, v), 30, 13) = DecodeSignal(m, 30, 13)
         /\ DecodeSignal(EncodeSignal(m, 52, 13, v), 11, 13) = DecodeSignal(m, 11, 13)
         /\ DecodeSignal(EncodeSignal(m, 52, 13, v), 7, 8) = DecodeSignal(m, 7, 8)
         /\ DecodeSignal(EncodeSignal(m, 33, 13, v), 30, 13) = DecodeSignal(m, 30, 13)
         /\ DecodeSignal(EncodeSignal(m, 33, 13, v), 11, 13) = DecodeSignal(m, 11, 13)
         /\ DecodeSignal(EncodeSignal(m, 33, 13, v), 7, 8) = DecodeSignal(m, 7, 8)
         /\ DecodeSignal(EncodeSignal(m, 30, 13, v), 11, 13) = DecodeSignal(m, 11, 13)
         /\ DecodeSignal(EncodeSignal(m, 30, 13, v), 7, 8) = DecodeSignal(m, 7, 8)
         /\ DecodeSignal(EncodeSignal(m, 11, 13, v), 7, 8) = DecodeSignal(m, 7, 8)
         /\ DecodeSignal(EncodeSignal(m, 12, 1, v), 7, 8) = DecodeSignal(m, 7, 8)
         /\ DecodeSignal(EncodeSignal(m, 13, 1, v), 7, 8) = DecodeSignal(m, 7, 8)
         /\ DecodeSignal(EncodeSignal(m, 14, 1, v), 7, 8) = DecodeSignal(m, 7, 8)
         /\ DecodeSignal(EncodeSignal(m, 15, 1, v), 7, 8) = DecodeSignal(m, 7, 8)
<1>1. DecodeSignal(EncodeSignal(m, 52, 13, v), 33, 13) = DecodeSignal(m, 33, 13)
  <2>1. Lsb(52, 13) + 13 <= Lsb(33, 13)
    BY Layout270
  <2> QED BY ONLY <2>1, NoSpill
<1>2. DecodeSignal(EncodeSignal(m, 52, 13, v), 30, 13) = DecodeSignal(m, 30, 13)
  <2>1. Lsb(52, 13) + 13 <= Lsb(30, 13)
    BY Layout270
  <2> QED BY ONLY <2>1, NoSpill
<1>3. DecodeSignal(EncodeSignal(m, 52, 13, v), 11, 13) = DecodeSignal(m, 11, 13)
  <2>1. Lsb(52, 13) + 13 <= Lsb(11, 13)
    BY Layout270
  <2> QED BY ONLY <2>1, NoSpill
<1>4. DecodeSignal(EncodeSignal(m, 52, 13, v), 7, 8) = DecodeSignal(m, 7, 8)
  <2>1. Lsb(52, 13) + 13 <= Lsb(7, 8)
    BY Layout270
  <2> QED BY ONLY <2>1, NoSpill
<1>5. DecodeSignal(EncodeSignal(m, 33, 13, v), 30, 13) = DecodeSignal(m, 30, 13)
  <2>1. Lsb(33, 13) + 13 <= Lsb(30, 13)
    BY Layout270
  <2> QED BY ONLY <2>1, NoSpill
<1>6. DecodeSignal(EncodeSignal(m, 33, 13, v), 11, 13) = DecodeSignal(m, 11, 13)
  <2>1. Lsb(33, 13) + 13 <= Lsb(11, 13)
    BY Layout270
  <2> QED BY ONLY <2>1, NoSpill
<1>7. DecodeSignal(EncodeSignal(m, 33, 13, v), 7, 8) = DecodeSignal(m, 7, 8)
  <2>1. Lsb(33, 13) + 13 <= Lsb(7, 8)
    BY Layout270
  <2> QED BY ONLY <2>1, NoSpill
<1>8. DecodeSignal(EncodeSignal(m, 30, 13, v), 11, 13) = DecodeSignal(m, 11, 13)
  <2>1. Lsb(30, 13) + 13 <= Lsb(11, 13)
    BY Layout270
  <2> QED BY ONLY <2>1, NoSpill
<1>9. DecodeSignal(EncodeSignal(m, 30, 13, v), 7, 8) = DecodeSignal(m, 7, 8)
  <2>1. Lsb(30, 13) + 13 <= Lsb(7, 8)
    BY Layout270
  <2> QED BY ONLY <2>1, NoSpill
<1>10. DecodeSignal(EncodeSignal(m, 11, 13, v), 7, 8) = DecodeSignal(m, 7, 8)
  <2>1. Lsb(11, 13) + 13 <= Lsb(7, 8)
    BY Layout270
  <2> QED BY ONLY <2>1, NoSpill
<1>11. DecodeSignal(EncodeSignal(m, 12, 1, v), 7, 8) = DecodeSignal(m, 7, 8)
  <2>1. Lsb(12, 1) + 1 <= Lsb(7, 8)
    BY Layout270
  <2> QED BY ONLY <2>1, NoSpill
<1>12. DecodeSignal(EncodeSignal(m, 13, 1, v), 7, 8) = DecodeSignal(m, 7, 8)
  <2>1. Lsb(13, 1) + 1 <= Lsb(7, 8)
    BY Layout270
  <2> QED BY ONLY <2>1, NoSpill
<1>13. DecodeSignal(EncodeSignal(m, 14, 1, v), 7, 8) = DecodeSignal(m, 7, 8)
  <2>1. Lsb(14, 1) + 1 <= Lsb(7, 8)
    BY Layout270
  <2> QED BY ONLY <2>1, NoSpill
<1>14. DecodeSignal(EncodeSignal(m, 15, 1, v), 7, 8) = DecodeSignal(m, 7, 8)
  <2>1. Lsb(15, 1) + 1 <= Lsb(7, 8)
    BY Layout270
  <2> QED BY ONLY <2>1, NoSpill
<1> QED BY <1>1, <1>2, <1>3, <1>4, <1>5, <1>6, <1>7, <1>8, <1>9, <1>10, <1>11, <1>12, <1>13, <1>14

\* What a receiver decodes from an 0x270 is the multiplexer and the four voltages that were
\* put in, each cut off to its 13 bits, whatever the others are.
THEOREM VoltagesKeepApart ==
  ASSUME NEW mux, NEW v0, NEW v1, NEW v2, NEW v3
  PROVE  LET m == VoltageFrame(mux, v0, v1, v2, v3)
         IN  /\ MuxOf(m) = mux \cap 0 .. 7
             /\ VoltageOf(m, 0) = v0 \cap 0 .. 12
             /\ VoltageOf(m, 1) = v1 \cap 0 .. 12
             /\ VoltageOf(m, 2) = v2 \cap 0 .. 12
             /\ VoltageOf(m, 3) = v3 \cap 0 .. 12
<1> DEFINE m0 == EncodeSignal({}, 7, 8, mux)
           m1 == EncodeSignal(m0, 12, 1, Set)
           m2 == EncodeSignal(m1, 13, 1, Set)
           m3 == EncodeSignal(m2, 14, 1, Set)
           m4 == EncodeSignal(m3, 15, 1, Set)
           m5 == EncodeSignal(m4, 11, 13, v0)
           m6 == EncodeSignal(m5, 30, 13, v1)
           m7 == EncodeSignal(m6, 33, 13, v2)
           m8 == EncodeSignal(m7, 52, 13, v3)
<1>1. VoltageFrame(mux, v0, v1, v2, v3) = m8
  BY DEF VoltageFrame
<1>2. DecodeSignal(m8, 52, 13) = v3 \cap 0 .. 12
  BY RoundTrip
<1>3. DecodeSignal(m7, 33, 13) = v2 \cap 0 .. 12
  BY RoundTrip
<1>4. DecodeSignal(m6, 30, 13) = v1 \cap 0 .. 12
  BY RoundTrip
<1>5. DecodeSignal(m5, 11, 13) = v0 \cap 0 .. 12
  BY RoundTrip
<1>6. DecodeSignal(m0, 7, 8) = mux \cap 0 .. 7
  BY RoundTrip
<1>7. DecodeSignal(m4, 7, 8) = DecodeSignal(m0, 7, 8)
  <2> HIDE DEF m0
  <2> QED BY Apart270
<1>8. /\ DecodeSignal(m5, 7, 8) = DecodeSignal(m4, 7, 8)
  <2> HIDE DEF m4
  <2> QED BY Apart270
<1>9. /\ DecodeSignal(m6, 7, 8) = DecodeSignal(m5, 7, 8)
      /\ DecodeSignal(m6, 11, 13) = DecodeSignal(m5, 11, 13)
  <2> HIDE DEF m5
  <2> QED BY Apart270
<1>10. /\ DecodeSignal(m7, 7, 8) = DecodeSignal(m6, 7, 8)
       /\ DecodeSignal(m7, 11, 13) = DecodeSignal(m6, 11, 13)
       /\ DecodeSignal(m7, 30, 13) = DecodeSignal(m6, 30, 13)
  <2> HIDE DEF m6
  <2> QED BY Apart270
<1>11. /\ DecodeSignal(m8, 7, 8) = DecodeSignal(m7, 7, 8)
       /\ DecodeSignal(m8, 11, 13) = DecodeSignal(m7, 11, 13)
       /\ DecodeSignal(m8, 30, 13) = DecodeSignal(m7, 30, 13)
       /\ DecodeSignal(m8, 33, 13) = DecodeSignal(m7, 33, 13)
  <2> HIDE DEF m7
  <2> QED BY Apart270
<1> HIDE DEF m0, m1, m2, m3, m4, m5, m6, m7, m8
<1>12. /\ MuxOf(m8) = mux \cap 0 .. 7 /\ VoltageOf(m8, 0) = v0 \cap 0 .. 12
       /\ VoltageOf(m8, 1) = v1 \cap 0 .. 12 /\ VoltageOf(m8, 2) = v2 \cap 0 .. 12
       /\ VoltageOf(m8, 3) = v3 \cap 0 .. 12
  <2>1. /\ VoltageOf(m8, 0) = DecodeSignal(m8, 11, 13) /\ VoltageOf(m8, 1) = DecodeSignal(m8, 30, 13)
        /\ VoltageOf(m8, 2) = DecodeSignal(m8, 33, 13) /\ VoltageOf(m8, 3) = DecodeSignal(m8, 52, 13)
        /\ MuxOf(m8) = DecodeSignal(m8, 7, 8)
    BY DEF VoltageOf, MuxOf
  <2> QED BY <2>1, <1>2, <1>3, <1>4, <1>5, <1>6, <1>7, <1>8, <1>9, <1>10, <1>11
<1> QED BY <1>1, <1>12

-----------------------------------------------------------------------------
(* The range in 0x7F4                                                        *)

\* A set of naturals has a least element, and a bounded set of integers both.
LEMMA LeastNatural ==
  ASSUME NEW T \in SUBSET Nat, T # {}
  PROVE  \E x \in T : \A y \in T : x <= y
<1> DEFINE R == {pair \in Nat \X Nat : pair[1] < pair[2]}
<1>1. IsWellFoundedOn(R, Nat)
  BY NatLessThanWellFounded DEF OpToRel
<1>2. \A x, y \in T : y < x => <<y, x>> \in R
  OBVIOUS
<1> HIDE DEF R
<1>3. PICK x \in T : \A y \in T : ~(<<y, x>> \in R)
  BY <1>1, WFMin
<1>4. ASSUME NEW y \in T PROVE x <= y
  <2>1. x \in Nat /\ y \in Nat /\ ~(y < x)
    BY <1>2, <1>3
  <2> QED BY ONLY <2>1
<1> QED BY <1>4

\* The 16-bit numbers are an interval.
LEMMA Int16Range ==
  ASSUME NEW x
  PROVE  x \in Int16Values <=> x \in Int /\ -32768 <= x /\ x <= 32767
<1> DEFINE lo == -32768
           hi == 32767
<1>1. Int16Values = lo .. hi
  BY DEF Int16Values
<1>2. lo \in Int /\ hi \in Int
  OBVIOUS
<1>3. lo = -32768 /\ hi = 32767
  OBVIOUS
<1> HIDE DEF lo, hi
<1>4. x \in lo .. hi <=> x \in Int /\ lo <= x /\ x <= hi
  BY <1>2
<1>5. x \in Int16Values <=> x \in Int /\ lo <= x /\ x <= hi
  BY <1>1, <1>4
<1> QED BY <1>3, <1>5

\* A nonempty set of 16-bit numbers has a least element.
LEMMA LeastExists ==
  ASSUME NEW S \in SUBSET Int16Values, S # {}
  PROVE  Least(S) \in S /\ \A y \in S : Least(S) <= y
<1> DEFINE T == {x + 32768 : x \in S}
<1>1. \A x \in S : x \in Int /\ -32768 <= x /\ x <= 32767
  BY Int16Range
<1>2. T \in SUBSET Nat
  BY <1>1
<1>3. T # {}
  OBVIOUS
<1>4. \E t \in T : \A u \in T : t <= u
  <2> HIDE DEF T
  <2> QED BY <1>2, <1>3, LeastNatural
<1>5. PICK x \in S : \A y \in S : x + 32768 <= y + 32768
  BY <1>4
<1>6. \A y \in S : x <= y
  BY <1>1, <1>5
<1> QED BY <1>6 DEF Least

\* It has a greatest one as well.
LEMMA GreatestExists ==
  ASSUME NEW S \in SUBSET Int16Values, S # {}
  PROVE  Greatest(S) \in S /\ \A y \in S : y <= Greatest(S)
<1> DEFINE T == {32767 - x : x \in S}
<1>1. \A x \in S : x \in Int /\ -32768 <= x /\ x <= 32767
  BY Int16Range
<1>2. T \in SUBSET Nat
  BY <1>1
<1>3. T # {}
  OBVIOUS
<1>4. \E t \in T : \A u \in T : t <= u
  <2> HIDE DEF T
  <2> QED BY <1>2, <1>3, LeastNatural
<1>5. PICK x \in S : \A y \in S : 32767 - x <= 32767 - y
  BY <1>4
<1>6. \A y \in S : y <= x
  BY <1>1, <1>5
<1> QED BY <1>6 DEF Greatest

\* The cast to int16 of a command's value is an int16.
LEMMA Int16Type ==
  ASSUME NEW v \in Int
  PROVE  Int16(v) \in Int16Values
<1>1. PICK w : w = v % 65536
  OBVIOUS
<1>2. w \in Int /\ 0 <= w /\ w < 65536
  BY <1>1
<1>3. Int16(v) = IF w < 32768 THEN w ELSE w - 65536
  BY <1>1 DEF Int16
<1>4. Int16(v) \in Int /\ -32768 <= Int16(v) /\ Int16(v) <= 32767
  BY ONLY <1>2, <1>3
<1> QED BY <1>4, Int16Range

-----------------------------------------------------------------------------
(* What DbInject adds to the block                                           *)

\* The overrides in force are int16s, and there is a lowest and a highest one.
LEMMA OverridesTyped ==
  ASSUME override \in [Overridden -> {{}} \cup {{v} : v \in OverrideValues}]
  PROVE  Overrides \in SUBSET Int16Values
<1>1. ASSUME NEW c \in Overridden, NEW w \in override[c] PROVE Int16(w) \in Int16Values
  <2>1. override[c] = {} \/ \E v \in OverrideValues : override[c] = {v}
    OBVIOUS
  <2>2. w \in OverrideValues
    BY <2>1
  <2>3. w \in Int
    <3>1. \A a, b : a .. b \subseteq Int
      OBVIOUS
    <3> QED BY <2>2, <3>1, OverrideAssumption
  <2> QED BY <2>3, Int16Type
<1> QED BY <1>1 DEF Overrides

\* The block a reader gets spans exactly what was in the block and in the table.
LEMMA WidenedSpans ==
  ASSUME DbTypeOK
  PROVE  /\ {db.min, db.max} \cup Overrides \in SUBSET Int16Values
         /\ Widened.min <= db.min /\ db.max <= Widened.max
         /\ \A o \in Overrides : Widened.min <= o /\ o <= Widened.max
         /\ Widened.min \in {db.min} \cup Overrides
         /\ Widened.max \in {db.max} \cup Overrides
<1>1. db.min \in Int16Values /\ db.max \in Int16Values
  BY DEF DbTypeOK, Ranges
<1>2. Overrides \in SUBSET Int16Values
  BY OverridesTyped DEF DbTypeOK
<1>3. db.min \in Int /\ db.max \in Int /\ \A o \in Overrides : o \in Int
  BY <1>1, <1>2, Int16Range
<1>4. CASE Overrides = {}
  BY <1>1, <1>2, <1>3, <1>4 DEF Widened
<1>5. CASE Overrides # {}
  <2>1. LowestOverride \in Overrides /\ \A y \in Overrides : LowestOverride <= y
    BY <1>2, <1>5, LeastExists DEF LowestOverride
  <2>2. HighestOverride \in Overrides /\ \A y \in Overrides : y <= HighestOverride
    BY <1>2, <1>5, GreatestExists DEF HighestOverride
  <2> DEFINE lo == IF LowestOverride < db.min THEN LowestOverride ELSE db.min
             hi == IF HighestOverride > db.max THEN HighestOverride ELSE db.max
  <2>3. Widened.min = lo /\ Widened.max = hi
    BY <1>5 DEF Widened
  <2>4. /\ lo \in {db.min} \cup Overrides /\ lo <= db.min
        /\ \A o \in Overrides : lo <= o
    BY <1>3, <2>1
  <2>5. /\ hi \in {db.max} \cup Overrides /\ db.max <= hi
        /\ \A o \in Overrides : o <= hi
    BY <1>3, <2>2
  <2> HIDE DEF lo, hi
  <2> QED BY <1>1, <1>2, <2>3, <2>4, <2>5
<1> QED BY <1>4, <1>5

\* What may happen to the database and the overrides in one step, with the ranges foxBMS writes.
DbStep ==
  \/ ReadMinMax
  \/ \E r \in Ranges : WriteMinMax(r) /\ (r = Invalid \/ r.min <= r.max)
  \/ \E c \in Overridden : ReleaseCell(c) \/ \E v \in OverrideValues : OverrideCell(c, v)
  \/ UNCHANGED dbVars

\* Only a range without any valid cell is upside down.
Upright == db = Invalid \/ db.min <= db.max

\* What the block holds keeps its type, and its range stays upright or empty.
LEMMA DbTypeStep ==
  ASSUME DbTypeOK, Upright, DbStep
  PROVE  DbTypeOK' /\ Upright'
<1>1. CASE ReadMinMax
  <2>1. vMin' \in Plausible /\ vMax' \in Plausible /\ UNCHANGED <<db, override>>
    BY <1>1 DEF ReadMinMax, DbTypeOK
  <2>2. read' \in SUBSET Int16Values /\ read' # {}
    BY <1>1, WidenedSpans DEF ReadMinMax
  <2> QED BY <2>1, <2>2 DEF DbTypeOK, Upright
<1>2. ASSUME NEW r \in Ranges, WriteMinMax(r), r = Invalid \/ r.min <= r.max
      PROVE  DbTypeOK' /\ Upright'
  BY <1>2 DEF WriteMinMax, DbTypeOK, Upright
<1>3. ASSUME NEW c \in Overridden, ReleaseCell(c) PROVE DbTypeOK' /\ Upright'
  <2>1. override' \in [Overridden -> {{}} \cup {{v} : v \in OverrideValues}]
    BY <1>3 DEF ReleaseCell, DbTypeOK
  <2> QED BY <1>3, <2>1 DEF ReleaseCell, DbTypeOK, Upright
<1>4. ASSUME NEW c \in Overridden, NEW v \in OverrideValues, OverrideCell(c, v)
      PROVE  DbTypeOK' /\ Upright'
  <2>1. override' \in [Overridden -> {{}} \cup {{w} : w \in OverrideValues}]
    BY <1>4 DEF OverrideCell, DbTypeOK
  <2> QED BY <1>4, <2>1 DEF OverrideCell, DbTypeOK, Upright
<1>5. CASE UNCHANGED dbVars
  BY <1>5 DEF dbVars, DbTypeOK, Upright
<1> QED BY <1>1, <1>2, <1>3, <1>4, <1>5 DEF DbStep

\* No step of the block makes 0x7F4 forget what the last read found.
LEMMA SummaryStep ==
  ASSUME DbTypeOK, Upright, SummaryCovers, DbStep
  PROVE  SummaryCovers'
<1>1. CASE ReadMinMax
  <2>1. /\ vMin' = IF Widened.min \in Plausible THEN Widened.min ELSE vMin
        /\ vMax' = IF Widened.max \in Plausible THEN Widened.max ELSE vMax
        /\ read' = {db.min, db.max} \cup Overrides
    BY <1>1 DEF ReadMinMax
  <2> DEFINE lo == Widened.min
             hi == Widened.max
  <2>2. /\ lo <= db.min /\ db.max <= hi /\ (\A o \in Overrides : lo <= o /\ o <= hi)
        /\ lo \in {db.min} \cup Overrides /\ hi \in {db.max} \cup Overrides
        /\ \A x \in {db.min, db.max} \cup Overrides : x \in Int
    BY WidenedSpans, Int16Range
  <2>3. /\ vMin' = IF lo \in Plausible THEN lo ELSE vMin
        /\ vMax' = IF hi \in Plausible THEN hi ELSE vMax
    BY <2>1
  <2>4. (db.min \notin Plausible /\ db.max \notin Plausible) \/ db.min <= db.max
    BY InvalidAssumption DEF Upright
  <2>5. lo \in Int /\ hi \in Int /\ db.min \in Int /\ db.max \in Int
    BY <2>2
  <2> HIDE DEF lo, hi
  <2>6. ASSUME NEW x \in read', \A y \in read' : x <= y, x \in Plausible PROVE lo = x
    <3>1. x \in Int /\ x <= lo
      BY <2>1, <2>2, <2>6
    <3>2. x \in {db.min, db.max} \cup Overrides /\ x <= db.min
      BY <2>1, <2>6
    <3>3. lo <= x
      BY <2>2, <2>4, <2>5, <2>6, <3>1, <3>2
    <3> QED BY <2>5, <3>1, <3>3
  <2>7. ASSUME NEW x \in read', \A y \in read' : y <= x, x \in Plausible PROVE hi = x
    <3>1. x \in Int /\ hi <= x
      BY <2>1, <2>2, <2>7
    <3>2. x \in {db.min, db.max} \cup Overrides /\ db.max <= x
      BY <2>1, <2>7
    <3>3. x <= hi
      BY <2>2, <2>4, <2>5, <2>7, <3>1, <3>2
    <3> QED BY <2>5, <3>1, <3>3
  <2>8. ASSUME read' \subseteq Plausible, NEW x \in read', NEW y \in read' PROVE x - y <= Delta'
    <3>1. db.min <= db.max /\ lo \in Plausible /\ hi \in Plausible
      BY <2>1, <2>2, <2>4, <2>8
    <3>2. x <= hi /\ lo <= y /\ x \in Int /\ y \in Int
      BY <2>1, <2>2, <2>5, <3>1
    <3>3. vMin' = lo /\ vMax' = hi /\ lo <= hi
      BY <2>2, <2>3, <2>5, <3>1
    <3>4. 0 <= hi - lo /\ hi - lo < 65536 /\ hi - lo \in Int
      <4>1. 1 <= lo /\ hi <= 9999
        BY <3>1 DEF Plausible
      <4> QED BY ONLY <2>5, <3>3, <4>1
    <3>5. Delta' = hi - lo
      <4>1. (hi - lo) % 65536 = hi - lo
        BY ONLY <3>4
      <4> QED BY <3>3, <4>1 DEF Delta
    <3> QED BY <2>5, <3>2, <3>5
  <2> QED BY <2>3, <2>6, <2>7, <2>8 DEF SummaryCovers
<1>2. CASE UNCHANGED <<vMin, vMax, read>>
  BY <1>2 DEF SummaryCovers, Delta
<1> QED BY <1>1, <1>2 DEF DbStep, WriteMinMax, ReleaseCell, OverrideCell, dbVars

-----------------------------------------------------------------------------
(* The rounds foxBMS measures                                                *)

Rounds == rounds \in Seq(Looks) /\ nextRow \in Nat \ {0}

\* Only a tick of the plant or of the replay sends a round and moves the replay's index.
LEMMA StepsOfPlants ==
  ASSUME [Next]_vars
  PROVE  \/ \E p \in Profiles : PlantRound(p)
         \/ ReplayRound
         \/ UNCHANGED <<source, rounds, rows, nextRow>>
<1>1. CASE ReplayEnds
  BY <1>1 DEF ReplayEnds
<1>2. CASE SendFrame
  BY <1>2 DEF SendFrame, plantVars
<1>3. CASE Measure
  BY <1>3 DEF Measure, plantVars
<1>4. CASE ReadDatabase
  BY <1>4 DEF ReadDatabase, plantVars
<1>5. CASE Command
  BY <1>5 DEF Command, plantVars
<1>6. CASE SendSummary
  BY <1>6 DEF SendSummary, plantVars
<1>7. CASE SendRange
  BY <1>7 DEF SendRange, plantVars
<1>8. CASE Receive
  BY <1>8 DEF Receive, plantVars
<1>9. CASE UNCHANGED vars
  BY <1>9 DEF vars, plantVars
<1> QED BY <1>1, <1>2, <1>3, <1>4, <1>5, <1>6, <1>7, <1>8, <1>9 DEF Next

\* The rounds stay a sequence of looks.
LEMMA RoundsStep ==
  ASSUME Rounds, [Next]_vars
  PROVE  Rounds'
<1>1. ASSUME NEW p \in Profiles, PlantRound(p) PROVE Rounds'
  <2>1. p \in Looks /\ rounds' = Append(rounds, p) /\ nextRow' = nextRow
    BY <1>1, TelemetryAssumption DEF PlantRound, StartRound
  <2> QED BY <2>1 DEF Rounds
<1>2. CASE ReplayRound
  <2> DEFINE row == IF PastEnd THEN 1 ELSE nextRow
  <2>1. Trip \in Seq(Looks) /\ Len(Trip) \in Nat /\ Len(Trip) # 0 /\ RowsPerAdvance \in Nat \ {0}
    BY TelemetryAssumption
  <2>2. row \in 1 .. Len(Trip)
    BY <2>1 DEF PastEnd, Rounds
  <2>3. rounds' = Append(rounds, Trip[row]) /\ nextRow' \in {row, row + RowsPerAdvance}
    BY <1>2 DEF ReplayRound, StartRound
  <2> HIDE DEF row
  <2>4. Trip[row] \in Looks /\ nextRow' \in Nat \ {0}
    BY <2>1, <2>2, <2>3
  <2> QED BY <2>3, <2>4 DEF Rounds
<1>3. CASE UNCHANGED <<rounds, nextRow>>
  BY <1>3 DEF Rounds
<1> QED BY <1>1, <1>2, <1>3, StepsOfPlants

\* What foxBMS measures of a round is a range of int16s.
LEMMA StepsOfDb ==
  ASSUME Rounds, [Next]_vars
  PROVE  DbStep
<1>1. CASE Measure
  <2> DEFINE v == {rounds[Len(rounds)].volts[i] % 8192 : i \in Cells}
  <2>1. rounds[Len(rounds)] \in Looks
    BY <1>1 DEF Measure, Rounds
  <2>2. \A i \in Cells : rounds[Len(rounds)].volts[i] \in Int
    BY <2>1 DEF Looks
  <2>3. \A x \in v : x \in Int /\ 0 <= x /\ x < 8192
    BY <2>2
  <2>4. v \in SUBSET Int16Values /\ v # {}
    <3>1. v # {}
      BY DEF Cells
    <3>2. \A x \in v : x \in Int16Values
      <4> HIDE DEF v
      <4> QED BY <2>3, Int16Range
    <3> QED BY <3>1, <3>2
  <2>5. WriteMinMax([min |-> Least(v), max |-> Greatest(v)]) \/ WriteMinMax(Invalid)
    BY <1>1 DEF Measure
  <2> HIDE DEF v
  <2>6. /\ Least(v) \in Int16Values /\ Greatest(v) \in Int16Values
        /\ Least(v) <= Greatest(v)
    BY <2>4, LeastExists, GreatestExists
  <2>7. [min |-> Least(v), max |-> Greatest(v)] \in Ranges
    BY <2>6 DEF Ranges
  <2> QED BY <2>5, <2>6, <2>7, InvalidAssumption DEF DbStep
<1>2. CASE ReadDatabase
  BY <1>2 DEF ReadDatabase, DbStep
<1>3. CASE Command
  BY <1>3 DEF Command, DbStep
<1>4. CASE UNCHANGED dbVars
  BY <1>4 DEF DbStep
<1> QED BY <1>1, <1>2, <1>3, <1>4 DEF Next, PlantRound, ReplayRound, ReplayEnds, SendFrame,
           SendSummary, SendRange, Receive, vars

\* What the block and the plants begin with.
LEMMA DbInitially == Init => DbTypeOK /\ Upright /\ Rounds /\ SummaryCovers
<1> SUFFICES ASSUME Init PROVE DbTypeOK /\ Upright /\ Rounds /\ SummaryCovers
  OBVIOUS
<1>1. /\ db = [min |-> 0, max |-> 0] /\ override = [c \in Overridden |-> {}]
      /\ vMin = 3700 /\ vMax = 3700 /\ read = {3700}
      /\ rounds = <<>> /\ nextRow = 1
  BY DEF Init, DbInit
<1>2. 0 \in Int16Values /\ 3700 \in Int16Values /\ 3700 \in Plausible
  BY Int16Range DEF Plausible
<1>3. DbTypeOK
  BY <1>1, <1>2 DEF DbTypeOK, Ranges
<1>4. Delta = 0
  BY <1>1 DEF Delta
<1> QED BY <1>1, <1>3, <1>4 DEF Upright, Rounds, SummaryCovers

\* The temperatures that 0x7F6 reports are 16-bit numbers.
RangeTyped == tMin \in Int16Values /\ tMax \in Int16Values

LEMMA RangeStarts == Init => RangeTyped
<1>1. 250 \in Int16Values
  BY Int16Range
<1> QED BY <1>1 DEF Init, RangeTyped

LEMMA RangeStep ==
  ASSUME RangeTyped, [Next]_vars
  PROVE  RangeTyped'
<1>1. CASE ReadDatabase
  <2>1. PICK t \in TempRanges :
          /\ tMin' = IF t.min \in PlausibleTemps THEN t.min ELSE tMin
          /\ tMax' = IF t.max \in PlausibleTemps THEN t.max ELSE tMax
    BY <1>1 DEF ReadDatabase, ReadTemperatures
  <2>2. t.min \in Int16Values /\ t.max \in Int16Values
    BY TelemetryAssumption DEF Ranges
  <2> QED BY <2>1, <2>2 DEF RangeTyped
<1>2. CASE UNCHANGED <<tMin, tMax>>
  BY <1>2 DEF RangeTyped
<1>3. CASE Measure \/ Command \/ SendSummary \/ SendRange
  BY <1>2, <1>3 DEF Measure, Command, SendSummary, SendRange
<1>4. CASE ReplayRound \/ ReplayEnds \/ SendFrame \/ Receive \/ UNCHANGED vars
  BY <1>2, <1>4 DEF ReplayRound, ReplayEnds, SendFrame, Receive, vars, vecuVars
<1>5. ASSUME NEW p \in Profiles, PlantRound(p) PROVE RangeTyped'
  BY <1>2, <1>5 DEF PlantRound, vecuVars
<1> QED BY <1>1, <1>3, <1>4, <1>5 DEF Next

\* The block, the override table and the probe's statics are in range in every state.
THEOREM DbTypeCorrect == Spec => []DbTypeOK
BY DbInitially, DbTypeStep, RoundsStep, StepsOfDb, PTL DEF Spec

\* 0x7F4 reports the lowest and the highest of what the last read found, each side as long as
\* its own value is plausible, for every table of overrides and everything the cells may show.
THEOREM SummaryIsSound == Spec => []SummaryCovers
BY DbInitially, DbTypeStep, SummaryStep, RoundsStep, StepsOfDb, PTL DEF Spec

-----------------------------------------------------------------------------
(* The clock of the trip replay                                              *)

\* Quotient and remainder.
LEMMA Division ==
  ASSUME NEW m \in Nat, m > 0, NEW x \in Int
  PROVE  /\ x = m * (x \div m) + (x % m)
         /\ x % m \in 0 .. m - 1 /\ x \div m \in Int
OBVIOUS

\* There is only one quotient and one remainder.
LEMMA DivisionUnique ==
  ASSUME NEW m \in Nat, m > 0, NEW q \in Int, NEW r \in 0 .. m - 1,
         NEW p \in Int, NEW s \in 0 .. m - 1, m * q + r = m * p + s
  PROVE  q = p /\ r = s
<1>1. m * (q - p) = s - r
  OBVIOUS
<1>2. CASE q - p >= 1
  <2>1. m * (q - p) >= m
    BY <1>2
  <2> QED BY <1>1, <2>1
<1>3. CASE q - p <= -1
  <2>1. m * (q - p) <= -m
    BY <1>3
  <2> QED BY <1>1, <2>1
<1>4. CASE q = p
  BY <1>4
<1> QED BY <1>2, <1>3, <1>4

\* Counting on by one: the remainder grows until it starts over and the quotient grows.
LEMMA OneMore ==
  ASSUME NEW m \in Nat, m > 0, NEW x \in Nat
  PROVE  /\ (x % m) + 1 = m => (x + 1) % m = 0 /\ (x + 1) \div m = (x \div m) + 1
         /\ (x % m) + 1 # m => (x + 1) % m = (x % m) + 1 /\ (x + 1) \div m = x \div m
<1> DEFINE q == x \div m
           r == x % m
           p == (x + 1) \div m
           s == (x + 1) % m
<1>1. x = m * q + r /\ r \in 0 .. m - 1 /\ q \in Int
  BY Division
<1>2. x + 1 = m * p + s /\ s \in 0 .. m - 1 /\ p \in Int
  BY Division
<1> HIDE DEF q, r, p, s
<1>3. CASE r + 1 = m
  <2>1. m * (q + 1) + 0 = m * p + s /\ q + 1 \in Int /\ 0 \in 0 .. m - 1
    <3>1. m * (q + 1) = m * q + m
      BY <1>1
    <3> QED BY <1>1, <1>2, <1>3, <3>1
  <2>2. s = 0 /\ p = q + 1
    BY <1>2, <2>1, DivisionUnique
  <2> QED BY <1>3, <2>2 DEF q, r, p, s
<1>4. CASE r + 1 # m
  <2>1. m * q + (r + 1) = m * p + s /\ r + 1 \in 0 .. m - 1
    BY <1>1, <1>2, <1>4
  <2>2. s = r + 1 /\ p = q
    BY <1>1, <1>2, <2>1, DivisionUnique
  <2> QED BY <1>4, <2>2 DEF q, r, p, s
<1> QED BY <1>3, <1>4 DEF r

\* The intervals of one pass over the trip.
PerPass == (Len(Trip) + RowsPerAdvance - 1) \div RowsPerAdvance

\* How many intervals one pass of the trip takes.
LEMMA PassLength ==
  /\ PerPass \in Nat /\ PerPass > 0
  /\ RowsPerAdvance * (PerPass - 1) < Len(Trip) /\ Len(Trip) <= RowsPerAdvance * PerPass
<1> DEFINE a == RowsPerAdvance
           n == Len(Trip)
           x == n + a - 1
           r == x % a
           p == PerPass
<1>1. a \in Nat /\ a > 0 /\ n \in Nat /\ n > 0
  BY TelemetryAssumption
<1>2. x = a * p + r /\ r \in 0 .. a - 1 /\ p \in Int
  BY <1>1, Division DEF PerPass
<1> HIDE DEF a, n, r, p
<1>3. a * (p - 1) = a * p - a
  BY <1>1, <1>2
<1>4. a * (p - 1) < n /\ n <= a * p
  BY <1>1, <1>2, <1>3
<1>5. p > 0
  <2>1. p <= 0 => a * p <= 0
    BY <1>1, <1>2
  <2> QED BY <1>1, <1>2, <1>4, <2>1
<1> QED BY <1>2, <1>4, <1>5 DEF a, n, p

\* The interval of the next tick, and its place in the pass.
Interval == Len(rounds) \div TicksPerRow
Place == Interval % PerPass

\* Within a pass every place has its row; the place behind the last one has none.
LEMMA PlaceHasRow ==
  ASSUME NEW k \in 0 .. PerPass - 1
  PROVE  /\ 1 + RowsPerAdvance * k \in 1 .. Len(Trip)
         /\ 1 + RowsPerAdvance * PerPass > Len(Trip)
         /\ RowsPerAdvance * (k + 1) = RowsPerAdvance * k + RowsPerAdvance
<1>1. RowsPerAdvance \in Nat /\ RowsPerAdvance > 0 /\ Len(Trip) \in Nat
  BY TelemetryAssumption
<1>2. PerPass \in Nat /\ PerPass > 0 /\ k \in Nat /\ k <= PerPass - 1
  BY PassLength
<1>3. RowsPerAdvance * k <= RowsPerAdvance * (PerPass - 1) /\ RowsPerAdvance * k >= 0
      /\ RowsPerAdvance * k \in Int /\ RowsPerAdvance * (PerPass - 1) \in Int
      /\ RowsPerAdvance * PerPass \in Int
  BY <1>1, <1>2
<1>4. RowsPerAdvance * (k + 1) = RowsPerAdvance * k + RowsPerAdvance
  BY <1>1, <1>2
<1> QED BY <1>1, <1>3, <1>4, PassLength

\* Where the index stands before the next tick: at the row of its place, or behind the
\* trip when a pass is over.
Punctual ==
  IF PastEnd THEN Place = 0
  ELSE nextRow = 1 + RowsPerAdvance * Place /\ (source = "replay" => Interval < PerPass)

\* What a row of the history must be, and the row of the next tick.
RowRight(n) ==
  LET interval == (n - 1) \div TicksPerRow
  IN  rows[n] > 0 =>
        /\ rows[n] = 1 + RowsPerAdvance * (interval % PerPass)
        /\ source = "replay" => interval < PerPass

Clocked ==
  /\ rows \in Seq(Nat) /\ Len(rows) = Len(rounds)
  /\ \A n \in 1 .. Len(rows) : RowRight(n)
  /\ source # "plant" => Punctual

\* The trip and its clock are not empty.
LEMMA TripNumbers ==
  /\ TicksPerRow \in Nat /\ TicksPerRow > 0 /\ RowsPerAdvance \in Nat /\ RowsPerAdvance > 0
  /\ Len(Trip) \in Nat /\ Len(Trip) > 0
  BY TelemetryAssumption

\* The clock starts at the first row.
LEMMA ClockStarts == Init => Clocked
<1> SUFFICES ASSUME Init PROVE Clocked
  OBVIOUS
<1>1. Len(rounds) = 0 /\ rows = <<>> /\ nextRow = 1
  BY DEF Init
<1>2. Interval = 0
  <2>1. 0 = TicksPerRow * (0 \div TicksPerRow) + (0 % TicksPerRow)
        /\ 0 % TicksPerRow \in 0 .. TicksPerRow - 1 /\ 0 \div TicksPerRow \in Int
    BY TripNumbers, Division
  <2>2. TicksPerRow * 0 + 0 = 0 /\ 0 \in 0 .. TicksPerRow - 1
    BY TripNumbers
  <2>3. 0 \div TicksPerRow = 0
    BY <2>1, <2>2, TripNumbers, DivisionUnique
  <2> QED BY <1>1, <2>3 DEF Interval
<1>3. Place = 0
  <2>1. 0 = PerPass * (0 \div PerPass) + (0 % PerPass)
        /\ 0 % PerPass \in 0 .. PerPass - 1 /\ 0 \div PerPass \in Int
    BY PassLength, Division
  <2>2. PerPass * 0 + 0 = 0 /\ 0 \in 0 .. PerPass - 1
    BY PassLength
  <2>3. 0 % PerPass = 0
    BY <2>1, <2>2, PassLength, DivisionUnique
  <2> QED BY <1>2, <2>3 DEF Place
<1>4. RowsPerAdvance * 0 = 0
  BY TripNumbers
<1>5. Punctual
  BY <1>1, <1>2, <1>3, <1>4, PassLength DEF Punctual
<1> QED BY <1>1, <1>5, EmptySeq DEF Clocked

\* One more row, of which RowRight holds, leaves the others what they are.
LEMMA RowAppended ==
  ASSUME Rounds, Clocked, NEW p \in Looks, NEW row \in Nat, StartRound(p, row),
         source' = source,
         row > 0 => /\ row = 1 + RowsPerAdvance * Place
                    /\ source = "replay" => Interval < PerPass
  PROVE  /\ rows' \in Seq(Nat) /\ Len(rows') = Len(rounds') /\ Len(rounds') = Len(rounds) + 1
         /\ \A n \in 1 .. Len(rows') : RowRight(n)'
<1>1. /\ rows' \in Seq(Nat) /\ Len(rows') = Len(rows) + 1 /\ rows'[Len(rows) + 1] = row
      /\ \A n \in 1 .. Len(rows) : rows'[n] = rows[n]
  BY AppendProperties DEF StartRound, Clocked
<1>2. Len(rounds') = Len(rounds) + 1 /\ Len(rounds) \in Nat /\ Len(rows) = Len(rounds)
  BY AppendProperties, LenProperties DEF StartRound, Rounds, Clocked
<1>3. ASSUME NEW n \in 1 .. Len(rows') PROVE RowRight(n)'
  <2>1. CASE n \in 1 .. Len(rows)
    BY <1>1, <2>1 DEF RowRight, Clocked
  <2>2. CASE n = Len(rows) + 1
    <3>1. n - 1 = Len(rounds)
      BY <1>2, <2>2
    <3> QED BY <1>1, <2>2, <3>1 DEF RowRight, Interval, Place
  <2> QED BY <1>1, <1>2, <2>1, <2>2
<1> QED BY <1>1, <1>2, <1>3

\* The index moves on with the interval, and is behind the trip when the pass is over.
LEMMA NextPunctual ==
  ASSUME Rounds, ReplayRound, Clocked
  PROVE  Punctual' /\ (IF PastEnd THEN 1 ELSE nextRow) = 1 + RowsPerAdvance * Place
<1> DEFINE row == IF PastEnd THEN 1 ELSE nextRow
           q == Interval
           k == Place
           q2 == Interval'
           k2 == Place'
           R == RowsPerAdvance
<1>1. /\ source # "plant" /\ source' = source /\ (PastEnd => source = "replay-loop")
      /\ nextRow' = IF Advances THEN row + R ELSE row
      /\ rounds' = Append(rounds, Trip[row])
  BY DEF ReplayRound, StartRound
<1>2. Punctual /\ R * 0 = 0
  BY <1>1, TripNumbers DEF Clocked
<1>3. row = 1 + R * k
  BY <1>2 DEF Punctual
<1>4. row \in 1 .. Len(Trip)
  BY TripNumbers DEF PastEnd, Rounds
<1>5. Len(rounds') = Len(rounds) + 1 /\ Len(rounds) \in Nat
  <2>1. Trip[row] \in Looks
    BY <1>4, TelemetryAssumption
  <2> QED BY <1>1, <2>1, AppendProperties, LenProperties DEF Rounds
<1>6. q \in Nat
  <2>1. Len(rounds) = TicksPerRow * q + (Len(rounds) % TicksPerRow) /\ q \in Int
        /\ Len(rounds) % TicksPerRow \in 0 .. TicksPerRow - 1
    BY <1>5, TripNumbers, Division DEF Interval
  <2> HIDE DEF q
  <2>2. q <= -1 => TicksPerRow * q <= -TicksPerRow
    BY <2>1, TripNumbers
  <2> QED BY <1>5, <2>1, <2>2, TripNumbers
<1>7. k \in 0 .. PerPass - 1
  BY <1>6, PassLength, Division DEF Place
<1>8. IF Advances THEN q2 = q + 1 ELSE q2 = q
  <2>1. Len(rounds) % TicksPerRow \in 0 .. TicksPerRow - 1
    BY <1>5, TripNumbers, Division
  <2>2. /\ (Len(rounds) % TicksPerRow) + 1 = TicksPerRow =>
              /\ (Len(rounds) + 1) % TicksPerRow = 0
              /\ (Len(rounds) + 1) \div TicksPerRow = (Len(rounds) \div TicksPerRow) + 1
        /\ (Len(rounds) % TicksPerRow) + 1 # TicksPerRow =>
              /\ (Len(rounds) + 1) % TicksPerRow = (Len(rounds) % TicksPerRow) + 1
              /\ (Len(rounds) + 1) \div TicksPerRow = Len(rounds) \div TicksPerRow
    BY <1>5, TripNumbers, OneMore
  <2>3. q2 = (Len(rounds) + 1) \div TicksPerRow
    BY <1>5 DEF Interval
  <2>4. q = Len(rounds) \div TicksPerRow
    BY DEF Interval
  <2>5. Advances <=> (Len(rounds) + 1) % TicksPerRow = 0
    BY DEF Advances
  <2> HIDE DEF q, q2
  <2>6. (Len(rounds) % TicksPerRow) + 1 # 0
    BY <2>1
  <2> QED BY <2>2, <2>3, <2>4, <2>5, <2>6
<1>9. k2 = q2 % PerPass /\ k = q % PerPass
  BY DEF Place
<1>10. source = "replay" => q < PerPass /\ k = q
  <2>1. source = "replay" => q < PerPass
    BY <1>1, <1>2 DEF Punctual
  <2>2. q < PerPass => q % PerPass = q
    BY <1>6, PassLength
  <2> QED BY <1>9, <2>1, <2>2
<1>11. PastEnd' <=> nextRow' > Len(Trip)
  BY DEF PastEnd
<1>12. Punctual' <=> IF PastEnd' THEN k2 = 0
                     ELSE nextRow' = 1 + R * k2 /\ (source' = "replay" => q2 < PerPass)
  BY DEF Punctual
<1> HIDE DEF row, q, k, q2, k2
<1>13. CASE ~Advances
  <2>1. nextRow' = row /\ q2 = q /\ k2 = k
    BY <1>1, <1>8, <1>9, <1>13
  <2>2. ~PastEnd'
    BY <1>4, <1>11, <2>1, TripNumbers
  <2> QED BY <1>1, <1>3, <1>10, <1>12, <2>1, <2>2 DEF row, k
<1>14. CASE Advances /\ k + 1 # PerPass
  <2>1. nextRow' = row + R /\ q2 = q + 1 /\ k2 = k + 1
    BY <1>1, <1>6, <1>8, <1>9, <1>14, PassLength, OneMore
  <2>2. k + 1 \in 0 .. PerPass - 1
    BY <1>7, <1>14, PassLength
  <2>3. R * (k + 1) = R * k + R /\ 1 + R * (k + 1) \in 1 .. Len(Trip) /\ R * k \in Int
    BY <1>7, <2>2, PlaceHasRow, TripNumbers
  <2>4. nextRow' = 1 + R * (k + 1)
    BY <1>3, <2>1, <2>3, TripNumbers
  <2>5. ~PastEnd'
    BY <1>11, <2>3, <2>4, TripNumbers
  <2>6. source' = "replay" => q2 < PerPass
    BY <1>1, <1>6, <1>10, <1>14, <2>1, PassLength
  <2> QED BY <1>3, <1>12, <2>1, <2>4, <2>5, <2>6 DEF row, k
<1>15. CASE Advances /\ k + 1 = PerPass
  <2>1. nextRow' = row + R /\ k2 = 0
    BY <1>1, <1>6, <1>8, <1>9, <1>15, PassLength, OneMore
  <2>2. R * (k + 1) = R * k + R /\ 1 + R * (k + 1) > Len(Trip) /\ R * k \in Int
    BY <1>7, <1>15, PlaceHasRow, TripNumbers
  <2>3. PastEnd'
    BY <1>3, <1>11, <2>1, <2>2, TripNumbers
  <2> QED BY <1>3, <1>12, <2>1, <2>3 DEF row, k
<1> QED BY <1>13, <1>14, <1>15

\* No step puts the clock wrong.
LEMMA ClockStep ==
  ASSUME Rounds, Clocked, [Next]_vars
  PROVE  Clocked'
<1>1. ASSUME NEW p \in Profiles, PlantRound(p) PROVE Clocked'
  <2>1. source = "plant" /\ source' = source /\ p \in Looks /\ StartRound(p, 0)
    BY <1>1, TelemetryAssumption DEF PlantRound
  <2> QED BY <2>1, RowAppended DEF Clocked
<1>2. CASE ReplayRound
  <2> DEFINE row == IF PastEnd THEN 1 ELSE nextRow
  <2>1. Punctual' /\ row = 1 + RowsPerAdvance * Place
    BY <1>2, NextPunctual
  <2>2. source' = source /\ StartRound(Trip[row], row) /\ source # "plant"
        /\ (PastEnd => source = "replay-loop")
    BY <1>2 DEF ReplayRound
  <2>3. source = "replay" => Interval < PerPass
    BY <2>2 DEF Clocked, Punctual
  <2>4. row \in 1 .. Len(Trip) /\ row \in Nat
    BY TripNumbers DEF PastEnd, Rounds
  <2>5. Trip[row] \in Looks
    BY <2>4, TelemetryAssumption
  <2> HIDE DEF row
  <2> QED BY <2>1, <2>2, <2>3, <2>4, <2>5, RowAppended DEF Clocked
<1>3. CASE UNCHANGED <<source, rounds, rows, nextRow>>
  BY <1>3 DEF Clocked, RowRight, Punctual, PastEnd, Place, Interval
<1> QED BY <1>1, <1>2, <1>3, StepsOfPlants

\* The trip replay sends the row its clock calls for, for every length of the trip and of the
\* intervals, also when the index jumps over the end of the trip and starts again.
THEOREM ReplayKeepsTime == Spec => []RowMatchesClock
<1>1. Clocked => RowMatchesClock
  BY DEF Clocked, RowRight, RowMatchesClock, PerPass
<1> QED BY <1>1, DbInitially, RoundsStep, ClockStarts, ClockStep, PTL DEF Spec

-----------------------------------------------------------------------------
(* Numbers and their bits                                                    *)

\* What bit k contributes.
Weight(S, k) == IF k \in S THEN 2 ^ k ELSE 0

\* The number of a set of bits, written out.
LEMMA NumberIsSum ==
  ASSUME NEW S
  PROVE  Number(S) = Weight(S, 0) + Weight(S, 1) + Weight(S, 2) + Weight(S, 3) + Weight(S, 4)
                     + Weight(S, 5) + Weight(S, 6) + Weight(S, 7) + Weight(S, 8) + Weight(S, 9)
                     + Weight(S, 10) + Weight(S, 11) + Weight(S, 12)
<1> DEFINE Def(f) == f = [k \in 0 .. 13 |-> IF k = 0 THEN 0 ELSE f[k - 1] + Weight(S, k - 1)]
           of == CHOOSE f : Def(f)
           s1 == Weight(S, 0)
           s2 == s1 + Weight(S, 1)
           s3 == s2 + Weight(S, 2)
           s4 == s3 + Weight(S, 3)
           s5 == s4 + Weight(S, 4)
           s6 == s5 + Weight(S, 5)
           s7 == s6 + Weight(S, 6)
           s8 == s7 + Weight(S, 7)
           s9 == s8 + Weight(S, 8)
           s10 == s9 + Weight(S, 9)
           s11 == s10 + Weight(S, 10)
           s12 == s11 + Weight(S, 11)
           s13 == s12 + Weight(S, 12)
           g == [k \in 0 .. 13 |->
                   CASE k = 0 -> 0 [] k = 1 -> s1 [] k = 2 -> s2 [] k = 3 -> s3 [] k = 4 -> s4
                     [] k = 5 -> s5 [] k = 6 -> s6 [] k = 7 -> s7 [] k = 8 -> s8 [] k = 9 -> s9
                     [] k = 10 -> s10 [] k = 11 -> s11 [] k = 12 -> s12 [] k = 13 -> s13]
<1>1. Number(S) = of[13]
  BY DEF Number, Weight
<1>0. \A k \in 0 .. 12 : Weight(S, k) \in Int
  BY DEF Weight
<1>2. /\ s1 = 0 + Weight(S, 0)
      /\ s2 = s1 + Weight(S, 1)
      /\ s3 = s2 + Weight(S, 2)
      /\ s4 = s3 + Weight(S, 3)
      /\ s5 = s4 + Weight(S, 4)
      /\ s6 = s5 + Weight(S, 5)
      /\ s7 = s6 + Weight(S, 6)
      /\ s8 = s7 + Weight(S, 7)
      /\ s9 = s8 + Weight(S, 8)
      /\ s10 = s9 + Weight(S, 9)
      /\ s11 = s10 + Weight(S, 10)
      /\ s12 = s11 + Weight(S, 11)
      /\ s13 = s12 + Weight(S, 12)
  BY <1>0
<1> HIDE DEF s1, s2, s3, s4, s5, s6, s7, s8, s9, s10, s11, s12, s13
<1>3. /\ g[0] = 0
      /\ g[1] = s1
      /\ g[2] = s2
      /\ g[3] = s3
      /\ g[4] = s4
      /\ g[5] = s5
      /\ g[6] = s6
      /\ g[7] = s7
      /\ g[8] = s8
      /\ g[9] = s9
      /\ g[10] = s10
      /\ g[11] = s11
      /\ g[12] = s12
      /\ g[13] = s13
  OBVIOUS
<1>4. DOMAIN g = 0 .. 13
  OBVIOUS
<1>5. g = [k \in 0 .. 13 |-> g[k]]
  OBVIOUS
<1> HIDE DEF g
<1>6. ASSUME NEW k \in 0 .. 13 PROVE g[k] = IF k = 0 THEN 0 ELSE g[k - 1] + Weight(S, k - 1)
  <2>1. k \in {0, 1, 2, 3, 4, 5, 6, 7, 8, 9, 10, 11, 12, 13}
    OBVIOUS
  <2> QED BY <1>2, <1>3, <2>1
<1>7. Def(g)
  BY <1>5, <1>6
<1>8. Def(of)
  <2> HIDE DEF Def
  <2> QED BY <1>7
<1> HIDE DEF of
<1>9. \A k \in 0 .. 13 : of[k] = IF k = 0 THEN 0 ELSE of[k-1] + Weight(S, k-1)
  BY <1>8
<1> HIDE DEF Def
<1>10. /\ of[0] = 0 /\ of[1] = of[0] + Weight(S, 0) /\ of[2] = of[1] + Weight(S, 1)
      /\ of[3] = of[2] + Weight(S, 2)  /\ of[4] = of[3] + Weight(S, 3)  /\ of[5] = of[4] + Weight(S, 4)
      /\ of[6] = of[5] + Weight(S, 5)  /\ of[7] = of[6] + Weight(S, 6)  /\ of[8] = of[7] + Weight(S, 7)
      /\ of[9] = of[8] + Weight(S, 8)  /\ of[10] = of[9] + Weight(S, 9)  /\ of[11] = of[10] + Weight(S, 10)
      /\ of[12] = of[11] + Weight(S, 11)  /\ of[13] = of[12] + Weight(S, 12)
  BY <1>9
<1> QED BY <1>0, <1>1, <1>10

\* A number shifted to the right by the position of weight m, and the bit there.
Shifted(n, m) == n \div m
BitAt(n, m)   == (n \div m) % 2

\* Shifting by one position more takes away the last bit.
LEMMA ShiftOnce ==
  ASSUME NEW n \in Int, NEW m \in Nat, m > 0
  PROVE  /\ Shifted(n, m) = 2 * Shifted(n, 2 * m) + BitAt(n, m)
         /\ BitAt(n, m) \in {0, 1} /\ Shifted(n, m) \in Int /\ Shifted(n, 2 * m) \in Int
<1> DEFINE d == 2 * m
           q == n \div m
           r == n % m
           p == q \div 2
           c == q % 2
           t == n \div d
           u == n % d
<1>1. n = m * q + r /\ r \in 0 .. m - 1 /\ q \in Int
  BY Division
<1>2. d \in Nat /\ d > 0
  OBVIOUS
<1>3. n = d * t + u /\ u \in 0 .. d - 1 /\ t \in Int
  <2> HIDE DEF d
  <2> QED BY <1>2, Division
<1>4. q = 2 * p + c /\ c \in {0, 1} /\ p \in Int
  <2> HIDE DEF q
  <2> QED BY <1>1
<1>5. Shifted(n, m) = q /\ Shifted(n, 2 * m) = t /\ BitAt(n, m) = c
  BY Zenon DEF Shifted, BitAt
<1>6. d * p = m * (2 * p)
  <2> HIDE DEF p
  <2> QED BY <1>4
<1> HIDE DEF q, r, p, c, t, u
<1>7. m * q = m * (2 * p) + m * c /\ m * c \in {0, m}
  BY <1>1, <1>4
<1> DEFINE v == m * c + r
<1>8. n = d * p + v /\ v \in 0 .. d - 1
  <2>1. d = 2 * m /\ v = m * c + r /\ d * p \in Int
    BY <1>2, <1>4
  <2> HIDE DEF d, v
  <2>2. m * q = d * p + m * c
    BY <1>6, <1>7
  <2> QED BY <1>1, <1>7, <2>1, <2>2
<1>9. p = t
  <2> HIDE DEF d, v
  <2> QED BY <1>2, <1>3, <1>4, <1>8, DivisionUnique
<1> QED BY <1>1, <1>3, <1>4, <1>5, <1>9

\* There is only one remainder.
LEMMA RemainderIs ==
  ASSUME NEW m \in Nat, m > 0, NEW n \in Int, NEW q \in Int, NEW r \in 0 .. m - 1, n = m * q + r
  PROVE  r = n % m
<1> DEFINE p == n \div m
           s == n % m
<1>1. n = m * p + s /\ s \in 0 .. m - 1 /\ p \in Int
  BY Division
<1> HIDE DEF p, s
<1>2. m * q + r = m * p + s
  BY <1>1
<1>3. r = s
  BY <1>1, <1>2, DivisionUnique
<1> QED BY <1>3 DEF s

\* What 13 bits, and what 8 bits, hold of a number.
Cut(n)   == n % 8192
Octet(n) == n % 256

\* A number is what its lower bits say, and the rest: 13 bits are the remainder by 8192, and
\* 8 bits are the remainder by 256.
LEMMA NumberOfBits ==
  ASSUME NEW n \in Int
  PROVE  /\ Number(Bits(n) \cap 0 .. 12) = Cut(n)
         /\ Number(Bits(n) \cap 0 .. 7) = Octet(n)
<1> DEFINE S == Bits(n) \cap 0 .. 12
           T == Bits(n) \cap 0 .. 7
           b(m) == BitAt(n, m)
           q(m) == Shifted(n, m)
<1>1. \A m \in Nat \ {0} : /\ q(m) = 2 * q(2 * m) + b(m)
                          /\ b(m) \in {0, 1} /\ q(m) \in Int /\ q(2 * m) \in Int
  BY ShiftOnce
<1> HIDE DEF b, q
<1>2. /\ q(1) = 2 * q(2) + b(1) /\ b(1) \in {0, 1} /\ q(1) \in Int
      /\ q(2) = 2 * q(4) + b(2) /\ b(2) \in {0, 1} /\ q(2) \in Int
      /\ q(4) = 2 * q(8) + b(4) /\ b(4) \in {0, 1} /\ q(4) \in Int
      /\ q(8) = 2 * q(16) + b(8) /\ b(8) \in {0, 1} /\ q(8) \in Int
      /\ q(16) = 2 * q(32) + b(16) /\ b(16) \in {0, 1} /\ q(16) \in Int
      /\ q(32) = 2 * q(64) + b(32) /\ b(32) \in {0, 1} /\ q(32) \in Int
      /\ q(64) = 2 * q(128) + b(64) /\ b(64) \in {0, 1} /\ q(64) \in Int
      /\ q(128) = 2 * q(256) + b(128) /\ b(128) \in {0, 1} /\ q(128) \in Int
      /\ q(256) = 2 * q(512) + b(256) /\ b(256) \in {0, 1} /\ q(256) \in Int
      /\ q(512) = 2 * q(1024) + b(512) /\ b(512) \in {0, 1} /\ q(512) \in Int
      /\ q(1024) = 2 * q(2048) + b(1024) /\ b(1024) \in {0, 1} /\ q(1024) \in Int
      /\ q(2048) = 2 * q(4096) + b(2048) /\ b(2048) \in {0, 1} /\ q(2048) \in Int
      /\ q(4096) = 2 * q(8192) + b(4096) /\ b(4096) \in {0, 1} /\ q(4096) \in Int
      /\ q(8192) \in Int
  BY <1>1
<1>3. q(1) = n
  BY DEF q, Shifted
<1>4. /\ (0 \in Bits(n) <=> b(1) = 1) /\ (1 \in Bits(n) <=> b(2) = 1) /\ (2 \in Bits(n) <=> b(4) = 1)
      /\ (3 \in Bits(n) <=> b(8) = 1) /\ (4 \in Bits(n) <=> b(16) = 1) /\ (5 \in Bits(n) <=> b(32) = 1)
      /\ (6 \in Bits(n) <=> b(64) = 1) /\ (7 \in Bits(n) <=> b(128) = 1) /\ (8 \in Bits(n) <=> b(256) = 1)
      /\ (9 \in Bits(n) <=> b(512) = 1) /\ (10 \in Bits(n) <=> b(1024) = 1) /\ (11 \in Bits(n) <=> b(2048) = 1)
      /\ (12 \in Bits(n) <=> b(4096) = 1)
  BY DEF b, Bits, BitAt
<1>5. \A k \in 0 .. 12 : /\ k \in S <=> k \in Bits(n)
                         /\ k \in T <=> k \in Bits(n) /\ k <= 7
  OBVIOUS
<1>6. /\ Weight(S, 0) = 1 * b(1) /\ Weight(S, 1) = 2 * b(2) /\ Weight(S, 2) = 4 * b(4)
      /\ Weight(S, 3) = 8 * b(8) /\ Weight(S, 4) = 16 * b(16) /\ Weight(S, 5) = 32 * b(32)
      /\ Weight(S, 6) = 64 * b(64) /\ Weight(S, 7) = 128 * b(128) /\ Weight(S, 8) = 256 * b(256)
      /\ Weight(S, 9) = 512 * b(512) /\ Weight(S, 10) = 1024 * b(1024) /\ Weight(S, 11) = 2048 * b(2048)
      /\ Weight(S, 12) = 4096 * b(4096)
  <2> HIDE DEF S, T
  <2> QED BY <1>2, <1>4, <1>5 DEF Weight
<1>7. /\ Weight(T, 0) = 1 * b(1) /\ Weight(T, 1) = 2 * b(2) /\ Weight(T, 2) = 4 * b(4)
      /\ Weight(T, 3) = 8 * b(8) /\ Weight(T, 4) = 16 * b(16) /\ Weight(T, 5) = 32 * b(32)
      /\ Weight(T, 6) = 64 * b(64) /\ Weight(T, 7) = 128 * b(128) /\ Weight(T, 8) = 0
      /\ Weight(T, 9) = 0 /\ Weight(T, 10) = 0 /\ Weight(T, 11) = 0
      /\ Weight(T, 12) = 0
  <2> HIDE DEF S, T
  <2> QED BY <1>2, <1>4, <1>5 DEF Weight
<1> HIDE DEF S, T
<1>8. Number(S) = Weight(S, 0) + Weight(S, 1) + Weight(S, 2) + Weight(S, 3) + Weight(S, 4)
                     + Weight(S, 5) + Weight(S, 6) + Weight(S, 7) + Weight(S, 8) + Weight(S, 9)
                     + Weight(S, 10) + Weight(S, 11) + Weight(S, 12)
  BY NumberIsSum
<1>9. Number(T) = Weight(T, 0) + Weight(T, 1) + Weight(T, 2) + Weight(T, 3) + Weight(T, 4)
                     + Weight(T, 5) + Weight(T, 6) + Weight(T, 7) + Weight(T, 8) + Weight(T, 9)
                     + Weight(T, 10) + Weight(T, 11) + Weight(T, 12)
  BY NumberIsSum
<1> DEFINE x == b(1) + 2 * b(2) + 4 * b(4) + 8 * b(8)
           y == b(16) + 2 * b(32) + 4 * b(64) + 8 * b(128)
           z == b(256) + 2 * b(512) + 4 * b(1024) + 8 * b(2048) + 16 * b(4096)
<1>10. /\ q(1) = 16 * q(16) + x /\ x \in 0 .. 15
       /\ q(16) = 16 * q(256) + y /\ y \in 0 .. 15
       /\ q(256) = 32 * q(8192) + z /\ z \in 0 .. 31
  <2>1. q(1) = 16 * q(16) + x /\ x \in 0 .. 15
    BY ONLY <1>2
  <2>2. q(16) = 16 * q(256) + y /\ y \in 0 .. 15
    BY ONLY <1>2
  <2>3. q(256) = 32 * q(8192) + z /\ z \in 0 .. 31
    BY ONLY <1>2
  <2> QED BY <2>1, <2>2, <2>3
<1>11. Number(S) = x + 16 * y + 256 * z /\ Number(T) = x + 16 * y
  <2>1. Number(S) = x + 16 * y + 256 * z
    <3>1. Weight(S, 0) + Weight(S, 1) + Weight(S, 2) + Weight(S, 3) = x
      BY ONLY <1>2, <1>6
    <3>2. Weight(S, 4) + Weight(S, 5) + Weight(S, 6) + Weight(S, 7) = 16 * y
      BY ONLY <1>2, <1>6
    <3>3. Weight(S, 8) + Weight(S, 9) + Weight(S, 10) + Weight(S, 11) + Weight(S, 12) = 256 * z
      BY ONLY <1>2, <1>6
    <3>4. \A k \in 0 .. 12 : Weight(S, k) \in Int
      BY DEF Weight
    <3> HIDE DEF x, y, z
    <3> QED BY ONLY <1>8, <3>1, <3>2, <3>3, <3>4
  <2>2. Number(T) = x + 16 * y
    BY ONLY <1>2, <1>7, <1>9
  <2> QED BY <2>1, <2>2
<1> HIDE DEF x, y, z
<1>16. /\ n = 8192 * q(8192) + Number(S) /\ Number(S) \in 0 .. 8192 - 1
       /\ n = 256 * q(256) + Number(T) /\ Number(T) \in 0 .. 256 - 1
       /\ q(256) \in Int /\ q(8192) \in Int
  BY <1>2, <1>3, <1>10, <1>11
<1> DEFINE f == 8192
           e == 256
<1>17. /\ f \in Nat /\ f > 0 /\ e \in Nat /\ e > 0
       /\ n = f * q(f) + Number(S) /\ Number(S) \in 0 .. f - 1 /\ q(f) \in Int
       /\ n = e * q(e) + Number(T) /\ Number(T) \in 0 .. e - 1 /\ q(e) \in Int
  BY <1>16
<1> HIDE DEF e, f
<1>18. Number(S) = n % f
  <2> DEFINE v == Number(S)
             u == q(f)
  <2>1. n = f * u + v /\ v \in 0 .. f - 1 /\ u \in Int
    BY <1>17
  <2> HIDE DEF u, v
  <2>2. v = n % f
    BY <1>17, <2>1, RemainderIs
  <2> QED BY <2>2 DEF v
<1>19. Number(T) = n % e
  <2> DEFINE v == Number(T)
             u == q(e)
  <2>1. n = e * u + v /\ v \in 0 .. e - 1 /\ u \in Int
    BY <1>17
  <2> HIDE DEF u, v
  <2>2. v = n % e
    BY <1>17, <2>1, RemainderIs
  <2> QED BY <2>2 DEF v
<1>20. Cut(n) = n % f /\ Octet(n) = n % e
  BY DEF Cut, Octet, e, f
<1> QED BY <1>18, <1>19, <1>20 DEF S, T

\* Where 0x280 has the multiplexer, the six bytes and the six flags.
LEMMA Layout280 ==
  /\ \A s \in {7, 23, 31, 39, 47, 55, 63} : Lsb(s, 8) = 63 - s
  /\ \A s \in 8 .. 13 : Lsb(s, 1) = 40 + s
<1>1. ASSUME NEW s \in {7, 23, 31, 39, 47, 55, 63} PROVE Lsb(s, 8) = 63 - s
  BY <1>1 DEF Lsb, BigEndian
<1>2. ASSUME NEW s \in 8 .. 13 PROVE Lsb(s, 1) = 40 + s
  BY DEF Lsb, BigEndian
<1> QED BY <1>1, <1>2

\* The signals of 0x280 do not overlap either.
LEMMA Apart280 ==
  ASSUME NEW m, NEW v, NEW t \in {7, 23, 31, 39, 47, 55, 63}
  PROVE  /\ \A s \in {23, 31, 39, 47, 55, 63} : t < s =>
              DecodeSignal(EncodeSignal(m, s, 8, v), t, 8) = DecodeSignal(m, t, 8)
         /\ \A s \in 8 .. 13 :
              DecodeSignal(EncodeSignal(m, s, 1, v), 7, 8) = DecodeSignal(m, 7, 8)
<1>1. ASSUME NEW s \in {23, 31, 39, 47, 55, 63}, t < s
      PROVE  DecodeSignal(EncodeSignal(m, s, 8, v), t, 8) = DecodeSignal(m, t, 8)
  <2>1. Lsb(s, 8) = 63 - s /\ Lsb(t, 8) = 63 - t
    BY Layout280
  <2>2. s - t >= 8 /\ s \in Nat /\ t \in Nat
    BY <1>1
  <2>3. Lsb(s, 8) + 8 <= Lsb(t, 8)
    BY <2>1, <2>2
  <2> QED BY ONLY <2>2, <2>3, NoSpill
<1>2. ASSUME NEW s \in 8 .. 13
      PROVE  DecodeSignal(EncodeSignal(m, s, 1, v), 7, 8) = DecodeSignal(m, 7, 8)
  <2>1. Lsb(s, 1) = 40 + s /\ Lsb(7, 8) = 56 /\ s \in Nat
    BY Layout280
  <2>2. Lsb(s, 1) + 1 <= Lsb(7, 8)
    BY <2>1
  <2> QED BY ONLY <2>1, <2>2, NoSpill
<1> QED BY <1>1, <1>2

\* A byte of the frame is the signal of eight bits there.
LEMMA ByteIsSignal ==
  ASSUME NEW m
  PROVE  /\ Byte(m, 0) = DecodeSignal(m, 7, 8)
         /\ Byte(m, 2) = DecodeSignal(m, 23, 8) /\ Byte(m, 3) = DecodeSignal(m, 31, 8)
         /\ Byte(m, 4) = DecodeSignal(m, 39, 8) /\ Byte(m, 5) = DecodeSignal(m, 47, 8)
         /\ Byte(m, 6) = DecodeSignal(m, 55, 8) /\ Byte(m, 7) = DecodeSignal(m, 63, 8)
<1>1. /\ Lsb(7, 8) = 56 /\ Lsb(23, 8) = 40 /\ Lsb(31, 8) = 32 /\ Lsb(39, 8) = 24
      /\ Lsb(47, 8) = 16 /\ Lsb(55, 8) = 8 /\ Lsb(63, 8) = 0
  BY Layout280
<1> QED BY <1>1 DEF Byte, DecodeSignal

\* What a receiver decodes from the plant's 0x280 is the multiplexer and the six bytes that
\* were put in, each cut off to its 8 bits, whatever the others and the flags are.
THEOREM TemperaturesKeepApart ==
  ASSUME NEW mux, NEW t, NEW n
  PROVE  LET m == TemperatureFrame(mux, t, n)
         IN  /\ Byte(m, 0) = mux \cap 0 .. 7
             /\ Byte(m, 2) = t[0] \cap 0 .. 7 /\ Byte(m, 3) = t[1] \cap 0 .. 7
             /\ Byte(m, 4) = t[2] \cap 0 .. 7 /\ Byte(m, 5) = t[3] \cap 0 .. 7
             /\ Byte(m, 6) = t[4] \cap 0 .. 7 /\ Byte(m, 7) = t[5] \cap 0 .. 7
<1> DEFINE flag(i) == IF i < n THEN Set ELSE {}
           m0 == EncodeSignal({}, 7, 8, mux)
           m1 == EncodeSignal(m0, 8, 1, flag(0))
           m2 == EncodeSignal(m1, 9, 1, flag(1))
           m3 == EncodeSignal(m2, 10, 1, flag(2))
           m4 == EncodeSignal(m3, 11, 1, flag(3))
           m5 == EncodeSignal(m4, 12, 1, flag(4))
           m6 == EncodeSignal(m5, 13, 1, flag(5))
           m7 == EncodeSignal(m6, 23, 8, t[0])
           m8 == EncodeSignal(m7, 31, 8, t[1])
           m9 == EncodeSignal(m8, 39, 8, t[2])
           m10 == EncodeSignal(m9, 47, 8, t[3])
           m11 == EncodeSignal(m10, 55, 8, t[4])
           m12 == EncodeSignal(m11, 63, 8, t[5])
<1>1. TemperatureFrame(mux, t, n) = m12
  BY DEF TemperatureFrame
<1>2. DecodeSignal(m0, 7, 8) = mux \cap 0 .. 7
  BY RoundTrip
<1>3. DecodeSignal(m7, 23, 8) = t[0] \cap 0 .. 7
  BY RoundTrip
<1>4. DecodeSignal(m8, 31, 8) = t[1] \cap 0 .. 7
  BY RoundTrip
<1>5. DecodeSignal(m9, 39, 8) = t[2] \cap 0 .. 7
  BY RoundTrip
<1>6. DecodeSignal(m10, 47, 8) = t[3] \cap 0 .. 7
  BY RoundTrip
<1>7. DecodeSignal(m11, 55, 8) = t[4] \cap 0 .. 7
  BY RoundTrip
<1>8. DecodeSignal(m12, 63, 8) = t[5] \cap 0 .. 7
  BY RoundTrip
<1>9. DecodeSignal(m1, 7, 8) = DecodeSignal(m0, 7, 8)
  <2> HIDE DEF m0, flag
  <2> QED BY Apart280
<1>10. DecodeSignal(m2, 7, 8) = DecodeSignal(m1, 7, 8)
  <2> HIDE DEF m1, flag
  <2> QED BY Apart280
<1>11. DecodeSignal(m3, 7, 8) = DecodeSignal(m2, 7, 8)
  <2> HIDE DEF m2, flag
  <2> QED BY Apart280
<1>12. DecodeSignal(m4, 7, 8) = DecodeSignal(m3, 7, 8)
  <2> HIDE DEF m3, flag
  <2> QED BY Apart280
<1>13. DecodeSignal(m5, 7, 8) = DecodeSignal(m4, 7, 8)
  <2> HIDE DEF m4, flag
  <2> QED BY Apart280
<1>14. DecodeSignal(m6, 7, 8) = DecodeSignal(m5, 7, 8)
  <2> HIDE DEF m5, flag
  <2> QED BY Apart280
<1>15. /\ DecodeSignal(m7, 7, 8) = DecodeSignal(m6, 7, 8)
  <2> HIDE DEF m6
  <2> QED BY Apart280
<1>16. /\ DecodeSignal(m8, 7, 8) = DecodeSignal(m7, 7, 8)
       /\ DecodeSignal(m8, 23, 8) = DecodeSignal(m7, 23, 8)
  <2> HIDE DEF m7
  <2> QED BY Apart280
<1>17. /\ DecodeSignal(m9, 7, 8) = DecodeSignal(m8, 7, 8)
       /\ DecodeSignal(m9, 23, 8) = DecodeSignal(m8, 23, 8)
       /\ DecodeSignal(m9, 31, 8) = DecodeSignal(m8, 31, 8)
  <2> HIDE DEF m8
  <2> QED BY Apart280
<1>18. /\ DecodeSignal(m10, 7, 8) = DecodeSignal(m9, 7, 8)
       /\ DecodeSignal(m10, 23, 8) = DecodeSignal(m9, 23, 8)
       /\ DecodeSignal(m10, 31, 8) = DecodeSignal(m9, 31, 8)
       /\ DecodeSignal(m10, 39, 8) = DecodeSignal(m9, 39, 8)
  <2> HIDE DEF m9
  <2> QED BY Apart280
<1>19. /\ DecodeSignal(m11, 7, 8) = DecodeSignal(m10, 7, 8)
       /\ DecodeSignal(m11, 23, 8) = DecodeSignal(m10, 23, 8)
       /\ DecodeSignal(m11, 31, 8) = DecodeSignal(m10, 31, 8)
       /\ DecodeSignal(m11, 39, 8) = DecodeSignal(m10, 39, 8)
       /\ DecodeSignal(m11, 47, 8) = DecodeSignal(m10, 47, 8)
  <2> HIDE DEF m10
  <2> QED BY Apart280
<1>20. /\ DecodeSignal(m12, 7, 8) = DecodeSignal(m11, 7, 8)
       /\ DecodeSignal(m12, 23, 8) = DecodeSignal(m11, 23, 8)
       /\ DecodeSignal(m12, 31, 8) = DecodeSignal(m11, 31, 8)
       /\ DecodeSignal(m12, 39, 8) = DecodeSignal(m11, 39, 8)
       /\ DecodeSignal(m12, 47, 8) = DecodeSignal(m11, 47, 8)
       /\ DecodeSignal(m12, 55, 8) = DecodeSignal(m11, 55, 8)
  <2> HIDE DEF m11
  <2> QED BY Apart280
<1> HIDE DEF m0, m1, m2, m3, m4, m5, m6, m7, m8, m9, m10, m11, m12
<1>21. DecodeSignal(m12, 7, 8) = mux \cap 0 .. 7
  BY <1>2, <1>9, <1>10, <1>11, <1>12, <1>13, <1>14, <1>15, <1>16, <1>17, <1>18, <1>19, <1>20
<1>22. /\ DecodeSignal(m12, 23, 8) = t[0] \cap 0 .. 7 /\ DecodeSignal(m12, 31, 8) = t[1] \cap 0 .. 7
       /\ DecodeSignal(m12, 39, 8) = t[2] \cap 0 .. 7 /\ DecodeSignal(m12, 47, 8) = t[3] \cap 0 .. 7
       /\ DecodeSignal(m12, 55, 8) = t[4] \cap 0 .. 7 /\ DecodeSignal(m12, 63, 8) = t[5] \cap 0 .. 7
  BY <1>3, <1>4, <1>5, <1>6, <1>7, <1>8, <1>15, <1>16, <1>17, <1>18, <1>19, <1>20
<1> QED BY <1>1, <1>21, <1>22, ByteIsSignal

\* What the multiplexer and the values of a frame come back as.
LEMMA SmallMux ==
  ASSUME NEW g \in 0 .. 4
  PROVE  Number(Bits(g) \cap 0 .. 7) = g
<1>1. Number(Bits(g) \cap 0 .. 7) = Octet(g)
  <2>1. g \in Int
    OBVIOUS
  <2> QED BY <2>1, NumberOfBits
<1>2. Octet(g) = g
  BY DEF Octet
<1> QED BY <1>1, <1>2

\* What the sidecar decodes of an 0x270: the group, and of every cell in it 13 bits.
LEMMA DecodedVoltages ==
  ASSUME NEW p \in Looks, NEW g \in 0 .. 4
  PROVE  /\ DecodeVoltages(VoltageGroup(p, g)).mux = g
         /\ \A i \in Cells : i \div 4 = g =>
              DecodeVoltages(VoltageGroup(p, g)).value[i % 4] = Cut(p.volts[i])
<1> DEFINE at(j) == IF 4 * g + j \in Cells THEN Bits(p.volts[4 * g + j]) ELSE {}
           m == VoltageGroup(p, g)
<1>1. m = VoltageFrame(Bits(g), at(0), at(1), at(2), at(3))
  BY DEF VoltageGroup
<1>2. /\ MuxOf(m) = Bits(g) \cap 0 .. 7
      /\ VoltageOf(m, 0) = at(0) \cap 0 .. 12 /\ VoltageOf(m, 1) = at(1) \cap 0 .. 12
      /\ VoltageOf(m, 2) = at(2) \cap 0 .. 12 /\ VoltageOf(m, 3) = at(3) \cap 0 .. 12
  <2> HIDE DEF at, m
  <2> QED BY <1>1, VoltagesKeepApart
<1>3. /\ DecodeVoltages(m).mux = Number(MuxOf(m))
      /\ \A j \in 0 .. 3 : DecodeVoltages(m).value[j] = Number(VoltageOf(m, j))
  <2> HIDE DEF m
  <2> QED BY DEF DecodeVoltages
<1>4. DecodeVoltages(m).mux = g
  <2> HIDE DEF m
  <2> QED BY <1>2, <1>3, SmallMux
<1>5. ASSUME NEW i \in Cells, i \div 4 = g
      PROVE  DecodeVoltages(m).value[i % 4] = Cut(p.volts[i])
  <2>1. i % 4 \in 0 .. 3 /\ 4 * g + (i % 4) = i
    BY <1>5 DEF Cells
  <2>2. at(i % 4) = Bits(p.volts[i]) /\ p.volts[i] \in Int
    BY <2>1 DEF Looks
  <2> DEFINE j == i % 4
  <2>3. j \in {0, 1, 2, 3}
    BY <2>1
  <2> HIDE DEF m, at, j
  <2>4. VoltageOf(m, j) = at(j) \cap 0 .. 12
    BY <1>2, <2>3
  <2>5. DecodeVoltages(m).value[j] = Number(at(j) \cap 0 .. 12)
    BY <1>3, <2>3, <2>4
  <2>6. Number(Bits(p.volts[i]) \cap 0 .. 12) = Cut(p.volts[i])
    <3>1. p.volts[i] \in Int
      BY <2>2
    <3> QED BY ONLY <3>1, NumberOfBits
  <2> QED BY <2>2, <2>5, <2>6 DEF j
<1> QED BY <1>4, <1>5

\* Whole degrees fit the byte, clamped as they are.
LEMMA DegreesByte ==
  ASSUME NEW t \in Int
  PROVE  Degrees(t) \in 0 .. 255
BY DEF Degrees, Clamp

\* What the sidecar decodes of an 0x280 of the plant: the group, and of every sensor in it the
\* degrees.
LEMMA DecodedTemperatures ==
  ASSUME NEW p \in Looks, NEW g \in 0 .. 1
  PROVE  /\ DecodeTemperatures(TemperatureGroup(p, g)).mux = g
         /\ \A k \in Sensors : k \div 6 = g =>
              DecodeTemperatures(TemperatureGroup(p, g)).value[2 + (k % 6)] = Degrees(p.temps[k])
<1> DEFINE n == IF g = 0 THEN 6 ELSE 2
           t == [i \in 0 .. 5 |-> IF i < n THEN Bits(Degrees(p.temps[6 * g + i])) ELSE {}]
           m == TemperatureGroup(p, g)
<1>1. m = TemperatureFrame(Bits(g), t, n)
  BY Zenon DEF TemperatureGroup
<1>2. /\ Byte(m, 0) = Bits(g) \cap 0 .. 7
      /\ Byte(m, 2) = t[0] \cap 0 .. 7 /\ Byte(m, 3) = t[1] \cap 0 .. 7
      /\ Byte(m, 4) = t[2] \cap 0 .. 7 /\ Byte(m, 5) = t[3] \cap 0 .. 7
      /\ Byte(m, 6) = t[4] \cap 0 .. 7 /\ Byte(m, 7) = t[5] \cap 0 .. 7
  <2> HIDE DEF t, m, n
  <2> QED BY <1>1, TemperaturesKeepApart
<1>3. /\ DecodeTemperatures(m).mux = Number(Byte(m, 0))
      /\ \A b \in 2 .. 7 : DecodeTemperatures(m).value[b] = Number(Byte(m, b))
  <2> HIDE DEF m
  <2> QED BY DEF DecodeTemperatures
<1>4. DecodeTemperatures(m).mux = g
  <2>1. g \in 0 .. 4
    OBVIOUS
  <2>2. Number(Bits(g) \cap 0 .. 7) = g
    BY <2>1, SmallMux
  <2> HIDE DEF m
  <2> QED BY <1>2, <1>3, <2>2
<1>5. ASSUME NEW k \in Sensors, k \div 6 = g
      PROVE  DecodeTemperatures(m).value[2 + (k % 6)] = Degrees(p.temps[k])
  <2>1. k % 6 \in 0 .. 5 /\ 6 * g + (k % 6) = k /\ k % 6 < n
    BY <1>5 DEF Sensors
  <2>2. t[k % 6] = Bits(Degrees(p.temps[k])) /\ Degrees(p.temps[k]) \in 0 .. 255
    <3>1. p.temps[k] \in Int
      BY DEF Looks
    <3> QED BY <2>1, <3>1, DegreesByte
  <2> DEFINE j == k % 6
             d == Degrees(p.temps[k])
  <2>3. j \in {0, 1, 2, 3, 4, 5}
    BY <2>1
  <2> HIDE DEF m, t, j, d
  <2>4. Byte(m, 2 + j) = t[j] \cap 0 .. 7 /\ 2 + j \in 2 .. 7
    BY <1>2, <2>3
  <2>5. DecodeTemperatures(m).value[2 + j] = Number(t[j] \cap 0 .. 7)
    BY <1>3, <2>4
  <2>6. d \in 0 .. 255 /\ d \in Int
    BY <2>2 DEF d
  <2>8. Number(Bits(d) \cap 0 .. 7) = Octet(d)
    BY <2>6, NumberOfBits
  <2>7. Octet(d) = d
    BY <2>6 DEF Octet
  <2> QED BY <2>2, <2>5, <2>7, <2>8 DEF j, d
<1> QED BY <1>4, <1>5

-----------------------------------------------------------------------------
(* Frames on their way                                                       *)

\* The j-th frame of round r, in which the cells look like p, from plant s.
FrameAt(s, p, r, j) ==
  IF j <= 5
  THEN [id |-> "0x270", bits |-> VoltageGroup(p, j - 1), round |-> r]
  ELSE [id |-> "0x280",
        bits |-> IF s = "plant" THEN TemperatureGroup(p, j - 6) ELSE ReplayTemperatureGroup(p, j - 6),
        round |-> r]

\* how many there are
PerRound == IF source = "plant" THEN 7 ELSE 10

\* What may be in the socket buffer: frames of the rounds so far, and summaries.
PlantFrames == {FrameAt(source, rounds[r], r, j) : r \in 1 .. Len(rounds), j \in 1 .. PerRound}
Summaries   == {[id |-> "0x7F4", min |-> a, max |-> b] : a \in Plausible, b \in Plausible}
                 \cup {[id |-> "0x7F6", min |-> a, max |-> b] : a \in Int16Values, b \in Int16Values}

\* What is still to be sent is the end of the last round; what is in the buffer was sent.
InFlight ==
  /\ source \in {"plant", "replay", "replay-loop"}
  /\ unsent \in Seq(PlantFrames)
  /\ Len(unsent) <= PerRound
  /\ \A k \in 1 .. Len(unsent) :
       unsent[k] = FrameAt(source, rounds[Len(rounds)], Len(rounds), PerRound - Len(unsent) + k)
  /\ buffer \in Seq(PlantFrames \cup Summaries)
  /\ lost \in Nat

\* What the sidecar holds of a cell or sensor is what the frames of some round said of it.
Held ==
  /\ voltsOf \in [Cells -> Int]
  /\ \A i \in Cells :
       /\ voltsOf[i] <= Len(rounds)
       /\ voltsOf[i] > 0 => volts[i] = 18 * Cut(rounds[voltsOf[i]].volts[i])
  /\ source = "plant" =>
       /\ tempsOf \in [Sensors -> Int]
       /\ \A k \in Sensors :
            /\ tempsOf[k] <= Len(rounds)
            /\ tempsOf[k] > 0 => temps[k] = 70 * Degrees(rounds[tempsOf[k]].temps[k])

(* The order of the rounds                                                   *)

\* The 0x270 frames are numbered from 1, five to a round.
IsVoltage(f) == f.id = "0x270"
Ord(f)       == 5 * (f.round - 1) + DecodeVoltages(f.bits).mux + 1

\* how many of them have left the plant
Sent ==
  IF rounds = <<>> THEN 0
  ELSE 5 * (Len(rounds) - 1) + (IF PerRound - Len(unsent) < 5 THEN PerRound - Len(unsent) ELSE 5)

\* Of c frames received in order, the last one about cell i was of this round.
LastRound(c, i) == (c + 4 - (i \div 4)) \div 5

\* The sidecar has received the first c of them, and the buffer holds the others that were sent.
InOrder(c) ==
  /\ \A k \in 1 .. Len(buffer) : IsVoltage(buffer[k]) => Ord(buffer[k]) \in c + 1 .. Sent
  /\ \A j, k \in 1 .. Len(buffer) :
       IsVoltage(buffer[j]) /\ IsVoltage(buffer[k]) /\ j < k => Ord(buffer[j]) < Ord(buffer[k])
  /\ \A n \in c + 1 .. Sent : \E k \in 1 .. Len(buffer) : IsVoltage(buffer[k]) /\ Ord(buffer[k]) = n
  /\ \A i \in Cells : voltsOf[i] \in {Summarised, LastRound(c, i)}

\* A voltage of 0 is skipped, so that its cell stays behind.
ZeroSent == \E n \in DOMAIN rounds, i \in Cells : Cut(rounds[n].volts[i]) = 0

Orderly == lost > 0 \/ ZeroSent \/ \E c \in 0 .. Sent : InOrder(c)

-----------------------------------------------------------------------------
(* Steps                                                                     *)

\* What a step may do to the rounds, to the frames on their way and to the sidecar.
LEMMA FrameSteps ==
  ASSUME Rounds, [Next]_vars
  PROVE  \/ /\ \E p \in Looks : \E row : StartRound(p, row)
            /\ unsent = <<>>
            /\ UNCHANGED <<source, buffer, lost, volts, temps, voltsOf, tempsOf>>
         \/ SendFrame
         \/ SendSummary
         \/ SendRange
         \/ Receive
         \/ UNCHANGED <<source, rounds, unsent, buffer, lost, volts, temps, voltsOf, tempsOf>>
<1>1. ASSUME NEW p \in Profiles, PlantRound(p)
      PROVE  /\ \E q \in Looks : \E row : StartRound(q, row)
             /\ unsent = <<>>
             /\ UNCHANGED <<source, buffer, lost, volts, temps, voltsOf, tempsOf>>
  BY <1>1, TelemetryAssumption DEF PlantRound, sidecarVars
<1>2. ASSUME ReplayRound
      PROVE  /\ \E q \in Looks : \E row : StartRound(q, row)
             /\ unsent = <<>>
             /\ UNCHANGED <<source, buffer, lost, volts, temps, voltsOf, tempsOf>>
  <2> DEFINE row == IF PastEnd THEN 1 ELSE nextRow
  <2>1. row \in 1 .. Len(Trip)
    BY TripNumbers DEF PastEnd, Rounds
  <2>2. StartRound(Trip[row], row)
    BY <1>2 DEF ReplayRound
  <2> HIDE DEF row
  <2>3. Trip[row] \in Looks
    BY <2>1, TelemetryAssumption
  <2> QED BY <1>2, <2>2, <2>3 DEF ReplayRound, sidecarVars
<1>3. CASE ReplayEnds
  BY <1>3 DEF ReplayEnds, sidecarVars
<1>4. CASE Measure
  BY <1>4 DEF Measure, plantVars, sidecarVars
<1>5. CASE ReadDatabase
  BY <1>5 DEF ReadDatabase, plantVars, sidecarVars
<1>6. CASE Command
  BY <1>6 DEF Command, plantVars, sidecarVars
<1>7. CASE UNCHANGED vars
  BY <1>7 DEF vars, plantVars, sidecarVars
<1> QED BY <1>1, <1>2, <1>3, <1>4, <1>5, <1>6, <1>7 DEF Next

\* A round more leaves the earlier ones, and their frames, what they are.
LEMMA RoundAdded ==
  ASSUME Rounds, NEW p \in Looks, rounds' = Append(rounds, p), source' = source
  PROVE  /\ Len(rounds) \in Nat /\ Len(rounds') = Len(rounds) + 1
         /\ rounds'[Len(rounds) + 1] = p
         /\ \A r \in 1 .. Len(rounds) : rounds'[r] = rounds[r]
         /\ PerRound' = PerRound
         /\ PlantFrames \subseteq PlantFrames'
<1>1. /\ Len(rounds) \in Nat /\ Len(rounds') = Len(rounds) + 1
      /\ rounds'[Len(rounds) + 1] = p
      /\ \A r \in 1 .. Len(rounds) : rounds'[r] = rounds[r]
  BY AppendProperties, LenProperties DEF Rounds
<1>2. PerRound' = PerRound
  BY DEF PerRound
<1>3. PlantFrames' = {FrameAt(source', rounds'[r], r, j) : r \in 1 .. Len(rounds'), j \in 1 .. PerRound'}
  BY DEF PlantFrames
<1>4. ASSUME NEW r \in 1 .. Len(rounds), NEW j \in 1 .. PerRound
      PROVE  FrameAt(source, rounds[r], r, j) \in PlantFrames'
  <2>1. r \in 1 .. Len(rounds') /\ rounds'[r] = rounds[r]
    BY <1>1
  <2> QED BY <1>2, <1>3, <2>1
<1> QED BY <1>1, <1>2, <1>4 DEF PlantFrames

\* A function on the first n numbers is a sequence of length n.
LEMMA FunctionIsSeq ==
  ASSUME NEW S, NEW n \in Nat, NEW f \in [1 .. n -> S]
  PROVE  f \in Seq(S) /\ Len(f) = n
<1>1. f \in Seq(S)
  BY SeqDef
<1>2. DOMAIN f = 1 .. n /\ DOMAIN f = 1 .. Len(f) /\ Len(f) \in Nat
  BY <1>1, LenProperties
<1> QED BY <1>1, <1>2

\* The frames of the new round are what the round's frames are to be.
LEMMA RoundFrames ==
  ASSUME Rounds, NEW p \in Looks, NEW row, StartRound(p, row), source' = source
  PROVE  /\ unsent' \in Seq(PlantFrames') /\ Len(unsent') = PerRound'
         /\ \A k \in 1 .. PerRound' : unsent'[k] = FrameAt(source, p, Len(rounds) + 1, k)
<1> DEFINE n == Len(rounds) + 1
           G == Frames270(p, n)
           H == Frames280(p, n)
           S == PlantFrames'
           e == PerRound - 5
<1>1. rounds' = Append(rounds, p) /\ unsent' = G \o H
  BY DEF StartRound
<1>2. /\ Len(rounds) \in Nat /\ Len(rounds') = n /\ rounds'[n] = p /\ PerRound' = PerRound
  BY <1>1, RoundAdded
<1>3. e \in {2, 5} /\ PerRound = 5 + e
  BY DEF PerRound
<1>4. ASSUME NEW k \in 1 .. PerRound' PROVE FrameAt(source, p, n, k) \in S
  <2>1. n \in 1 .. Len(rounds')
    BY <1>2
  <2>2. PlantFrames' = {FrameAt(source', rounds'[r], r, j) : r \in 1 .. Len(rounds'), j \in 1 .. PerRound'}
    BY DEF PlantFrames
  <2> QED BY <1>2, <2>1, <2>2
<1>5. DOMAIN G = 1 .. 5 /\ \A k \in 1 .. 5 : G[k] = FrameAt(source, p, n, k)
  <2>1. G = [g \in 1 .. 5 |-> [id |-> "0x270", bits |-> VoltageGroup(p, g - 1), round |-> n]]
    BY DEF Frames270
  <2>2. \A k \in 1 .. 5 :
          FrameAt(source, p, n, k) = [id |-> "0x270", bits |-> VoltageGroup(p, k - 1), round |-> n]
    BY <1>2 DEF FrameAt
  <2> QED BY <2>1, <2>2
<1>6. DOMAIN H = 1 .. e /\ \A k \in 1 .. e : H[k] = FrameAt(source, p, n, 5 + k)
  <2>1. CASE source = "plant"
    <3>1. H = [g \in 1 .. 2 |-> [id |-> "0x280", bits |-> TemperatureGroup(p, g - 1), round |-> n]]
      BY <2>1 DEF Frames280
    <3>2. \A k \in 1 .. 2 :
            FrameAt(source, p, n, 5 + k) = [id |-> "0x280", bits |-> TemperatureGroup(p, k - 1), round |-> n]
      <4>1. ASSUME NEW k \in 1 .. 2 PROVE (5 + k) - 6 = k - 1 /\ ~(5 + k <= 5)
        OBVIOUS
      <4> QED BY <1>2, <2>1, <4>1 DEF FrameAt
    <3>3. e = 2
      BY <2>1 DEF PerRound
    <3> QED BY <3>1, <3>2, <3>3
  <2>2. CASE source # "plant"
    <3>1. H = [g \in 1 .. 5 |->
                [id |-> "0x280", bits |-> ReplayTemperatureGroup(p, g - 1), round |-> n]]
      BY <2>2 DEF Frames280
    <3>2. \A k \in 1 .. 5 :
            FrameAt(source, p, n, 5 + k) =
              [id |-> "0x280", bits |-> ReplayTemperatureGroup(p, k - 1), round |-> n]
      <4>1. ASSUME NEW k \in 1 .. 5 PROVE (5 + k) - 6 = k - 1 /\ ~(5 + k <= 5)
        OBVIOUS
      <4> QED BY <1>2, <2>2, <4>1 DEF FrameAt
    <3>3. e = 5
      BY <2>2 DEF PerRound
    <3> QED BY <3>1, <3>2, <3>3
  <2> QED BY <2>1, <2>2
<1>7. G \in [1 .. 5 -> S] /\ H \in [1 .. e -> S]
  <2>1. G = [k \in 1 .. 5 |-> G[k]] /\ H = [k \in 1 .. e |-> H[k]]
    BY <1>5, <1>6 DEF Frames270, Frames280
  <2> HIDE DEF G, H, S
  <2>2. \A k \in 1 .. 5 : G[k] \in S
    BY <1>2, <1>3, <1>4, <1>5
  <2>3. \A k \in 1 .. e : H[k] \in S
    BY <1>2, <1>3, <1>4, <1>6
  <2> QED BY <2>1, <2>2, <2>3
<1> HIDE DEF G, H, S, e, n
<1>8. /\ G \in Seq(S) /\ Len(G) = 5 /\ H \in Seq(S) /\ Len(H) = e
  BY <1>3, <1>7, FunctionIsSeq
<1>9. /\ G \o H \in Seq(S) /\ Len(G \o H) = 5 + e
      /\ \A k \in 1 .. 5 + e : (G \o H)[k] = IF k <= 5 THEN G[k] ELSE H[k - 5]
  <2>1. /\ G \o H \in Seq(S) /\ Len(G \o H) = Len(G) + Len(H)
        /\ \A k \in 1 .. Len(G) + Len(H) : (G \o H)[k] = IF k <= Len(G) THEN G[k] ELSE H[k - Len(G)]
    BY ONLY <1>8, ConcatProperties
  <2> QED BY <1>8, <2>1
<1>10. ASSUME NEW k \in 1 .. PerRound' PROVE (G \o H)[k] = FrameAt(source, p, n, k)
  <2>1. k \in 1 .. 5 + e
    BY <1>2, <1>3
  <2>2. CASE k <= 5
    BY <1>5, <1>9, <2>1, <2>2
  <2>3. CASE ~(k <= 5)
    <3>1. k - 5 \in 1 .. e /\ 5 + (k - 5) = k
      BY <1>3, <2>1, <2>3
    <3>2. H[k - 5] = FrameAt(source, p, n, 5 + (k - 5))
      BY <1>6, <3>1
    <3>3. H[k - 5] = FrameAt(source, p, n, k)
      BY <3>1, <3>2
    <3> QED BY <1>9, <2>1, <2>3, <3>3
  <2> QED BY <2>2, <2>3
<1> QED BY <1>1, <1>2, <1>3, <1>9, <1>10 DEF S

\* Whatever reaches the socket, the buffer holds what it held and at most that frame more.
LEMMA ArrivesAppends ==
  ASSUME NEW S, buffer \in Seq(S), NEW f \in S, lost \in Nat, Arrives(f)
  PROVE  /\ buffer' \in Seq(S) /\ lost' \in Nat
         /\ \/ buffer' = Append(buffer, f) /\ lost' = lost
            \/ buffer' = buffer /\ lost' > 0
<1>1. CASE buffer' = Append(buffer, f) /\ lost' = lost
  BY <1>1, AppendProperties
<1>2. CASE lost' = lost + 1 /\ buffer' = buffer
  BY <1>2
<1> QED BY <1>1, <1>2 DEF Arrives

\* The ends of the range that 0x7F6 carries are 16-bit numbers.
LEMMA RangeFrame ==
  ASSUME RangeTyped, NEW o \in TempOverrides
  PROVE  Least({tMin} \cup o) \in Int16Values /\ Greatest({tMax} \cup o) \in Int16Values
<1>1. {tMin} \cup o \in SUBSET Int16Values /\ {tMax} \cup o \in SUBSET Int16Values
  BY TelemetryAssumption DEF RangeTyped
<1>2. {tMin} \cup o # {} /\ {tMax} \cup o # {}
  OBVIOUS
<1>3. Least({tMin} \cup o) \in {tMin} \cup o
  BY <1>1, <1>2, LeastExists
<1>4. Greatest({tMax} \cup o) \in {tMax} \cup o
  BY <1>1, <1>2, GreatestExists
<1> QED BY <1>1, <1>3, <1>4

\* A frame with such ends is one of the vECU's, and none of the cells'.
LEMMA RangeIsFrame ==
  ASSUME NEW a \in Int16Values, NEW b \in Int16Values
  PROVE  /\ [id |-> "0x7F6", min |-> a, max |-> b] \in Summaries
         /\ ~IsVoltage([id |-> "0x7F6", min |-> a, max |-> b])
BY DEF Summaries, IsVoltage

\* The frames on their way stay frames of the rounds so far, those of the last round in their order.
LEMMA InFlightStep ==
  ASSUME Rounds, DbTypeOK, RangeTyped, InFlight, [Next]_vars
  PROVE  InFlight'
<1>1. ASSUME NEW p \in Looks, NEW row, StartRound(p, row), UNCHANGED <<source, buffer, lost>>
      PROVE  InFlight'
  <2>1. PlantFrames \subseteq PlantFrames' /\ PerRound' \in {7, 10}
    BY <1>1, RoundAdded DEF StartRound, PerRound
  <2>2. buffer' \in Seq(PlantFrames' \cup Summaries')
    <3>1. Summaries' = Summaries
      BY DEF Summaries
    <3>2. PlantFrames \cup Summaries \subseteq PlantFrames' \cup Summaries'
      BY <2>1, <3>1
    <3> DEFINE S == PlantFrames \cup Summaries
               T == PlantFrames' \cup Summaries'
    <3>3. buffer \in Seq(S) /\ buffer' = buffer
      BY <1>1 DEF InFlight
    <3> HIDE DEF S, T
    <3>4. S \subseteq T
      BY <3>2 DEF S, T
    <3>5. buffer' \in Seq(T)
      BY <3>3, <3>4, SeqMonotonic
    <3> QED BY <3>5 DEF T
  <2>3. /\ unsent' \in Seq(PlantFrames') /\ Len(unsent') = PerRound'
        /\ \A k \in 1 .. PerRound' : unsent'[k] = FrameAt(source, p, Len(rounds) + 1, k)
    BY <1>1, RoundFrames
  <2>4. /\ Len(rounds') = Len(rounds) + 1 /\ rounds'[Len(rounds) + 1] = p
    BY <1>1, RoundAdded DEF StartRound
  <2>5. ASSUME NEW k \in 1 .. Len(unsent')
        PROVE  unsent'[k] = FrameAt(source', rounds'[Len(rounds')], Len(rounds'),
                                    PerRound' - Len(unsent') + k)
    <3>1. PerRound' - Len(unsent') + k = k
      <4>1. Len(unsent') = PerRound' /\ PerRound' \in Int /\ k \in Int
        BY <2>1, <2>3
      <4>2. \A x, y \in Int : x - x + y = y
        OBVIOUS
      <4> QED BY <4>1, <4>2, Zenon
    <3> QED BY <1>1, <2>3, <2>4, <3>1
  <2>6. source' \in {"plant", "replay", "replay-loop"} /\ lost' \in Nat
    BY <1>1 DEF InFlight
  <2>7. unsent' \in Seq(PlantFrames') /\ Len(unsent') <= PerRound'
    BY <2>1, <2>3
  <2> QED BY ONLY <2>2, <2>5, <2>6, <2>7, Zenon DEF InFlight
<1>2. CASE SendFrame
  <2> DEFINE S == PlantFrames \cup Summaries
             N == Len(unsent)
  <2>1. /\ unsent # <<>> /\ unsent' = Tail(unsent) /\ Arrives(Head(unsent))
        /\ source' = source /\ rounds' = rounds
    BY <1>2 DEF SendFrame, plantVars
  <2>2. PlantFrames' = PlantFrames /\ Summaries' = Summaries /\ PerRound' = PerRound
    BY <2>1 DEF PlantFrames, Summaries, PerRound
  <2>3. /\ Head(unsent) \in PlantFrames /\ Tail(unsent) \in Seq(PlantFrames)
        /\ Len(Tail(unsent)) = N - 1 /\ \A k \in 1 .. N - 1 : Tail(unsent)[k] = unsent[k + 1]
        /\ N \in Nat /\ N <= PerRound
    BY <2>1, HeadTailProperties, LenProperties DEF InFlight
  <2>4. buffer' \in Seq(S) /\ lost' \in Nat
    <3>1. Head(unsent) \in S /\ buffer \in Seq(S) /\ lost \in Nat
      BY <2>3 DEF InFlight
    <3> HIDE DEF S
    <3> QED BY <2>1, <3>1, ArrivesAppends
  <2>5. PerRound \in Int
    BY DEF PerRound
  <2>6. ASSUME NEW k \in 1 .. N - 1
        PROVE  unsent'[k] = FrameAt(source, rounds[Len(rounds)], Len(rounds), PerRound - (N - 1) + k)
    <3>1. k + 1 \in 1 .. N /\ PerRound - N + (k + 1) = PerRound - (N - 1) + k
      BY <2>3, <2>5
    <3> HIDE DEF N
    <3>2. unsent[k + 1] = FrameAt(source, rounds[Len(rounds)], Len(rounds), PerRound - N + (k + 1))
      BY <3>1 DEF InFlight, N
    <3> QED BY <2>1, <2>3, <3>1, <3>2
  <2> HIDE DEF N
  <2>7. Len(unsent') = N - 1 /\ N - 1 <= PerRound
    BY <2>1, <2>3, <2>5
  <2> QED BY <2>1, <2>2, <2>3, <2>4, <2>6, <2>7 DEF InFlight
<1>3. CASE SendSummary
  <2> DEFINE S == PlantFrames \cup Summaries
             f == [id |-> "0x7F4", min |-> vMin, max |-> vMax]
  <2>1. Arrives(f) /\ UNCHANGED <<source, rounds, unsent>>
    BY <1>3 DEF SendSummary, plantVars
  <2>2. PlantFrames' = PlantFrames /\ Summaries' = Summaries /\ PerRound' = PerRound
    BY <2>1 DEF PlantFrames, Summaries, PerRound
  <2>3. f \in S /\ buffer \in Seq(S) /\ lost \in Nat
    BY DEF InFlight, DbTypeOK, Summaries
  <2> HIDE DEF S, f
  <2>4. buffer' \in Seq(S) /\ lost' \in Nat
    BY <2>1, <2>3, ArrivesAppends
  <2> QED BY <2>1, <2>2, <2>4 DEF InFlight, S
<1>6. ASSUME NEW o \in TempOverrides, UNCHANGED <<source, rounds, unsent>>,
             Arrives([id |-> "0x7F6", min |-> Least({tMin} \cup o), max |-> Greatest({tMax} \cup o)])
      PROVE  InFlight'
  <2> DEFINE S == PlantFrames \cup Summaries
             f == [id |-> "0x7F6", min |-> Least({tMin} \cup o), max |-> Greatest({tMax} \cup o)]
  <2>1. PlantFrames' = PlantFrames /\ Summaries' = Summaries /\ PerRound' = PerRound
    BY <1>6 DEF PlantFrames, Summaries, PerRound
  <2>2. f \in S
    BY RangeFrame, RangeIsFrame
  <2>3. buffer \in Seq(S) /\ lost \in Nat /\ Arrives(f)
    BY <1>6 DEF InFlight
  <2> HIDE DEF S, f
  <2>4. buffer' \in Seq(S) /\ lost' \in Nat
    BY <2>2, <2>3, ArrivesAppends
  <2> QED BY <1>6, <2>1, <2>4 DEF InFlight, S
<1>7. CASE SendRange
  BY <1>6, <1>7 DEF SendRange, plantVars
<1>4. CASE Receive
  <2>1. buffer # <<>> /\ buffer' = Tail(buffer) /\ UNCHANGED <<source, rounds, unsent, lost>>
    BY <1>4 DEF Receive, plantVars
  <2>2. PlantFrames' = PlantFrames /\ Summaries' = Summaries /\ PerRound' = PerRound
    BY <2>1 DEF PlantFrames, Summaries, PerRound
  <2>3. buffer' \in Seq(PlantFrames \cup Summaries)
    BY <2>1, HeadTailProperties DEF InFlight
  <2> QED BY <2>1, <2>2, <2>3 DEF InFlight
<1>5. CASE UNCHANGED <<source, rounds, unsent, buffer, lost>>
  BY <1>5 DEF InFlight, PlantFrames, Summaries, PerRound
<1> QED BY <1>1, <1>2, <1>3, <1>4, <1>5, <1>7, FrameSteps

\* The number of an 0x270 is that of its place in the plant's rounds.
LEMMA OrdOfFrame ==
  ASSUME Rounds, NEW r \in 1 .. Len(rounds), NEW j \in 1 .. 5, NEW s
  PROVE  /\ IsVoltage(FrameAt(s, rounds[r], r, j))
         /\ Ord(FrameAt(s, rounds[r], r, j)) = 5 * (r - 1) + j
<1> DEFINE f == FrameAt(s, rounds[r], r, j)
           g == j - 1
<1>1. f = [id |-> "0x270", bits |-> VoltageGroup(rounds[r], g), round |-> r]
  BY DEF FrameAt
<1>2. rounds[r] \in Looks /\ g \in 0 .. 4 /\ r \in Int
  BY DEF Rounds
<1> HIDE DEF f, g
<1>3. DecodeVoltages(f.bits).mux = g
  BY <1>1, <1>2, DecodedVoltages
<1>4. Ord(f) = 5 * (r - 1) + g + 1 /\ IsVoltage(f)
  BY <1>1, <1>3 DEF Ord, IsVoltage
<1>5. Ord(f) = 5 * (r - 1) + j
  BY <1>2, <1>4 DEF g
<1> QED BY <1>4, <1>5 DEF f

\* What is in a summary.
LEMMA SummaryFields ==
  ASSUME NEW f \in Summaries
  PROVE  (f.id = "0x7F4" /\ f.min \in Plausible /\ f.max \in Plausible) \/ f.id = "0x7F6"
<1>1. CASE f \in {[id |-> "0x7F4", min |-> a, max |-> b] : a \in Plausible, b \in Plausible}
  <2>1. PICK a, b \in Plausible : f = [id |-> "0x7F4", min |-> a, max |-> b]
    BY <1>1
  <2> QED BY <2>1
<1>2. CASE f \in {[id |-> "0x7F6", min |-> a, max |-> b] : a \in Int16Values, b \in Int16Values}
  <2>1. PICK a, b \in Int16Values : f = [id |-> "0x7F6", min |-> a, max |-> b]
    BY <1>2
  <2> QED BY <2>1
<1> QED BY <1>1, <1>2 DEF Summaries

\* What the next frame in the buffer can be.
LEMMA NextFrame ==
  ASSUME Rounds, InFlight, buffer # <<>>, NEW f, f = Head(buffer)
  PROVE  \/ \E r \in 1 .. Len(rounds), j \in 1 .. 5 :
              f = [id |-> "0x270", bits |-> VoltageGroup(rounds[r], j - 1), round |-> r]
         \/ /\ f.id = "0x280"
            /\ source = "plant" => \E r \in 1 .. Len(rounds), g \in 0 .. 1 :
                 f = [id |-> "0x280", bits |-> TemperatureGroup(rounds[r], g), round |-> r]
         \/ /\ f.id = "0x7F4"
            /\ f.min \in Plausible /\ f.max \in Plausible
         \/ f.id = "0x7F6"
<1>1. f \in PlantFrames \cup Summaries
  BY HeadTailProperties DEF InFlight
<1>2. CASE f \in Summaries
  BY <1>2, SummaryFields
<1>3. CASE f \in PlantFrames
  <2>1. PICK r \in 1 .. Len(rounds), j \in 1 .. PerRound : f = FrameAt(source, rounds[r], r, j)
    BY <1>3 DEF PlantFrames
  <2>2. CASE j <= 5
    <3>1. j \in 1 .. 5
      BY <2>2
    <3>2. f = [id |-> "0x270", bits |-> VoltageGroup(rounds[r], j - 1), round |-> r]
      BY <2>1, <2>2 DEF FrameAt
    <3> QED BY <3>1, <3>2
  <2>3. CASE ~(j <= 5)
    <3>1. f.id = "0x280"
      BY <2>1, <2>3 DEF FrameAt
    <3>2. ASSUME source = "plant"
          PROVE  f = [id |-> "0x280", bits |-> TemperatureGroup(rounds[r], j - 6), round |-> r]
      BY <2>1, <2>3, <3>2 DEF FrameAt
    <3>3. source = "plant" => j - 6 \in 0 .. 1
      BY <2>3 DEF PerRound
    <3> QED BY <3>1, <3>2, <3>3
  <2> QED BY <2>2, <2>3
<1> QED BY <1>1, <1>2, <1>3

\* A received 0x270 sets the cells of its group, but for those that are 0 in their 13 bits.
LEMMA VoltagesFolded ==
  ASSUME Rounds, NEW r \in 1 .. Len(rounds), NEW g \in 0 .. 4,
         NEW f, f = [id |-> "0x270", bits |-> VoltageGroup(rounds[r], g), round |-> r],
         FoldVoltages(f)
  PROVE  /\ volts' = [i \in Cells |-> IF i \div 4 = g /\ Cut(rounds[r].volts[i]) > 0
                                      THEN 18 * Cut(rounds[r].volts[i]) ELSE volts[i]]
         /\ voltsOf' = [i \in Cells |-> IF i \div 4 = g /\ Cut(rounds[r].volts[i]) > 0
                                        THEN r ELSE voltsOf[i]]
         /\ temps' = temps /\ tempsOf' = tempsOf
<1> DEFINE d == DecodeVoltages(f.bits)
           v(i) == Cut(rounds[r].volts[i])
<1>1. rounds[r] \in Looks
  BY DEF Rounds
<1>2. d.mux = g /\ \A i \in Cells : i \div 4 = g => d.value[i % 4] = v(i)
  BY <1>1, DecodedVoltages
<1>3. f.round = r
  OBVIOUS
<1>4. /\ volts' = [i \in Cells |-> IF i \in Hit(d) THEN 18 * d.value[i % 4] ELSE volts[i]]
      /\ voltsOf' = [i \in Cells |-> IF i \in Hit(d) THEN f.round ELSE voltsOf[i]]
      /\ temps' = temps /\ tempsOf' = tempsOf
  <2>1. PICK e \in {d} : \E hit \in {Hit(e)} :
          /\ volts' = [i \in Cells |-> IF i \in hit THEN 18 * e.value[i % 4] ELSE volts[i]]
          /\ voltsOf' = [i \in Cells |-> IF i \in hit THEN f.round ELSE voltsOf[i]]
          /\ UNCHANGED <<temps, tempsOf>>
    BY DEF FoldVoltages
  <2> HIDE DEF d
  <2> QED BY <2>1
<1> HIDE DEF d, v
<1>5. \A i \in Cells : i \in Hit(d) <=> i \div 4 = g /\ v(i) > 0
  BY <1>2 DEF Hit
<1>6. ASSUME NEW i \in Cells
      PROVE  (IF i \in Hit(d) THEN 18 * d.value[i % 4] ELSE volts[i])
             = (IF i \div 4 = g /\ v(i) > 0 THEN 18 * v(i) ELSE volts[i])
  BY <1>2, <1>5
<1>7. volts' = [i \in Cells |-> IF i \div 4 = g /\ v(i) > 0 THEN 18 * v(i) ELSE volts[i]]
  BY <1>4, <1>6
<1>8. voltsOf' = [i \in Cells |-> IF i \div 4 = g /\ v(i) > 0 THEN r ELSE voltsOf[i]]
  BY <1>3, <1>4, <1>5
<1> QED BY <1>4, <1>7, <1>8 DEF v

\* A received 0x280 of the plant sets the sensors of its group.
LEMMA TemperaturesFolded ==
  ASSUME Rounds, NEW r \in 1 .. Len(rounds), NEW g \in 0 .. 1,
         NEW f, f = [id |-> "0x280", bits |-> TemperatureGroup(rounds[r], g), round |-> r],
         FoldTemperatures(f)
  PROVE  /\ temps' = [k \in Sensors |-> IF k \div 6 = g
                                        THEN 70 * Degrees(rounds[r].temps[k]) ELSE temps[k]]
         /\ tempsOf' = [k \in Sensors |-> IF k \div 6 = g THEN r ELSE tempsOf[k]]
         /\ volts' = volts /\ voltsOf' = voltsOf
<1> DEFINE d == DecodeTemperatures(f.bits)
           v(k) == Degrees(rounds[r].temps[k])
           hit == {k \in Sensors : d.mux < 2 /\ k \div 6 = d.mux}
<1>1. rounds[r] \in Looks
  BY DEF Rounds
<1>2. d.mux = g /\ \A k \in Sensors : k \div 6 = g => d.value[2 + (k % 6)] = v(k)
  BY <1>1, DecodedTemperatures
<1>3. f.round = r
  OBVIOUS
<1>4. /\ temps' = [k \in Sensors |-> IF k \in hit THEN 70 * d.value[2 + (k % 6)] ELSE temps[k]]
      /\ tempsOf' = [k \in Sensors |-> IF k \in hit THEN f.round ELSE tempsOf[k]]
      /\ volts' = volts /\ voltsOf' = voltsOf
  <2>1. PICK e \in {d} : \E s \in {{k \in Sensors : e.mux < 2 /\ k \div 6 = e.mux}} :
          /\ temps' = [k \in Sensors |-> IF k \in s THEN 70 * e.value[2 + (k % 6)] ELSE temps[k]]
          /\ tempsOf' = [k \in Sensors |-> IF k \in s THEN f.round ELSE tempsOf[k]]
          /\ UNCHANGED <<volts, voltsOf>>
    BY DEF FoldTemperatures
  <2> HIDE DEF d
  <2> QED BY <2>1
<1>5. \A k \in Sensors : k \in hit <=> k \div 6 = g
  <2> HIDE DEF d
  <2> QED BY <1>2
<1> HIDE DEF d, v, hit
<1>6. ASSUME NEW k \in Sensors
      PROVE  (IF k \in hit THEN 70 * d.value[2 + (k % 6)] ELSE temps[k])
             = (IF k \div 6 = g THEN 70 * v(k) ELSE temps[k])
  BY <1>2, <1>5
<1>7. temps' = [k \in Sensors |-> IF k \div 6 = g THEN 70 * v(k) ELSE temps[k]]
  BY <1>4, <1>6
<1>8. tempsOf' = [k \in Sensors |-> IF k \div 6 = g THEN r ELSE tempsOf[k]]
  BY <1>3, <1>4, <1>5
<1> QED BY <1>4, <1>7, <1>8 DEF v

\* What is done with a frame depends on its identifier.
LEMMA Folds ==
  ASSUME Receive, NEW f, f = Head(buffer)
  PROVE  /\ f.id = "0x270" => FoldVoltages(f)
         /\ f.id = "0x280" => FoldTemperatures(f)
         /\ f.id = "0x7F4" => FoldSummary(f)
         /\ f.id = "0x7F6" => FoldRange(f)
BY DEF Receive

\* What the sidecar holds stays what some round said of the cell.
LEMMA HeldStep ==
  ASSUME Rounds, InFlight, Held, [Next]_vars
  PROVE  Held'
<1>1. ASSUME NEW p \in Looks, NEW row, StartRound(p, row),
             UNCHANGED <<source, volts, temps, voltsOf, tempsOf>>
      PROVE  Held'
  <2>1. /\ Len(rounds) \in Nat /\ Len(rounds') = Len(rounds) + 1
        /\ \A r \in 1 .. Len(rounds) : rounds'[r] = rounds[r]
    BY <1>1, RoundAdded DEF StartRound
  <2>2. ASSUME NEW i \in Cells
        PROVE  /\ voltsOf[i] <= Len(rounds')
               /\ voltsOf[i] > 0 => volts[i] = 18 * Cut(rounds'[voltsOf[i]].volts[i])
    <3>1. voltsOf[i] \in Int /\ voltsOf[i] <= Len(rounds)
      BY DEF Held
    <3>2. voltsOf[i] > 0 => rounds'[voltsOf[i]] = rounds[voltsOf[i]]
      BY <2>1, <3>1
    <3> QED BY <2>1, <3>1, <3>2 DEF Held
  <2>3. ASSUME NEW k \in Sensors, source = "plant"
        PROVE  /\ tempsOf[k] <= Len(rounds')
               /\ tempsOf[k] > 0 => temps[k] = 70 * Degrees(rounds'[tempsOf[k]].temps[k])
    <3>1. tempsOf[k] \in Int /\ tempsOf[k] <= Len(rounds)
      BY <2>3 DEF Held
    <3>2. tempsOf[k] > 0 => rounds'[tempsOf[k]] = rounds[tempsOf[k]]
      BY <2>1, <3>1
    <3> QED BY <2>1, <2>3, <3>1, <3>2 DEF Held
  <2> QED BY <1>1, <2>2, <2>3 DEF Held
<1>2. CASE Receive
  <2> DEFINE f == Head(buffer)
  <2>1. UNCHANGED <<source, rounds>> /\ buffer # <<>>
    BY <1>2 DEF Receive, plantVars
  <2>2. /\ f.id = "0x270" => FoldVoltages(f)
        /\ f.id = "0x280" => FoldTemperatures(f)
        /\ f.id = "0x7F4" => FoldSummary(f)
        /\ f.id = "0x7F6" => FoldRange(f)
    BY <1>2, Folds
  <2>3. \/ \E r \in 1 .. Len(rounds), j \in 1 .. 5 :
             f = [id |-> "0x270", bits |-> VoltageGroup(rounds[r], j - 1), round |-> r]
        \/ /\ f.id = "0x280"
           /\ source = "plant" => \E r \in 1 .. Len(rounds), g \in 0 .. 1 :
                f = [id |-> "0x280", bits |-> TemperatureGroup(rounds[r], g), round |-> r]
        \/ /\ f.id = "0x7F4"
           /\ f.min \in Plausible /\ f.max \in Plausible
        \/ f.id = "0x7F6"
    BY <2>1, NextFrame
  <2> HIDE DEF f
  <2>4. ASSUME NEW r \in 1 .. Len(rounds), NEW j \in 1 .. 5,
               f = [id |-> "0x270", bits |-> VoltageGroup(rounds[r], j - 1), round |-> r]
        PROVE  Held'
    <3> DEFINE g == j - 1
               v(i) == Cut(rounds[r].volts[i])
    <3>1. g \in 0 .. 4 /\ FoldVoltages(f)
      BY <2>2, <2>4
    <3>2. f = [id |-> "0x270", bits |-> VoltageGroup(rounds[r], g), round |-> r]
      BY <2>4
    <3> HIDE DEF g
    <3>3. /\ volts' = [i \in Cells |-> IF i \div 4 = g /\ v(i) > 0 THEN 18 * v(i) ELSE volts[i]]
          /\ voltsOf' = [i \in Cells |-> IF i \div 4 = g /\ v(i) > 0 THEN r ELSE voltsOf[i]]
          /\ temps' = temps /\ tempsOf' = tempsOf
      BY <3>1, <3>2, VoltagesFolded
    <3>4. voltsOf' \in [Cells -> Int]
      <4>1. \A i \in Cells : voltsOf[i] \in Int
        BY DEF Held
      <4> HIDE DEF v
      <4> QED BY <3>3, <4>1
    <3>5. ASSUME NEW i \in Cells
          PROVE  /\ voltsOf'[i] <= Len(rounds)
                 /\ voltsOf'[i] > 0 => volts'[i] = 18 * Cut(rounds[voltsOf'[i]].volts[i])
      <4>1. CASE i \div 4 = g /\ v(i) > 0
        <5>1. voltsOf'[i] = r /\ volts'[i] = 18 * v(i)
          BY <3>3, <4>1
        <5> QED BY <5>1
      <4>2. CASE ~(i \div 4 = g /\ v(i) > 0)
        <5>1. voltsOf'[i] = voltsOf[i] /\ volts'[i] = volts[i]
          BY <3>3, <4>2
        <5> QED BY <5>1 DEF Held
      <4> QED BY <4>1, <4>2
    <3> QED BY <2>1, <3>3, <3>4, <3>5 DEF Held
  <2>5. ASSUME f.id = "0x280",
               source = "plant" => \E r \in 1 .. Len(rounds), g \in 0 .. 1 :
                 f = [id |-> "0x280", bits |-> TemperatureGroup(rounds[r], g), round |-> r]
        PROVE  Held'
    <3>1. volts' = volts /\ voltsOf' = voltsOf
      BY <2>2, <2>5 DEF FoldTemperatures
    <3>2. ASSUME source = "plant"
          PROVE  /\ tempsOf' \in [Sensors -> Int]
                 /\ \A k \in Sensors :
                      /\ tempsOf'[k] <= Len(rounds)
                      /\ tempsOf'[k] > 0 => temps'[k] = 70 * Degrees(rounds[tempsOf'[k]].temps[k])
      <4>1. PICK r \in 1 .. Len(rounds), g \in 0 .. 1 :
              f = [id |-> "0x280", bits |-> TemperatureGroup(rounds[r], g), round |-> r]
        BY <2>5, <3>2
      <4>2. FoldTemperatures(f)
        BY <2>2, <2>5
      <4> DEFINE v(k) == Degrees(rounds[r].temps[k])
      <4>3. /\ temps' = [k \in Sensors |-> IF k \div 6 = g THEN 70 * v(k) ELSE temps[k]]
            /\ tempsOf' = [k \in Sensors |-> IF k \div 6 = g THEN r ELSE tempsOf[k]]
        BY <4>1, <4>2, TemperaturesFolded
      <4>4. tempsOf' \in [Sensors -> Int]
        BY <3>2, <4>3 DEF Held
      <4>5. ASSUME NEW k \in Sensors
            PROVE  /\ tempsOf'[k] <= Len(rounds)
                   /\ tempsOf'[k] > 0 => temps'[k] = 70 * Degrees(rounds[tempsOf'[k]].temps[k])
        <5>1. CASE k \div 6 = g
          <6>1. tempsOf'[k] = r /\ temps'[k] = 70 * v(k)
            BY <4>3, <5>1
          <6> QED BY <6>1
        <5>2. CASE k \div 6 # g
          <6>1. tempsOf'[k] = tempsOf[k] /\ temps'[k] = temps[k]
            BY <4>3, <5>2
          <6> QED BY <3>2, <6>1 DEF Held
        <5> QED BY <5>1, <5>2
      <4> QED BY <4>4, <4>5
    <3> QED BY <2>1, <3>1, <3>2 DEF Held
  <2>6. CASE f.id = "0x7F4"
    <3>1. FoldSummary(f) /\ temps' = temps /\ tempsOf' = tempsOf
      BY <2>2, <2>6 DEF FoldSummary
    <3>2. \/ voltsOf' = [i \in Cells |-> Summarised]
          \/ volts' = volts /\ voltsOf' = voltsOf
      BY <3>1 DEF FoldSummary
    <3>3. CASE voltsOf' = [i \in Cells |-> Summarised]
      <4>1. Len(rounds) \in Nat /\ Summarised = -1
        BY LenProperties DEF Rounds, Summarised
      <4>2. voltsOf' \in [Cells -> Int] /\ \A i \in Cells : voltsOf'[i] = -1
        BY <3>3, <4>1
      <4> QED BY <2>1, <3>1, <4>1, <4>2 DEF Held
    <3>4. CASE volts' = volts /\ voltsOf' = voltsOf
      BY <2>1, <3>1, <3>4 DEF Held
    <3> QED BY <3>2, <3>3, <3>4
  <2>7. CASE f.id = "0x7F6"
    <3>1. volts' = volts /\ voltsOf' = voltsOf /\ tempsOf' = [k \in Sensors |-> Summarised]
      BY <2>2, <2>7 DEF FoldRange
    <3>2. Len(rounds) \in Nat /\ Summarised = -1
      BY LenProperties DEF Rounds, Summarised
    <3>3. tempsOf' \in [Sensors -> Int] /\ \A k \in Sensors : tempsOf'[k] = -1
      BY <3>1, <3>2
    <3> QED BY <2>1, <3>1, <3>2, <3>3 DEF Held
  <2> QED BY <2>3, <2>4, <2>5, <2>6, <2>7
<1>3. CASE UNCHANGED <<source, rounds, volts, temps, voltsOf, tempsOf>>
  BY <1>3 DEF Held
<1>4. CASE SendFrame
  BY <1>3, <1>4 DEF SendFrame, plantVars, sidecarVars
<1>5. CASE SendSummary \/ SendRange
  BY <1>3, <1>5 DEF SendSummary, SendRange, plantVars, sidecarVars
<1> QED BY <1>1, <1>2, <1>3, <1>4, <1>5, FrameSteps

\* At first nothing is on its way, and the sidecar holds what it was started with.
LEMMA SidecarStarts == Init => InFlight /\ Held
<1> SUFFICES ASSUME Init PROVE InFlight /\ Held
  OBVIOUS
<1>1. InFlight
  <2>1. <<>> \in Seq(PlantFrames) /\ <<>> \in Seq(PlantFrames \cup Summaries) /\ Len(<<>>) = 0
    BY EmptySeq
  <2> QED BY <2>1 DEF Init, InFlight, PerRound
<1>2. Held
  BY DEF Init, Held
<1> QED BY <1>1, <1>2

\* The degrees in the byte are those of the temperature, or the nearer end of what it can say.
LEMMA DegreesNearby ==
  ASSUME NEW t \in Int
  PROVE  /\ t \in 0 .. 2559 => 7 * t - 70 * Degrees(t) \in 0 .. 63
         /\ t < 0 => Degrees(t) = 0
         /\ t > 2559 => Degrees(t) = 255
BY DEF Degrees, Clamp

\* Every voltage the sidecar holds is, in 13 bits, the one the plant had for that very cell in
\* the round it came from, whatever the cells look like and however frames are lost.
THEOREM CellsComeAsSent == Spec => []CellsAsSent
<1>1. Held => CellsAsSent
  BY DEF Held, CellsAsSent, Cut
<1> QED BY <1>1, DbInitially, SidecarStarts, RangeStarts, RangeStep, RoundsStep, StepsOfDb, DbTypeStep,
           InFlightStep, HeldStep, PTL DEF Spec

\* The temperatures the sidecar has of a plant, and not of the vECU's range that has overwritten
\* them since, are that very sensor's, at most a degree too low, and stay at the nearer end of
\* what a byte of degrees can say.
THEOREM TemperaturesComeAsSent == Spec => []TemperaturesAsSent
<1>1. ASSUME Rounds, Held PROVE TemperaturesAsSent
  <2> SUFFICES ASSUME source = "plant", NEW k \in Sensors, tempsOf[k] > 0
               PROVE  /\ rounds[tempsOf[k]].temps[k] \in 0 .. 2559 =>
                           7 * rounds[tempsOf[k]].temps[k] - temps[k] \in 0 .. 63
                      /\ rounds[tempsOf[k]].temps[k] < 0 => temps[k] = 0
                      /\ rounds[tempsOf[k]].temps[k] > 2559 => temps[k] = 7 * 2550
    BY Zenon DEF TemperaturesAsSent
  <2> DEFINE t == rounds[tempsOf[k]].temps[k]
  <2>1. tempsOf[k] \in 1 .. Len(rounds) /\ temps[k] = 70 * Degrees(t)
    BY <1>1 DEF Held
  <2>2. t \in Int
    <3>1. rounds[tempsOf[k]] \in Looks
      BY <1>1, <2>1, ElementOfSeq DEF Rounds
    <3> QED BY <3>1 DEF Looks
  <2> HIDE DEF t
  <2> DEFINE d == 70 * Degrees(t)
  <2>3. temps[k] = d
    BY <2>1
  <2>4. /\ t \in 0 .. 2559 => 7 * t - d \in 0 .. 63
        /\ t < 0 => d = 0
        /\ t > 2559 => d = 7 * 2550
    BY <2>2, DegreesNearby
  <2> HIDE DEF d
  <2>5. /\ t \in 0 .. 2559 => 7 * t - temps[k] \in 0 .. 63
        /\ t < 0 => temps[k] = 0
        /\ t > 2559 => temps[k] = 7 * 2550
    BY <2>3, <2>4
  <2> QED BY <2>5 DEF t
<1> QED BY <1>1, DbInitially, SidecarStarts, RangeStarts, RangeStep, RoundsStep, StepsOfDb, DbTypeStep,
           InFlightStep, HeldStep, PTL DEF Spec

\* One frame more has come: the last round of its group is its own, of the others what it was.
LEMMA LastRoundMoves ==
  ASSUME NEW c \in Nat, NEW r \in Nat \ {0}, NEW g \in 0 .. 4, NEW i \in Cells, c = 5 * (r - 1) + g
  PROVE  /\ i \div 4 = g => LastRound(c + 1, i) = r
         /\ i \div 4 # g => LastRound(c + 1, i) = LastRound(c, i)
<1> DEFINE h == i \div 4
<1>1. h \in 0 .. 4
  BY DEF Cells
<1>2. LastRound(c + 1, i) = (c + 1 + 4 - h) \div 5 /\ LastRound(c, i) = (c + 4 - h) \div 5
  BY DEF LastRound
<1> HIDE DEF h
<1>3. ASSUME h = g PROVE (c + 1 + 4 - h) \div 5 = r
  <2>1. c + 1 + 4 - h = 5 * r
    BY <1>1, <1>3
  <2>2. (5 * r) \div 5 = r
    OBVIOUS
  <2> QED BY <2>1, <2>2
<1>4. ASSUME h # g PROVE (c + 1 + 4 - h) \div 5 = (c + 4 - h) \div 5
  <2>1. CASE h < g
    <3>1. (c + 1 + 4 - h) \div 5 = r /\ (c + 4 - h) \div 5 = r
      BY <1>1, <2>1
    <3> QED BY <3>1
  <2>2. CASE h > g
    <3>1. (c + 1 + 4 - h) \div 5 = r - 1 /\ (c + 4 - h) \div 5 = r - 1
      BY <1>1, <2>2
    <3> QED BY <3>1
  <2> QED BY <1>1, <1>4, <2>1, <2>2
<1> QED BY <1>2, <1>3, <1>4 DEF h

\* The last rounds of two cells are at most one apart.
LEMMA LastRoundsClose ==
  ASSUME NEW c \in Nat, NEW i \in Cells, NEW k \in Cells
  PROVE  /\ LastRound(c, i) \in Int /\ LastRound(c, k) \in Int
         /\ LastRound(c, i) - LastRound(c, k) <= 1
<1> DEFINE g == i \div 4
           h == k \div 4
<1>1. g \in 0 .. 4 /\ h \in 0 .. 4
  BY DEF Cells
<1>2. LastRound(c, i) = (c + 4 - g) \div 5 /\ LastRound(c, k) = (c + 4 - h) \div 5
  BY DEF LastRound
<1> HIDE DEF g, h
<1>3. ((c + 4 - g) \div 5) - ((c + 4 - h) \div 5) <= 1
  BY <1>1
<1>4. (c + 4 - g) \div 5 \in Int /\ (c + 4 - h) \div 5 \in Int
  BY <1>1
<1> QED BY <1>2, <1>3, <1>4

\* A frame that arrives in the buffer is the next one of its kind, if it is an 0x270.
LEMMA InOrderGrows ==
  ASSUME NEW S, buffer \in Seq(S), NEW f \in S, buffer' = Append(buffer, f), voltsOf' = voltsOf,
         NEW c \in Nat, Sent \in Nat, c <= Sent, InOrder(c),
         \/ IsVoltage(f) /\ Ord(f) = Sent + 1 /\ Sent' = Sent + 1
         \/ ~IsVoltage(f) /\ Sent' = Sent
  PROVE  InOrder(c)'
<1> DEFINE n == Len(buffer)
           b == buffer'
           s == Sent'
<1>1. /\ n \in Nat /\ Len(b) = n + 1 /\ b[n + 1] = f
      /\ \A k \in 1 .. n : b[k] = buffer[k]
  BY AppendProperties, LenProperties
<1>2. /\ \A k \in 1 .. n : IsVoltage(buffer[k]) => Ord(buffer[k]) \in c + 1 .. Sent
      /\ \A j, k \in 1 .. n :
           IsVoltage(buffer[j]) /\ IsVoltage(buffer[k]) /\ j < k => Ord(buffer[j]) < Ord(buffer[k])
      /\ \A m \in c + 1 .. Sent : \E k \in 1 .. n : IsVoltage(buffer[k]) /\ Ord(buffer[k]) = m
      /\ \A i \in Cells : voltsOf[i] \in {Summarised, LastRound(c, i)}
  BY DEF InOrder
<1>3. s \in Nat /\ Sent <= s /\ s <= Sent + 1
  OBVIOUS
<1> HIDE DEF n, b, s
<1>4. ASSUME NEW k \in 1 .. Len(b), IsVoltage(b[k]) PROVE Ord(b[k]) \in c + 1 .. s
  <2>1. CASE k \in 1 .. n
    <3>1. Ord(b[k]) \in c + 1 .. Sent
      BY <1>1, <1>2, <1>4, <2>1
    <3> QED BY <1>3, <3>1
  <2>2. CASE k = n + 1
    <3>1. Ord(b[k]) = Sent + 1 /\ s = Sent + 1
      BY <1>1, <1>4, <2>2 DEF s
    <3> QED BY <3>1
  <2> QED BY <1>1, <2>1, <2>2
<1>5. ASSUME NEW j \in 1 .. Len(b), NEW k \in 1 .. Len(b), IsVoltage(b[j]), IsVoltage(b[k]), j < k
      PROVE  Ord(b[j]) < Ord(b[k])
  <2>1. j \in 1 .. n /\ b[j] = buffer[j]
    BY <1>1, <1>5
  <2>2. CASE k \in 1 .. n
    BY <1>1, <1>2, <1>5, <2>1, <2>2
  <2>3. CASE k = n + 1
    <3>1. Ord(b[k]) = Sent + 1 /\ Ord(b[j]) \in c + 1 .. Sent
      BY <1>1, <1>2, <1>5, <2>1, <2>3
    <3> QED BY <3>1
  <2> QED BY <1>1, <2>2, <2>3
<1>6. ASSUME NEW m \in c + 1 .. s PROVE \E k \in 1 .. Len(b) : IsVoltage(b[k]) /\ Ord(b[k]) = m
  <2>1. CASE m \in c + 1 .. Sent
    <3>1. PICK k \in 1 .. n : IsVoltage(buffer[k]) /\ Ord(buffer[k]) = m
      BY <1>2, <2>1
    <3>2. k \in 1 .. Len(b) /\ b[k] = buffer[k]
      BY <1>1
    <3> QED BY <3>1, <3>2
  <2>2. CASE m = Sent + 1
    <3>1. IsVoltage(f) /\ Ord(f) = Sent + 1
      BY <1>6, <2>2 DEF s
    <3>2. n + 1 \in 1 .. Len(b) /\ b[n + 1] = f
      BY <1>1
    <3> QED BY <2>2, <3>1, <3>2
  <2> QED BY <1>3, <2>1, <2>2
<1>7. \A i \in Cells : voltsOf'[i] \in {Summarised, LastRound(c, i)}
  BY <1>2
<1> QED BY <1>4, <1>5, <1>6, <1>7 DEF InOrder, b, s

\* The first 0x270 in the buffer is the next one in order.
LEMMA NextInOrder ==
  ASSUME NEW S, buffer \in Seq(S), buffer # <<>>,
         NEW c \in Nat, Sent \in Nat, InOrder(c), NEW f, f = Head(buffer), IsVoltage(f)
  PROVE  Ord(f) = c + 1 /\ c + 1 <= Sent
<1> DEFINE n == Len(buffer)
<1>1. n \in Nat /\ n > 0 /\ f = buffer[1]
  BY HeadTailProperties, LenProperties, EmptySeq
<1>2. /\ \A k \in 1 .. n : IsVoltage(buffer[k]) => Ord(buffer[k]) \in c + 1 .. Sent
      /\ \A j, k \in 1 .. n :
           IsVoltage(buffer[j]) /\ IsVoltage(buffer[k]) /\ j < k => Ord(buffer[j]) < Ord(buffer[k])
      /\ \A m \in c + 1 .. Sent : \E k \in 1 .. n : IsVoltage(buffer[k]) /\ Ord(buffer[k]) = m
  BY DEF InOrder
<1> HIDE DEF n
<1>3. 1 \in 1 .. n /\ Ord(f) \in c + 1 .. Sent
  BY <1>1, <1>2
<1>4. c + 1 \in c + 1 .. Sent
  BY <1>3
<1>5. PICK k \in 1 .. n : IsVoltage(buffer[k]) /\ Ord(buffer[k]) = c + 1
  BY <1>2, <1>4
<1>6. k > 1 => Ord(f) < c + 1
  BY <1>1, <1>2, <1>3, <1>5
<1>7. k = 1
  BY <1>3, <1>5, <1>6
<1> QED BY <1>1, <1>3, <1>5, <1>7

\* The frame that leaves the buffer is the next one in order, if it is an 0x270.
LEMMA InOrderShrinks ==
  ASSUME NEW S, buffer \in Seq(S), buffer # <<>>, buffer' = Tail(buffer), Sent' = Sent,
         NEW c \in Nat, Sent \in Nat, c <= Sent, InOrder(c), NEW f, f = Head(buffer),
         NEW d, d = IF IsVoltage(f) THEN c + 1 ELSE c,
         \A i \in Cells : voltsOf'[i] \in {Summarised, LastRound(d, i)}
  PROVE  d \in 0 .. Sent /\ InOrder(d)'
<1> DEFINE n == Len(buffer)
           b == buffer'
<1>1. /\ n \in Nat /\ n > 0 /\ Len(b) = n - 1 /\ f = buffer[1]
      /\ \A k \in 1 .. n - 1 : b[k] = buffer[k + 1]
  BY HeadTailProperties, LenProperties, EmptySeq
<1>2. /\ \A k \in 1 .. n : IsVoltage(buffer[k]) => Ord(buffer[k]) \in c + 1 .. Sent
      /\ \A j, k \in 1 .. n :
           IsVoltage(buffer[j]) /\ IsVoltage(buffer[k]) /\ j < k => Ord(buffer[j]) < Ord(buffer[k])
      /\ \A m \in c + 1 .. Sent : \E k \in 1 .. n : IsVoltage(buffer[k]) /\ Ord(buffer[k]) = m
  BY DEF InOrder
<1> HIDE DEF n, b
<1>3. ASSUME IsVoltage(f) PROVE Ord(f) = c + 1 /\ c + 1 <= Sent
  BY <1>3, NextInOrder
<1>4. d \in Nat /\ d <= Sent
  BY <1>3
<1>5. ASSUME NEW k \in 1 .. Len(b) PROVE b[k] = buffer[k + 1] /\ k + 1 \in 1 .. n /\ 1 < k + 1
  BY <1>1
<1>6. ASSUME NEW k \in 1 .. Len(b), IsVoltage(b[k]) PROVE Ord(b[k]) \in d + 1 .. Sent
  <2>1. Ord(b[k]) \in c + 1 .. Sent
    BY <1>2, <1>5, <1>6
  <2>2. CASE IsVoltage(f)
    <3>1. Ord(f) < Ord(b[k]) /\ Ord(f) = c + 1
      BY <1>1, <1>2, <1>3, <1>5, <1>6, <2>2
    <3> QED BY <2>1, <2>2, <3>1
  <2>3. CASE ~IsVoltage(f)
    BY <2>1, <2>3
  <2> QED BY <2>2, <2>3
<1>7. ASSUME NEW j \in 1 .. Len(b), NEW k \in 1 .. Len(b), IsVoltage(b[j]), IsVoltage(b[k]), j < k
      PROVE  Ord(b[j]) < Ord(b[k])
  BY <1>2, <1>5, <1>7
<1>8. ASSUME NEW m \in d + 1 .. Sent PROVE \E k \in 1 .. Len(b) : IsVoltage(b[k]) /\ Ord(b[k]) = m
  <2>1. m \in c + 1 .. Sent
    BY <1>4
  <2>2. PICK k \in 1 .. n : IsVoltage(buffer[k]) /\ Ord(buffer[k]) = m
    BY <1>2, <2>1
  <2>3. k # 1
    <3>1. CASE IsVoltage(f)
      BY <1>1, <1>3, <2>2, <3>1
    <3>2. CASE ~IsVoltage(f)
      BY <1>1, <2>2, <3>2
    <3> QED BY <3>1, <3>2
  <2>4. k - 1 \in 1 .. Len(b) /\ b[k - 1] = buffer[k]
    <3>1. k - 1 \in 1 .. n - 1 /\ (k - 1) + 1 = k
      BY <1>1, <2>3
    <3> QED BY <1>1, <3>1
  <2> QED BY <2>2, <2>4
<1>9. InOrder(d)' <=>
      /\ \A k \in 1 .. Len(b) : IsVoltage(b[k]) => Ord(b[k]) \in d + 1 .. Sent'
      /\ \A j, k \in 1 .. Len(b) : IsVoltage(b[j]) /\ IsVoltage(b[k]) /\ j < k => Ord(b[j]) < Ord(b[k])
      /\ \A m \in d + 1 .. Sent' : \E k \in 1 .. Len(b) : IsVoltage(b[k]) /\ Ord(b[k]) = m
      /\ \A i \in Cells : voltsOf'[i] \in {Summarised, LastRound(d, i)}
  BY DEF InOrder, b
<1> QED BY <1>4, <1>6, <1>7, <1>8, <1>9

\* How many 0x270 have left the plant is known from the length of what has not.
LEMMA SentIsNat ==
  ASSUME Rounds, InFlight
  PROVE  /\ Len(rounds) \in Nat /\ Len(unsent) \in Nat /\ PerRound \in {7, 10}
         /\ rounds # <<>> => Len(rounds) > 0
         /\ Sent \in Nat
<1>1. Len(rounds) \in Nat /\ Len(unsent) \in Nat
  BY LenProperties DEF Rounds, InFlight
<1>2. rounds # <<>> => Len(rounds) > 0
  BY <1>1, EmptySeq DEF Rounds
<1>3. PerRound \in {7, 10} /\ Len(unsent) <= PerRound
  BY DEF PerRound, InFlight
<1>4. ASSUME rounds # <<>> PROVE Sent \in Nat
  <2> DEFINE a == Len(rounds) - 1
             b == PerRound - Len(unsent)
  <2>1. a \in Nat /\ b \in Nat
    BY <1>1, <1>2, <1>3, <1>4
  <2>2. Sent = 5 * a + (IF b < 5 THEN b ELSE 5)
    BY <1>4 DEF Sent
  <2> HIDE DEF a, b
  <2> QED BY <2>1, <2>2
<1>5. rounds = <<>> => Sent \in Nat
  BY DEF Sent
<1> QED BY <1>1, <1>2, <1>3, <1>4, <1>5

\* A new round begins with none of its frames sent, when all those of the last one are.
LEMMA RoundSent ==
  ASSUME Rounds, InFlight, NEW p \in Looks, NEW row, StartRound(p, row), source' = source, unsent = <<>>
  PROVE  Sent' = Sent
<1>1. /\ Len(rounds) \in Nat /\ Len(rounds') = Len(rounds) + 1 /\ PerRound' = PerRound
  BY RoundAdded DEF StartRound
<1>2. Len(unsent') = PerRound' /\ Len(unsent) = 0
  BY RoundFrames, EmptySeq
<1>3. rounds' # <<>>
  BY <1>1, EmptySeq
<1>4. Sent' = 5 * (Len(rounds') - 1) + (IF PerRound' - Len(unsent') < 5 THEN PerRound' - Len(unsent') ELSE 5)
  BY <1>3 DEF Sent
<1>5. PerRound \in {7, 10} /\ (rounds # <<>> => Len(rounds) > 0)
  BY SentIsNat
<1>6. Sent' = 5 * Len(rounds)
  BY <1>1, <1>2, <1>4, <1>5
<1>7. Sent = 5 * Len(rounds)
  <2>1. CASE rounds = <<>>
    BY <2>1, EmptySeq DEF Sent
  <2>2. CASE rounds # <<>>
    BY <1>1, <1>2, <1>5, <2>2 DEF Sent
  <2> QED BY <2>1, <2>2
<1> QED BY <1>6, <1>7

\* The frame that leaves the plant is the next 0x270, or it is a 0x280.
LEMMA FrameSent ==
  ASSUME Rounds, InFlight, SendFrame, NEW f, f = Head(unsent)
  PROVE  /\ f \in PlantFrames
         /\ \/ IsVoltage(f) /\ Ord(f) = Sent + 1 /\ Sent' = Sent + 1
            \/ ~IsVoltage(f) /\ Sent' = Sent
<1> DEFINE L == Len(unsent)
           N == Len(rounds)
           j == PerRound - L + 1
<1>1. /\ unsent # <<>> /\ unsent' = Tail(unsent) /\ rounds' = rounds /\ source' = source
  BY DEF SendFrame, plantVars
<1>2. /\ L \in Nat /\ L > 0 /\ Len(unsent') = L - 1 /\ f = unsent[1] /\ f \in PlantFrames
  BY <1>1, HeadTailProperties, LenProperties, EmptySeq, ElementOfSeq DEF InFlight
<1>3. N \in Nat /\ PerRound \in {7, 10} /\ Sent \in Nat /\ L <= PerRound
  BY SentIsNat DEF InFlight
<1>4. f = FrameAt(source, rounds[N], N, j)
  <2>1. unsent[1] = FrameAt(source, rounds[N], N, PerRound - L + 1)
    BY <1>2 DEF InFlight
  <2> QED BY <1>2, <2>1
<1>5. N > 0 /\ rounds # <<>>
  <2>1. PICK r \in 1 .. N, k \in 1 .. PerRound : f = FrameAt(source, rounds[r], r, k)
    BY <1>2 DEF PlantFrames
  <2> QED BY <1>3, <2>1, EmptySeq
<1>6. PerRound' = PerRound
  BY <1>1 DEF PerRound
<1>7. Sent = 5 * (N - 1) + (IF PerRound - L < 5 THEN PerRound - L ELSE 5)
  BY <1>5 DEF Sent
<1>8. Sent' = 5 * (N - 1) + (IF PerRound - (L - 1) < 5 THEN PerRound - (L - 1) ELSE 5)
  BY <1>1, <1>2, <1>5, <1>6 DEF Sent
<1> HIDE DEF L, N
<1>9. CASE j <= 5
  <2>1. j \in 1 .. 5 /\ N \in 1 .. N
    BY <1>2, <1>3, <1>5, <1>9
  <2>2. IsVoltage(f) /\ Ord(f) = 5 * (N - 1) + j
    BY <1>4, <2>1, OrdOfFrame DEF N
  <2>3. 5 * (N - 1) + j = Sent + 1 /\ Sent' = Sent + 1
    BY <1>2, <1>3, <1>7, <1>8, <1>9
  <2> QED BY <1>2, <2>2, <2>3
<1>10. CASE ~(j <= 5)
  <2>1. f.id = "0x280"
    BY <1>4, <1>10 DEF FrameAt
  <2>2. Sent' = Sent
    BY <1>2, <1>3, <1>7, <1>8, <1>10
  <2> QED BY <1>2, <2>1, <2>2 DEF IsVoltage
<1> QED BY <1>9, <1>10

\* What the sidecar makes of the next frame, if no cell of a round read 0 mV.
LEMMA FrameFolded ==
  ASSUME Rounds, DbTypeOK, InFlight, Receive, ~ZeroSent,
         NEW c \in Nat, c <= Sent, InOrder(c), NEW f, f = Head(buffer),
         NEW d, d = IF IsVoltage(f) THEN c + 1 ELSE c
  PROVE  \A i \in Cells : voltsOf'[i] \in {Summarised, LastRound(d, i)}
<1>1. buffer # <<>> /\ buffer \in Seq(PlantFrames \cup Summaries)
  BY DEF Receive, InFlight
<1>2. Sent \in Nat
  BY SentIsNat
<1>3. \A i \in Cells : voltsOf[i] \in {Summarised, LastRound(c, i)}
  BY DEF InOrder
<1>4. ASSUME NEW r \in 1 .. Len(rounds), NEW j \in 1 .. 5,
             f = [id |-> "0x270", bits |-> VoltageGroup(rounds[r], j - 1), round |-> r]
      PROVE  \A i \in Cells : voltsOf'[i] \in {Summarised, LastRound(d, i)}
  <2>1. f = FrameAt(source, rounds[r], r, j)
    BY <1>4 DEF FrameAt
  <2>2. IsVoltage(f) /\ Ord(f) = 5 * (r - 1) + j
    BY <2>1, OrdOfFrame
  <2>3. Ord(f) = c + 1
    BY <1>1, <1>2, <2>2, NextInOrder
  <2>4. c = 5 * (r - 1) + (j - 1) /\ r \in Nat \ {0} /\ j - 1 \in 0 .. 4
    BY <2>2, <2>3, SentIsNat
  <2>5. d = c + 1
    BY <2>2
  <2>6. FoldVoltages(f)
    BY <2>2, Folds DEF IsVoltage
  <2>7. voltsOf' = [i \in Cells |-> IF i \div 4 = j - 1 /\ Cut(rounds[r].volts[i]) > 0
                                    THEN r ELSE voltsOf[i]]
    BY <1>4, <2>4, <2>6, VoltagesFolded
  <2>8. ASSUME NEW i \in Cells PROVE Cut(rounds[r].volts[i]) > 0
    <3>1. rounds[r] \in Looks /\ r \in DOMAIN rounds
      BY LenProperties, ElementOfSeq DEF Rounds
    <3>2. rounds[r].volts[i] \in Int
      BY <3>1 DEF Looks
    <3>3. Cut(rounds[r].volts[i]) # 0
      BY <3>1 DEF ZeroSent
    <3>4. Cut(rounds[r].volts[i]) \in Nat
      BY <3>2 DEF Cut
    <3> QED BY <3>3, <3>4
  <2>9. ASSUME NEW i \in Cells PROVE voltsOf'[i] \in {Summarised, LastRound(d, i)}
    <3>1. CASE i \div 4 = j - 1
      BY <2>4, <2>5, <2>7, <2>8, <3>1, LastRoundMoves
    <3>2. CASE i \div 4 # j - 1
      <4>1. LastRound(d, i) = LastRound(c, i)
        BY <2>4, <2>5, <3>2, LastRoundMoves
      <4> QED BY <1>3, <2>7, <3>2, <4>1
    <3> QED BY <3>1, <3>2
  <2> QED BY <2>9
<1>5. ASSUME f.id # "0x270", voltsOf' = voltsOf
      PROVE  \A i \in Cells : voltsOf'[i] \in {Summarised, LastRound(d, i)}
  BY <1>3, <1>5 DEF IsVoltage
<1>6. ASSUME f.id = "0x280" \/ f.id = "0x7F6" PROVE voltsOf' = voltsOf
  BY <1>6, Folds DEF FoldTemperatures, FoldRange
<1>7. ASSUME f.id = "0x7F4"
      PROVE  voltsOf' = voltsOf \/ voltsOf' = [i \in Cells |-> Summarised]
  BY <1>7, Folds DEF FoldSummary
<1> QED BY <1>1, <1>4, <1>5, <1>6, <1>7, NextFrame

-----------------------------------------------------------------------------
\* At first nothing has been sent, and nothing has come.
LEMMA OrderlyStarts == Init => Orderly
<1> SUFFICES ASSUME Init PROVE Orderly
  OBVIOUS
<1>1. Sent = 0 /\ buffer = <<>> /\ Len(buffer) = 0 /\ voltsOf = [i \in Cells |-> 0]
  BY EmptySeq DEF Init, Sent
<1>2. \A i \in Cells : LastRound(0, i) = 0
  BY DEF LastRound, Cells
<1>3. InOrder(0)
  BY <1>1, <1>2 DEF InOrder
<1> QED BY <1>1, <1>3 DEF Orderly

\* A cell that read 0 mV in a round has done so for good.
LEMMA ZeroSentStays ==
  ASSUME Rounds, [Next]_vars, ZeroSent
  PROVE  ZeroSent'
<1>1. PICK n \in DOMAIN rounds, i \in Cells : Cut(rounds[n].volts[i]) = 0
  BY DEF ZeroSent
<1>2. n \in DOMAIN rounds' /\ rounds'[n] = rounds[n]
  <2>1. ASSUME NEW p \in Looks, NEW row, StartRound(p, row)
        PROVE  n \in DOMAIN rounds' /\ rounds'[n] = rounds[n]
    <3>1. /\ DOMAIN rounds = 1 .. Len(rounds) /\ DOMAIN rounds' = 1 .. Len(rounds) + 1
          /\ \A r \in 1 .. Len(rounds) : rounds'[r] = rounds[r]
          /\ Len(rounds) \in Nat
      BY <2>1, AppendProperties, LenProperties DEF StartRound, Rounds
    <3> QED BY <3>1
  <2>2. ASSUME UNCHANGED rounds PROVE n \in DOMAIN rounds' /\ rounds'[n] = rounds[n]
    BY <2>2
  <2> QED BY <2>1, <2>2, FrameSteps DEF SendFrame, SendSummary, SendRange, Receive, plantVars
<1> QED BY <1>1, <1>2 DEF ZeroSent

\* So has a frame that was lost.
LEMMA LostStays ==
  ASSUME Rounds, InFlight, [Next]_vars, lost > 0
  PROVE  lost' > 0
<1>1. lost \in Nat
  BY DEF InFlight
<1>2. ASSUME NEW f, Arrives(f) PROVE lost' > 0
  BY <1>1, <1>2 DEF Arrives
<1>3. ASSUME lost' = lost PROVE lost' > 0
  BY <1>3
<1> QED BY <1>2, <1>3, FrameSteps DEF SendFrame, SendSummary, SendRange, Receive

\* The frames leave, arrive and are folded in their order, or one of them is lost.
LEMMA OrderlyStep ==
  ASSUME Rounds, DbTypeOK, RangeTyped, InFlight, Orderly, [Next]_vars
  PROVE  Orderly'
<1>1. Orderly' <=> lost' > 0 \/ ZeroSent' \/ \E c \in 0 .. Sent' : InOrder(c)'
  BY DEF Orderly
<1>2. CASE lost > 0
  BY <1>1, <1>2, LostStays
<1>3. CASE ZeroSent
  BY <1>1, <1>3, ZeroSentStays
<1>4. ASSUME ~ZeroSent, NEW c \in 0 .. Sent, InOrder(c) PROVE Orderly'
  <2> DEFINE S == PlantFrames \cup Summaries
  <2>1. Sent \in Nat /\ c \in Nat /\ c <= Sent /\ buffer \in Seq(S) /\ lost \in Nat
    BY SentIsNat DEF InFlight
  <2>2. ASSUME Sent' = Sent, UNCHANGED <<buffer, voltsOf>> PROVE Orderly'
    <3>1. InOrder(c)'
      BY <1>4, <2>2 DEF InOrder
    <3> QED BY <1>1, <2>2, <3>1
  <2>3. ASSUME NEW p \in Looks, NEW row, StartRound(p, row), unsent = <<>>,
               UNCHANGED <<source, buffer, voltsOf>>
        PROVE  Orderly'
    BY <2>2, <2>3, RoundSent
  <2>4. ASSUME NEW f \in S, Arrives(f), voltsOf' = voltsOf,
               \/ IsVoltage(f) /\ Ord(f) = Sent + 1 /\ Sent' = Sent + 1
               \/ ~IsVoltage(f) /\ Sent' = Sent
        PROVE  Orderly'
    <3>1. CASE lost' > 0
      BY <1>1, <3>1
    <3>2. CASE buffer' = Append(buffer, f)
      <4>1. InOrder(c)'
        BY <1>4, <2>1, <2>4, <3>2, InOrderGrows
      <4>2. c \in 0 .. Sent'
        BY <2>1, <2>4
      <4> QED BY <1>1, <4>1, <4>2
    <3> QED BY <2>1, <2>4, <3>1, <3>2, ArrivesAppends
  <2>5. CASE SendFrame
    <3>1. Arrives(Head(unsent)) /\ voltsOf' = voltsOf
      BY <2>5 DEF SendFrame, sidecarVars
    <3> QED BY <2>4, <2>5, <3>1, FrameSent
  <2>6. CASE SendSummary
    <3> DEFINE f == [id |-> "0x7F4", min |-> vMin, max |-> vMax]
    <3>1. Arrives(f) /\ UNCHANGED <<source, rounds, unsent, voltsOf>>
      BY <2>6 DEF SendSummary, plantVars, sidecarVars
    <3>2. f \in S
      BY DEF Summaries, DbTypeOK
    <3>3. ~IsVoltage(f)
      BY DEF IsVoltage
    <3>4. Sent' = Sent
      BY <3>1 DEF Sent, PerRound
    <3> HIDE DEF f
    <3> QED BY <2>4, <3>1, <3>2, <3>3, <3>4
  <2>7. CASE Receive
    <3>1. /\ buffer # <<>> /\ buffer' = Tail(buffer)
          /\ UNCHANGED <<source, rounds, unsent>>
      BY <2>7 DEF Receive, plantVars
    <3>2. Sent' = Sent
      BY <3>1 DEF Sent, PerRound
    <3>3. PICK f : f = Head(buffer)
      OBVIOUS
    <3>4. PICK d : d = IF IsVoltage(f) THEN c + 1 ELSE c
      OBVIOUS
    <3>5. \A i \in Cells : voltsOf'[i] \in {Summarised, LastRound(d, i)}
      BY <1>4, <2>1, <2>7, <3>3, <3>4, FrameFolded
    <3>6. d \in 0 .. Sent /\ InOrder(d)'
      BY <1>4, <2>1, <3>1, <3>2, <3>3, <3>4, <3>5, InOrderShrinks
    <3> QED BY <1>1, <3>2, <3>6
  <2>9. ASSUME NEW o \in TempOverrides, UNCHANGED <<source, rounds, unsent, voltsOf>>,
               Arrives([id |-> "0x7F6", min |-> Least({tMin} \cup o), max |-> Greatest({tMax} \cup o)])
        PROVE  Orderly'
    <3> DEFINE f == [id |-> "0x7F6", min |-> Least({tMin} \cup o), max |-> Greatest({tMax} \cup o)]
    <3>1. f \in S /\ ~IsVoltage(f)
      BY RangeFrame, RangeIsFrame
    <3>2. Sent' = Sent
      BY <2>9 DEF Sent, PerRound
    <3>3. Arrives(f) /\ voltsOf' = voltsOf
      BY <2>9
    <3> HIDE DEF f, S
    <3> QED BY <2>4, <3>1, <3>2, <3>3
  <2>10. CASE SendRange
    BY <2>9, <2>10 DEF SendRange, plantVars, sidecarVars
  <2>8. CASE UNCHANGED <<source, rounds, unsent, buffer, lost, volts, temps, voltsOf, tempsOf>>
    <3>1. Sent' = Sent
      BY <2>8 DEF Sent, PerRound
    <3> QED BY <2>2, <2>8, <3>1
  <2> QED BY <2>3, <2>5, <2>6, <2>7, <2>8, <2>10, FrameSteps
<1> QED BY <1>2, <1>3, <1>4 DEF Orderly

\* The sidecar's array never mixes more than two successive rounds, cells that the vECU's range
\* has overwritten apart, unless a frame was lost or a cell read 0 mV.
THEOREM NeverThreeRounds == Spec => []AtMostTwoRounds
<1>1. ASSUME Rounds, InFlight, Orderly PROVE AtMostTwoRounds
  <2> DEFINE held == {voltsOf[i] : i \in Cells} \ {Summarised}
  <2>1. ASSUME NEW c \in 0 .. Sent, InOrder(c), NEW m \in held, NEW n \in held PROVE m - n <= 1
    <3>1. PICK i \in Cells : m = voltsOf[i]
      OBVIOUS
    <3>2. PICK k \in Cells : n = voltsOf[k]
      OBVIOUS
    <3>3. m = LastRound(c, i) /\ n = LastRound(c, k)
      BY <2>1, <3>1, <3>2 DEF InOrder
    <3>4. c \in Nat
      BY <1>1, SentIsNat
    <3> QED BY <3>3, <3>4, LastRoundsClose
  <2> HIDE DEF held
  <2>2. lost > 0 \/ ZeroSent \/ \A m, n \in held : m - n <= 1
    BY <1>1, <2>1 DEF Orderly
  <2>3. AtMostTwoRounds <=>
          \/ lost > 0
          \/ \E n \in DOMAIN rounds, i \in Cells : Cut(rounds[n].volts[i]) = 0
          \/ \A m, n \in held : m - n <= 1
    BY DEF AtMostTwoRounds, Cut, held
  <2> QED BY <2>2, <2>3 DEF ZeroSent
<1> QED BY <1>1, DbInitially, SidecarStarts, OrderlyStarts, RangeStarts, RangeStep, RoundsStep, StepsOfDb,
           DbTypeStep, InFlightStep, OrderlyStep, PTL DEF Spec

=============================================================================
