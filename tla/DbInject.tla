------------------------------- MODULE DbInject -------------------------------
(***************************************************************************)
(* The range of the cell voltages as the vECU reports it on 0x7F4:         *)
(* patch_db_inject.py puts code behind every read of the foxBMS database   *)
(* that widens the MIN_MAX block by the overrides in force and keeps two   *)
(* statics for the probe of the main loop.                                 *)
(*                                                                         *)
(* There is one string.  Of the temperature half of the block, which is    *)
(* the same code with other limits, CellTelemetry has the two statics.     *)
(***************************************************************************)
EXTENDS Integers, FiniteSets

CONSTANTS
  Overridden,      \* cells that have an entry in the override table
  OverrideValues,  \* the int32 values 0x7E0 commands carry
  Invalid          \* the range that foxBMS writes when no cell is valid

Int32Min == -2147483647 - 1
Int32Max == 2147483647
Int16Values == -32768 .. 32767
Plausible   == 1 .. 9999
Ranges      == [min: Int16Values, max: Int16Values]

ASSUME OverrideAssumption == OverrideValues \subseteq Int32Min .. Int32Max
\* The search for the range starts from the ends of int16, or from anything else no cell has.
ASSUME InvalidAssumption ==
  Invalid \in Ranges /\ Invalid.min \notin Plausible /\ Invalid.max \notin Plausible

VARIABLES
  db,         \* the MIN_MAX block in the database
  override,   \* override[c]: {v} when cell c is overridden with v, {} when not
  vMin,       \* posix_sil_cell_v_min
  vMax,       \* posix_sil_cell_v_max
  read        \* the values the last read of the block stands for; before it, what the statics say

dbVars == <<db, override, vMin, vMax, read>>

\* (int16_t)v
Int16(v) == LET w == v % 65536 IN IF w < 32768 THEN w ELSE w - 65536

\* The smaller, and the greater, of what is in a set; the set is never empty.
Least(S)    == CHOOSE x \in S : \A y \in S : x <= y
Greatest(S) == CHOOSE x \in S : \A y \in S : y <= x

DbInit ==
  /\ db = [min |-> 0, max |-> 0]
  /\ override = [c \in Overridden |-> {}]
  /\ vMin = 3700
  /\ vMax = 3700
  /\ read = {3700}

Overrides == UNION {{Int16(v) : v \in override[c]} : c \in Overridden}

\* ov_min and ov_max, when any cell is overridden
LowestOverride  == Least(Overrides)
HighestOverride == Greatest(Overrides)

\* a faulty variant: the overrides replace the block's range instead of widening it
WidenedReplacing ==
  IF Overrides = {} THEN db ELSE [min |-> LowestOverride, max |-> HighestOverride]

\* the block as the reader gets it
Widened ==
  IF Overrides = {} THEN db
  ELSE [min |-> IF LowestOverride < db.min THEN LowestOverride ELSE db.min,
        max |-> IF HighestOverride > db.max THEN HighestOverride ELSE db.max]

\* DATA_READ_DATA of the MIN_MAX block: each static keeps its value when the new one is implausible.
ReadMinMax ==
  /\ vMin' = IF Widened.min \in Plausible THEN Widened.min ELSE vMin
  /\ vMax' = IF Widened.max \in Plausible THEN Widened.max ELSE vMax
  /\ read' = {db.min, db.max} \cup Overrides
  /\ UNCHANGED <<db, override>>

\* sil_process_command for a cell voltage: set
OverrideCell(c, v) ==
  /\ override' = [override EXCEPT ![c] = {v}]
  /\ UNCHANGED <<db, vMin, vMax, read>>

\* sil_process_command for a cell voltage: clear
ReleaseCell(c) ==
  /\ override[c] # {}
  /\ override' = [override EXCEPT ![c] = {}]
  /\ UNCHANGED <<db, vMin, vMax, read>>

\* foxBMS writes a new range; without a valid cell it stays at the values the search starts from.
WriteMinMax(r) ==
  /\ db' = r
  /\ UNCHANGED <<override, vMin, vMax, read>>

\* (uint16_t)(v_max - v_min) in 0x7F4
Delta == (vMax - vMin) % 65536
-----------------------------------------------------------------------------
DbTypeOK ==
  /\ db \in Ranges
  /\ override \in [Overridden -> {{}} \cup {{v} : v \in OverrideValues}]
  /\ vMin \in Plausible
  /\ vMax \in Plausible
  /\ read \in SUBSET Int16Values /\ read # {}

\* The lowest and the highest of what was in the database and in the override table at
\* the last read is what 0x7F4 reports, each side as long as its own value is plausible (an
\* implausible override spoils one side of the report and leaves the other one fresh); and
\* when all of it was plausible, 0x7F4's difference is no less than any two of them differ.
SummaryCovers ==
  /\ \A x \in read : (\A y \in read : x <= y) /\ x \in Plausible => vMin = x
  /\ \A x \in read : (\A y \in read : y <= x) /\ x \in Plausible => vMax = x
  /\ read \subseteq Plausible => \A x, y \in read : x - y <= Delta

=============================================================================
