----------------------------- MODULE SignalCodec -----------------------------
(***************************************************************************)
(* foxBMS signals in CAN frames, as plant_model.py, plant_model_replay.py  *)
(* and ml_sidecar.py place them.                                           *)
(*                                                                         *)
(* A frame's 64 bits, and the number in a signal, are sets: the positions  *)
(* of the one-bits of a Python int.  Bit 63 of a frame is the first bit on *)
(* the wire.                                                               *)
(***************************************************************************)
EXTENDS Integers

\* CAN_BIG_ENDIAN_TABLE[s]: bytes are counted from the front, bits within one from the back
BigEndian(s) == 56 - 8 * (s \div 8) + (s % 8)

Lsb(start, len)   == BigEndian(start) - (len - 1)
Field(start, len) == Lsb(start, len) .. BigEndian(start)

\* a faulty variant: old bits are not masked out, and the value's excess bits neither
EncodeSignalUnmasked(m, start, len, v) == m \cup {Lsb(start, len) + k : k \in v}

\* foxbms_encode_signal: the field is cleared, then the value's lower bits are put there
EncodeSignal(m, start, len, v) ==
  (m \ Field(start, len)) \cup {Lsb(start, len) + k : k \in v \cap 0 .. len - 1}

\* _fox_decode
DecodeSignal(m, start, len) == {k \in 0 .. len - 1 : Lsb(start, len) + k \in m}

\* data[b] of the eight bytes struct.pack(">Q") makes of the frame
Byte(m, b) == {k \in 0 .. 7 : 8 * (7 - b) + k \in m}

Set == {0}   \* the one-bit number 1, a "valid" flag

\* 0x270: multiplexer, four flags, four voltages of 13 bits
VoltageFrame(mux, v0, v1, v2, v3) ==
  LET m0 == EncodeSignal({}, 7, 8, mux)
      m1 == EncodeSignal(m0, 12, 1, Set)
      m2 == EncodeSignal(m1, 13, 1, Set)
      m3 == EncodeSignal(m2, 14, 1, Set)
      m4 == EncodeSignal(m3, 15, 1, Set)
      m5 == EncodeSignal(m4, 11, 13, v0)
      m6 == EncodeSignal(m5, 30, 13, v1)
      m7 == EncodeSignal(m6, 33, 13, v2)
  IN  EncodeSignal(m7, 52, 13, v3)

\* The same layout is what the sidecar decodes.
MuxOf(m) == DecodeSignal(m, 7, 8)
VoltageOf(m, j) == DecodeSignal(m, <<11, 30, 33, 52>>[j + 1], 13)

\* 0x280 of the plant: multiplexer, six flags (the first n set), six bytes of degrees
TemperatureFrame(mux, t, n) ==
  LET flag(i) == IF i < n THEN Set ELSE {}
      m0 == EncodeSignal({}, 7, 8, mux)
      m1 == EncodeSignal(EncodeSignal(m0, 8, 1, flag(0)), 9, 1, flag(1))
      m2 == EncodeSignal(EncodeSignal(m1, 10, 1, flag(2)), 11, 1, flag(3))
      m3 == EncodeSignal(EncodeSignal(m2, 12, 1, flag(4)), 13, 1, flag(5))
      m4 == EncodeSignal(EncodeSignal(m3, 23, 8, t[0]), 31, 8, t[1])
      m5 == EncodeSignal(EncodeSignal(m4, 39, 8, t[2]), 47, 8, t[3])
  IN  EncodeSignal(EncodeSignal(m5, 55, 8, t[4]), 63, 8, t[5])

\* 0x280 of the trip replay: three values of 13 bits where 0x270 has its first three
ReplayTemperatureFrame(mux, t0, t1, t2) ==
  LET m0 == EncodeSignal({}, 7, 8, mux)
      m1 == EncodeSignal(EncodeSignal(m0, 12, 1, Set), 13, 1, Set)
      m2 == EncodeSignal(EncodeSignal(m1, 14, 1, Set), 11, 13, t0)
  IN  EncodeSignal(EncodeSignal(m2, 30, 13, t1), 33, 13, t2)

=============================================================================
