------------------------------ MODULE PosixRing ------------------------------
(***************************************************************************)
(* The ring buffer that hal_stubs_posix.c writes out three times: for the  *)
(* received CAN frames, for the AFE cell voltages and for the AFE cell     *)
(* temperatures.  head is the slot written next, tail the slot read next;  *)
(* one slot stays free to tell a full ring from an empty one.              *)
(***************************************************************************)
EXTENDS Integers, Sequences

CONSTANTS Size, Items

\* What its users assume of the size (they declare it: PosixQueues).
SizeOK == Size \in Nat /\ Size > 1

Slots == 0 .. Size - 1

Rings == [buf : [Slots -> Items], head : Slots, tail : Slots]

\* Statically zeroed storage: what the slots hold before the first write is some item.
EmptyRing(item) == [buf |-> [s \in Slots |-> item], head |-> 0, tail |-> 0]

Following(s) == (s + 1) % Size

\* A faulty variant: it overlooks that head may have wrapped around.
IsEmptyNoWrap(r) == r.head <= r.tail

IsEmpty(r) == r.head = r.tail

IsFull(r) == Following(r.head) = r.tail

\* A faulty variant: it overruns the tail when the ring is full.
EnqueueOverrun(r, item) ==
  [r EXCEPT !.buf[r.head] = item, !.head = Following(r.head)]

\* A full ring is left alone: the newest item is the one that is dropped.
Enqueue(r, item) ==
  IF IsFull(r) THEN r
  ELSE [r EXCEPT !.buf[r.head] = item, !.head = Following(r.head)]

Front(r) == r.buf[r.tail]

\* Reading advances the tail and leaves the slot as it is.
Dequeue(r) == IF IsEmpty(r) THEN r ELSE [r EXCEPT !.tail = Following(r.tail)]

-----------------------------------------------------------------------------
(* What a ring stands for: the sequence of its items, oldest first.        *)

Occupied(r) == IF r.head >= r.tail THEN r.head - r.tail
                                   ELSE r.head - r.tail + Size

\* The slot k places behind the tail.
SlotAt(r, k) == IF r.tail + k < Size THEN r.tail + k ELSE r.tail + k - Size

Contents(r) == [k \in 1 .. Occupied(r) |-> r.buf[SlotAt(r, k - 1)]]

=============================================================================
