----------------------------- MODULE RingProofs -----------------------------
(***************************************************************************)
(* The ring buffer of the POSIX port is a bounded FIFO queue of Size - 1   *)
(* items, for every size: enqueueing appends unless the queue is full,     *)
(* dequeueing removes the first item, and neither confuses full and empty. *)
(***************************************************************************)
EXTENDS PosixRing, SequenceTheorems, TLAPS

\* The index after the last one is the first one.
LEMMA FollowingSlot ==
  ASSUME SizeOK, NEW s \in Slots
  PROVE  /\ Following(s) \in Slots
         /\ Following(s) = IF s + 1 = Size THEN 0 ELSE s + 1
  <1>1. CASE s + 1 = Size
    <2>1. Size % Size = 0
      BY DEF SizeOK
    <2> QED
      BY <1>1, <2>1 DEF SizeOK, Slots, Following
  <1>2. CASE s + 1 # Size
    <2>1. s + 1 \in 0 .. Size - 1
      BY <1>2 DEF SizeOK, Slots
    <2>2. (s + 1) % Size = s + 1
      BY <2>1 DEF SizeOK
    <2> QED
      BY <1>2, <2>1, <2>2 DEF Slots, Following
  <1> QED
    BY <1>1, <1>2

\* Both operations map rings to rings.
LEMMA EnqueueType ==
  ASSUME SizeOK, NEW r \in Rings, NEW item \in Items
  PROVE  Enqueue(r, item) \in Rings
  <1>1. Following(r.head) \in Slots
    BY FollowingSlot DEF Rings
  <1> QED
    BY <1>1 DEF Enqueue, Rings

LEMMA DequeueType ==
  ASSUME SizeOK, NEW r \in Rings
  PROVE  Dequeue(r) \in Rings
  <1>1. Following(r.tail) \in Slots
    BY FollowingSlot DEF Rings
  <1> QED
    BY <1>1 DEF Dequeue, Rings

\* The full and the empty ring are told apart, and a ring holds Size - 1 items at most.
LEMMA OccupiedBounds ==
  ASSUME SizeOK, NEW r \in Rings
  PROVE  /\ Occupied(r) \in 0 .. Size - 1
         /\ IsEmpty(r) <=> Occupied(r) = 0
         /\ IsFull(r) <=> Occupied(r) = Size - 1
  <1>1. r.head \in 0 .. Size - 1 /\ r.tail \in 0 .. Size - 1
    BY DEF Rings, Slots
  <1>2. Following(r.head) = IF r.head + 1 = Size THEN 0 ELSE r.head + 1
    BY FollowingSlot DEF Rings
  <1>3. Occupied(r) \in 0 .. Size - 1
    BY <1>1 DEF SizeOK, Occupied
  <1>4. IsEmpty(r) <=> Occupied(r) = 0
    BY <1>1 DEF SizeOK, Occupied, IsEmpty
  <1>5. IsFull(r) <=> Occupied(r) = Size - 1
    BY <1>1, <1>2 DEF SizeOK, Occupied, IsFull
  <1> QED
    BY <1>3, <1>4, <1>5

\* The contents are a sequence of items.
LEMMA ContentsType ==
  ASSUME SizeOK, NEW r \in Rings
  PROVE  Contents(r) \in Seq(Items) /\ Len(Contents(r)) = Occupied(r)
  <1>1. r.head \in 0 .. Size - 1 /\ r.tail \in 0 .. Size - 1 /\ Size \in Nat
    BY DEF SizeOK, Rings, Slots
  <1>2. Occupied(r) \in 0 .. Size - 1
    BY OccupiedBounds
  <1>3. ASSUME NEW k \in 1 .. Occupied(r)
        PROVE  SlotAt(r, k - 1) \in Slots
    BY <1>1, <1>2 DEF SlotAt, Occupied, Slots
  <1>4. \A k \in 1 .. Occupied(r) : r.buf[SlotAt(r, k - 1)] \in Items
    BY <1>3 DEF Rings
  <1> QED
    BY <1>2, <1>4 DEF Contents

\* What the standard operators on sequences return, as functions.
LEMMA AppendAsFunction ==
  ASSUME NEW seq \in Seq(Items), NEW item \in Items
  PROVE  Append(seq, item) =
           [k \in 1 .. Len(seq) + 1 |-> IF k = Len(seq) + 1 THEN item ELSE seq[k]]
  <1> DEFINE f == [k \in 1 .. Len(seq) + 1 |-> IF k = Len(seq) + 1 THEN item ELSE seq[k]]
  <1>1. Len(seq) \in Nat
    BY LenProperties
  <1>2. \A k \in 1 .. Len(seq) : seq[k] \in Items
    BY ElementOfSeq
  <1>3. f \in Seq(Items) /\ Len(f) = Len(seq) + 1
    BY <1>1, <1>2
  <1>4. /\ Append(seq, item) \in Seq(Items)
        /\ Len(Append(seq, item)) = Len(seq) + 1
        /\ \A k \in 1 .. Len(seq) : Append(seq, item)[k] = seq[k]
        /\ Append(seq, item)[Len(seq) + 1] = item
    BY AppendProperties
  <1>5. \A k \in 1 .. Len(f) : Append(seq, item)[k] = f[k]
    BY <1>1, <1>3, <1>4
  <1> HIDE DEF f
  <1>6. Append(seq, item) = f
    BY <1>3, <1>4, <1>5, SeqEqual
  <1> QED
    BY <1>6 DEF f

LEMMA TailAsFunction ==
  ASSUME NEW seq \in Seq(Items), seq # << >>
  PROVE  Tail(seq) = [k \in 1 .. Len(seq) - 1 |-> seq[k + 1]]
  <1> DEFINE f == [k \in 1 .. Len(seq) - 1 |-> seq[k + 1]]
  <1>1. Len(seq) \in Nat \ {0}
    BY EmptySeq
  <1>2. \A k \in 1 .. Len(seq) - 1 : k + 1 \in 1 .. Len(seq) /\ seq[k + 1] \in Items
    BY <1>1, ElementOfSeq
  <1>3. f \in Seq(Items) /\ Len(f) = Len(seq) - 1
    BY <1>1, <1>2
  <1>4. /\ Tail(seq) \in Seq(Items)
        /\ Len(Tail(seq)) = Len(seq) - 1
        /\ \A k \in 1 .. Len(Tail(seq)) : Tail(seq)[k] = seq[k + 1]
    BY HeadTailProperties
  <1>5. \A k \in 1 .. Len(f) : Tail(seq)[k] = f[k]
    BY <1>3, <1>4
  <1> HIDE DEF f
  <1>6. Tail(seq) = f
    BY <1>3, <1>4, <1>5, SeqEqual
  <1> QED
    BY <1>6 DEF f

\* A ring that is not full grows by the new item, at the end, and keeps the others.
THEOREM EnqueueAppends ==
  ASSUME SizeOK, NEW r \in Rings, NEW item \in Items, ~IsFull(r)
  PROVE  Contents(Enqueue(r, item)) = Append(Contents(r), item)
  <1> DEFINE q == Enqueue(r, item)
             n == Occupied(r)
  <1>1. r.head \in 0 .. Size - 1 /\ r.tail \in 0 .. Size - 1 /\ Size \in Nat
    BY DEF SizeOK, Rings, Slots
  <1>2. Following(r.head) = IF r.head + 1 = Size THEN 0 ELSE r.head + 1
    BY FollowingSlot DEF Rings
  <1>3. n \in 0 .. Size - 2
    BY <1>1, OccupiedBounds DEF SizeOK
  <1>4. /\ q.buf = [r.buf EXCEPT ![r.head] = item]
        /\ q.head = Following(r.head)
        /\ q.tail = r.tail
    BY DEF Enqueue, Rings
  <1>5. Occupied(q) = n + 1
    BY <1>1, <1>2, <1>3, <1>4 DEF Occupied
  <1>6. SlotAt(r, n) = r.head
    BY <1>1 DEF SlotAt, Occupied
  <1>7. ASSUME NEW k \in 1 .. n
        PROVE  SlotAt(r, k - 1) \in Slots /\ SlotAt(r, k - 1) # r.head
    BY <1>1, <1>3 DEF SlotAt, Occupied, Slots
  <1>8. \A k \in Int : SlotAt(q, k) = SlotAt(r, k)
    BY <1>4 DEF SlotAt
  <1>9. ASSUME NEW k \in 1 .. n + 1
        PROVE  q.buf[SlotAt(q, k - 1)] = IF k = n + 1 THEN item ELSE Contents(r)[k]
    <2>1. CASE k = n + 1
      <3>1. SlotAt(q, k - 1) = r.head
        BY <1>3, <1>6, <1>8, <2>1
      <3> QED
        BY <1>4, <2>1, <3>1 DEF Rings
    <2>2. CASE k # n + 1
      <3>1. k \in 1 .. n
        BY <1>3, <2>2
      <3>2. q.buf[SlotAt(q, k - 1)] = r.buf[SlotAt(r, k - 1)]
        BY <1>4, <1>7, <1>8, <3>1 DEF Rings
      <3> QED
        BY <2>2, <3>1, <3>2 DEF Contents
    <2> QED
      BY <2>1, <2>2
  <1>10. Contents(q) = [k \in 1 .. n + 1 |-> IF k = n + 1 THEN item ELSE Contents(r)[k]]
    BY <1>5, <1>9 DEF Contents
  <1>11. Contents(r) \in Seq(Items) /\ Len(Contents(r)) = n
    BY ContentsType
  <1> QED
    BY <1>3, <1>10, <1>11, AppendAsFunction

\* Reading a ring that is not empty returns its first item and removes only that.
THEOREM DequeueRemovesFirst ==
  ASSUME SizeOK, NEW r \in Rings, ~IsEmpty(r)
  PROVE  /\ Front(r) = Head(Contents(r))
         /\ Contents(Dequeue(r)) = Tail(Contents(r))
  <1> DEFINE q == Dequeue(r)
             n == Occupied(r)
  <1>1. r.head \in 0 .. Size - 1 /\ r.tail \in 0 .. Size - 1 /\ Size \in Nat
    BY DEF SizeOK, Rings, Slots
  <1>2. Following(r.tail) = IF r.tail + 1 = Size THEN 0 ELSE r.tail + 1
    BY FollowingSlot DEF Rings
  <1>3. n \in 1 .. Size - 1
    BY <1>1, OccupiedBounds DEF SizeOK
  <1>4. q.buf = r.buf /\ q.head = r.head /\ q.tail = Following(r.tail)
    BY DEF Dequeue, Rings
  <1>5. Occupied(q) = n - 1
    BY <1>1, <1>2, <1>3, <1>4 DEF Occupied
  <1>6. ASSUME NEW k \in 1 .. n - 1
        PROVE  SlotAt(q, k - 1) = SlotAt(r, k)
    BY <1>1, <1>2, <1>3, <1>4 DEF SlotAt, Occupied
  <1>7. Contents(r) \in Seq(Items) /\ Len(Contents(r)) = n
    BY ContentsType
  <1>8. Contents(q) = [k \in 1 .. n - 1 |-> Contents(r)[k + 1]]
    <2>1. ASSUME NEW k \in 1 .. n - 1
          PROVE  q.buf[SlotAt(q, k - 1)] = Contents(r)[k + 1]
      <3>1. k + 1 \in 1 .. n /\ k + 1 - 1 = k
        BY <1>3
      <3> QED
        BY <1>4, <1>6, <3>1 DEF Contents
    <2> QED
      BY <1>5, <2>1 DEF Contents
  <1>9. Tail(Contents(r)) = [k \in 1 .. n - 1 |-> Contents(r)[k + 1]]
    <2>1. Contents(r) # << >>
      BY <1>3, <1>7
    <2> QED
      BY <1>7, <2>1, TailAsFunction
  <1>10. Head(Contents(r)) = r.buf[r.tail]
    <2>1. Head(Contents(r)) = Contents(r)[1]
      BY <1>3, <1>7
    <2>2. SlotAt(r, 0) = r.tail
      BY <1>1 DEF SlotAt
    <2> QED
      BY <1>3, <2>1, <2>2 DEF Contents
  <1> QED
    BY <1>8, <1>9, <1>10 DEF Front

=============================================================================
