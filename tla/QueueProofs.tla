----------------------------- MODULE QueueProofs -----------------------------
(***************************************************************************)
(* The queues of the vECU in every interleaving of the bus, the read loop  *)
(* and the tasks, for all ring sizes and every number of frames: all rings *)
(* are bounded FIFOs, every frame is accounted for, order is kept into the *)
(* measurements, and SIL commands take effect before any later frame.      *)
(* What the ring operators do is taken from RingProofs.                    *)
(***************************************************************************)
EXTENDS PosixQueues, SequenceTheorems, FiniteSetTheorems, TLAPS

Ring == INSTANCE RingProofs WITH Size <- RxSize, Items <- Frames

\* The instance of the ring the model uses is the one the lemmas are about.
LEMMA SameRing ==
  /\ Rx!Rings = Ring!Rings
  /\ \A r \in Rx!Rings :
       /\ Rx!IsFull(r) = Ring!IsFull(r)
       /\ Rx!IsEmpty(r) = Ring!IsEmpty(r)
       /\ Rx!Occupied(r) = Ring!Occupied(r)
       /\ Rx!Contents(r) = Ring!Contents(r)
       /\ Rx!Dequeue(r) = Ring!Dequeue(r)
       /\ Rx!Front(r) = Ring!Front(r)
       /\ \A f \in Frames : Rx!Enqueue(r, f) = Ring!Enqueue(r, f)
  BY DEF Rx!Rings, Ring!Rings, Rx!Slots, Ring!Slots, Rx!IsFull, Ring!IsFull,
         Rx!IsEmpty, Ring!IsEmpty, Rx!Occupied, Ring!Occupied, Rx!Contents,
         Ring!Contents, Rx!SlotAt, Ring!SlotAt, Rx!Dequeue, Ring!Dequeue,
         Rx!Front, Ring!Front, Rx!Enqueue, Ring!Enqueue, Rx!Following, Ring!Following

LEMMA RingSizeOK == Ring!SizeOK
  BY QueuesAssumption DEF Ring!SizeOK

\* The facts of RingProofs, for the RX ring.
LEMMA RxRing ==
  ASSUME NEW r \in Rx!Rings
  PROVE  /\ Rx!Contents(r) \in Seq(Frames)
         /\ Len(Rx!Contents(r)) \in 0 .. RxSize - 1
         /\ Rx!IsFull(r) <=> Len(Rx!Contents(r)) = RxSize - 1
         /\ Rx!IsEmpty(r) <=> Len(Rx!Contents(r)) = 0
         /\ Rx!Dequeue(r) \in Rx!Rings
         /\ ~Rx!IsEmpty(r) => /\ Rx!Front(r) \in Frames
                              /\ Rx!Contents(Rx!Dequeue(r)) = Tail(Rx!Contents(r))
         /\ \A f \in Frames :
              /\ Rx!Enqueue(r, f) \in Rx!Rings
              /\ ~Rx!IsFull(r) =>
                   Rx!Contents(Rx!Enqueue(r, f)) = Append(Rx!Contents(r), f)
  <1>1. Ring!SizeOK /\ r \in Ring!Rings
    BY SameRing, RingSizeOK
  <1>2. /\ Ring!Occupied(r) \in 0 .. RxSize - 1
        /\ Ring!IsEmpty(r) <=> Ring!Occupied(r) = 0
        /\ Ring!IsFull(r) <=> Ring!Occupied(r) = RxSize - 1
    BY <1>1, Ring!OccupiedBounds
  <1>3. Ring!Contents(r) \in Seq(Frames) /\ Len(Ring!Contents(r)) = Ring!Occupied(r)
    BY <1>1, Ring!ContentsType
  <1>4. Ring!Dequeue(r) \in Ring!Rings
    BY <1>1, Ring!DequeueType
  <1>5. \A f \in Frames : Ring!Enqueue(r, f) \in Ring!Rings
    BY <1>1, Ring!EnqueueType
  <1>6. ASSUME ~Ring!IsEmpty(r)
        PROVE  Ring!Contents(Ring!Dequeue(r)) = Tail(Ring!Contents(r))
    BY <1>1, <1>6, Ring!DequeueRemovesFirst
  <1>7. ASSUME NEW f \in Frames, ~Ring!IsFull(r)
        PROVE  Ring!Contents(Ring!Enqueue(r, f)) = Append(Ring!Contents(r), f)
    BY <1>1, <1>7, Ring!EnqueueAppends
  <1>8. Rx!Front(r) \in Frames
    BY DEF Rx!Front, Rx!Rings
  <1>9. /\ Rx!IsFull(r) = Ring!IsFull(r) /\ Rx!IsEmpty(r) = Ring!IsEmpty(r)
        /\ Rx!Contents(r) = Ring!Contents(r)
        /\ Rx!Dequeue(r) = Ring!Dequeue(r)
        /\ \A f \in Frames : Rx!Enqueue(r, f) = Ring!Enqueue(r, f)
        /\ Rx!Rings = Ring!Rings
    BY SameRing
  <1>10. Rx!Contents(Rx!Dequeue(r)) = Ring!Contents(Ring!Dequeue(r))
    BY <1>4, <1>9, SameRing
  <1>11. \A f \in Frames :
           Rx!Contents(Rx!Enqueue(r, f)) = Ring!Contents(Ring!Enqueue(r, f))
    BY <1>5, <1>9, SameRing
  <1> QED
    BY <1>2, <1>3, <1>4, <1>5, <1>6, <1>7, <1>8, <1>9, <1>10, <1>11

-----------------------------------------------------------------------------
(* The invariant: what travels through socket and ring are frames.          *)

TravelOK ==
  /\ bus \in Seq(Kinds) /\ Len(bus) <= MaxFrames
  /\ socket \in Seq(Frames)
  /\ rx \in Rx!Rings
  /\ overflow \in Nat

LEMMA ZeroedIsFrame == Zeroed \in Frames
  BY QueuesAssumption DEF Zeroed, Frames, Kinds, AppKinds

LEMMA TravelInit == Init => TravelOK /\ Rx!Contents(rx) = << >>
  <1> SUFFICES ASSUME Init PROVE TravelOK /\ Rx!Contents(rx) = << >>
    OBVIOUS
  <1>1. rx \in Rx!Rings
    BY ZeroedIsFrame, QueuesAssumption DEF Init, Rx!EmptyRing, Rx!Rings, Rx!Slots
  <1>2. Rx!IsEmpty(rx)
    BY DEF Init, Rx!EmptyRing, Rx!IsEmpty
  <1>3. Rx!Contents(rx) = << >>
    BY <1>1, <1>2, RxRing, EmptySeq
  <1> QED
    BY <1>1, <1>3, QueuesAssumption DEF Init, TravelOK

\* Reading one frame: an application frame is put into the queue or lost.
LEMMA TravelRead ==
  ASSUME TravelOK, ReadFrame
  PROVE  TravelOK' /\ (RxFifo!Next \/ UNCHANGED RxFifo!fifoVars)
  <1> DEFINE frame == Head(socket)
  <1>1. frame \in Frames /\ Tail(socket) \in Seq(Frames)
    BY HeadTailProperties DEF TravelOK, ReadFrame
  <1>2. bus' = bus /\ socket' = Tail(socket)
    BY DEF ReadFrame
  <1>3. CASE UNCHANGED <<rx, overflow>>
    BY <1>1, <1>2, <1>3 DEF TravelOK, RxFifo!fifoVars
  <1>4. CASE RxInject(frame) /\ Rx!IsFull(rx)
    <2>1. rx' = rx /\ overflow' = overflow + 1
      BY <1>4 DEF RxInject, Rx!Enqueue
    <2>2. RxFifo!Lose
      BY <1>4, <2>1, RxRing DEF RxFifo!Lose, TravelOK
    <2> QED
      BY <1>1, <1>2, <2>1, <2>2 DEF TravelOK, RxFifo!Next
  <1>5. CASE RxInject(frame) /\ ~Rx!IsFull(rx)
    <2>1. rx' = Rx!Enqueue(rx, frame) /\ overflow' = overflow
      BY <1>5 DEF RxInject
    <2>2. rx' \in Rx!Rings /\ Rx!Contents(rx') = Append(Rx!Contents(rx), frame)
      BY <1>1, <1>5, <2>1, RxRing DEF TravelOK
    <2>3. Len(Rx!Contents(rx)) < RxSize - 1
      BY <1>5, RxRing, QueuesAssumption DEF TravelOK
    <2>4. RxFifo!Put(frame)
      BY <2>1, <2>2, <2>3 DEF RxFifo!Put
    <2> QED
      BY <1>1, <1>2, <2>1, <2>2, <2>4 DEF TravelOK, RxFifo!Next
  <1> QED
    BY <1>3, <1>4, <1>5 DEF ReadFrame

\* Delivering one frame to the application is reading the queue's first item.
LEMMA TravelReceive ==
  ASSUME TravelOK, ReceiveCanRx
  PROVE  TravelOK' /\ RxFifo!Next
  <1>1. rx' = Rx!Dequeue(rx) /\ ~Rx!IsEmpty(rx) /\ UNCHANGED <<bus, socket, overflow>>
    BY DEF ReceiveCanRx
  <1>2. rx' \in Rx!Rings /\ Rx!Contents(rx') = Tail(Rx!Contents(rx))
    BY <1>1, RxRing DEF TravelOK
  <1>3. Rx!Contents(rx) # << >>
    BY <1>1, RxRing, EmptySeq DEF TravelOK
  <1>4. RxFifo!Get
    BY <1>1, <1>2, <1>3 DEF RxFifo!Get
  <1> QED
    BY <1>1, <1>2, <1>4 DEF TravelOK, RxFifo!Next

\* The bus only appends frames to the socket.
LEMMA TravelBus ==
  ASSUME TravelOK, NEW kind \in Kinds, BusDelivers(kind)
  PROVE  TravelOK' /\ UNCHANGED RxFifo!fifoVars
  <1>1. /\ Len(bus) < MaxFrames
        /\ bus' = Append(bus, kind)
        /\ socket' = Append(socket, [kind |-> kind, n |-> Len(bus) + 1])
        /\ UNCHANGED <<rx, overflow>>
    BY DEF BusDelivers
  <1>2. Len(bus) \in Nat
    BY LenProperties DEF TravelOK
  <1>3. [kind |-> kind, n |-> Len(bus) + 1] \in Frames
    BY <1>1, <1>2, QueuesAssumption DEF Frames
  <1>4. bus' \in Seq(Kinds) /\ Len(bus') <= MaxFrames
    BY <1>1, <1>2, AppendProperties, QueuesAssumption DEF TravelOK
  <1>5. socket' \in Seq(Frames)
    BY <1>1, <1>3, AppendProperties DEF TravelOK
  <1> QED
    BY <1>1, <1>4, <1>5 DEF TravelOK, RxFifo!fifoVars

LEMMA TravelStep ==
  TravelOK /\ [Next]_vars => TravelOK' /\ [RxFifo!Next]_RxFifo!fifoVars
  <1> SUFFICES ASSUME TravelOK, [Next]_vars
               PROVE  TravelOK' /\ (RxFifo!Next \/ UNCHANGED RxFifo!fifoVars)
    OBVIOUS
  <1>1. ASSUME NEW kind \in Kinds, BusDelivers(kind)
        PROVE  TravelOK' /\ UNCHANGED RxFifo!fifoVars
    BY <1>1, TravelBus
  <1>2. CASE ReadFrame
    BY <1>2, TravelRead
  <1>3. CASE ReceiveCanRx
    BY <1>3, TravelReceive
  <1>4. CASE UNCHANGED <<bus, socket, rx, overflow>>
    BY <1>4 DEF TravelOK, RxFifo!fifoVars
  <1>5. SocketDrained \/ NotDueYet \/ Start1ms \/ CanRxEmpty \/ MeasureVoltage
          \/ MeasureTemperature \/ MeasureDone \/ UNCHANGED vars
          => UNCHANGED <<bus, socket, rx, overflow>>
    BY DEF SocketDrained, NotDueYet, Start1ms, CanRxEmpty, MeasureVoltage,
           MeasureTemperature, MeasureDone, vars
  <1> QED
    BY <1>1, <1>2, <1>3, <1>4, <1>5 DEF Next, Loop

\* For every ring size: what posix_can_rx_inject and OS_ReceiveFromQueue do to the RX
\* ring is what a bounded FIFO of RxSize - 1 frames does, drops and their count included.
THEOREM RxRingIsFifo == Spec => RxIsFifo
  <1>1. Init => RxFifo!Init
    BY TravelInit DEF Init, RxFifo!Init
  <1>2. Init => TravelOK
    BY TravelInit
  <1>3. Spec => RxFifo!Spec
    BY <1>1, <1>2, TravelStep, PTL DEF Spec, RxFifo!Spec
  <1> QED
    BY <1>3 DEF RxIsFifo

-----------------------------------------------------------------------------
(* The way through all queues.  First the ring operators once more, for the *)
(* AFE rings, and what the lemma above leaves out for the RX ring.          *)

AfeR == INSTANCE RingProofs WITH Size <- AfeSize, Items <- Frames

LEMMA SameAfeRing ==
  /\ Afe!Rings = AfeR!Rings
  /\ \A r \in Afe!Rings :
       /\ Afe!IsFull(r) = AfeR!IsFull(r)
       /\ Afe!IsEmpty(r) = AfeR!IsEmpty(r)
       /\ Afe!Occupied(r) = AfeR!Occupied(r)
       /\ Afe!Contents(r) = AfeR!Contents(r)
       /\ Afe!Dequeue(r) = AfeR!Dequeue(r)
       /\ Afe!Front(r) = AfeR!Front(r)
       /\ \A f \in Frames : Afe!Enqueue(r, f) = AfeR!Enqueue(r, f)
  BY DEF Afe!Rings, AfeR!Rings, Afe!Slots, AfeR!Slots, Afe!IsFull, AfeR!IsFull,
         Afe!IsEmpty, AfeR!IsEmpty, Afe!Occupied, AfeR!Occupied, Afe!Contents,
         AfeR!Contents, Afe!SlotAt, AfeR!SlotAt, Afe!Dequeue, AfeR!Dequeue,
         Afe!Front, AfeR!Front, Afe!Enqueue, AfeR!Enqueue, Afe!Following, AfeR!Following

LEMMA AfeRing ==
  ASSUME NEW r \in Afe!Rings
  PROVE  /\ Afe!Contents(r) \in Seq(Frames)
         /\ Afe!IsEmpty(r) <=> Afe!Contents(r) = << >>
         /\ Afe!Dequeue(r) \in Afe!Rings
         /\ ~Afe!IsEmpty(r) => /\ Afe!Front(r) = Head(Afe!Contents(r))
                               /\ Afe!Contents(Afe!Dequeue(r)) = Tail(Afe!Contents(r))
         /\ \A f \in Frames :
              /\ Afe!Enqueue(r, f) \in Afe!Rings
              /\ Afe!Contents(Afe!Enqueue(r, f)) \in
                   {Afe!Contents(r), Append(Afe!Contents(r), f)}
  <1>1. AfeR!SizeOK /\ r \in AfeR!Rings
    BY SameAfeRing, QueuesAssumption DEF AfeR!SizeOK
  <1>2. AfeR!IsEmpty(r) <=> AfeR!Occupied(r) = 0
    BY <1>1, AfeR!OccupiedBounds
  <1>3. AfeR!Contents(r) \in Seq(Frames) /\ Len(AfeR!Contents(r)) = AfeR!Occupied(r)
    BY <1>1, AfeR!ContentsType
  <1>4. AfeR!Dequeue(r) \in AfeR!Rings
    BY <1>1, AfeR!DequeueType
  <1>5. \A f \in Frames : AfeR!Enqueue(r, f) \in AfeR!Rings
    BY <1>1, AfeR!EnqueueType
  <1>6. ASSUME ~AfeR!IsEmpty(r)
        PROVE  /\ AfeR!Front(r) = Head(AfeR!Contents(r))
               /\ AfeR!Contents(AfeR!Dequeue(r)) = Tail(AfeR!Contents(r))
    BY <1>1, <1>6, AfeR!DequeueRemovesFirst
  <1>7. ASSUME NEW f \in Frames, ~AfeR!IsFull(r)
        PROVE  AfeR!Contents(AfeR!Enqueue(r, f)) = Append(AfeR!Contents(r), f)
    BY <1>1, <1>7, AfeR!EnqueueAppends
  <1>8. ASSUME NEW f \in Frames, AfeR!IsFull(r)
        PROVE  AfeR!Contents(AfeR!Enqueue(r, f)) = AfeR!Contents(r)
    BY <1>8 DEF AfeR!Enqueue
  <1>9. /\ Afe!IsEmpty(r) = AfeR!IsEmpty(r) /\ Afe!Front(r) = AfeR!Front(r)
        /\ Afe!Contents(r) = AfeR!Contents(r)
        /\ Afe!Dequeue(r) = AfeR!Dequeue(r)
        /\ \A f \in Frames : Afe!Enqueue(r, f) = AfeR!Enqueue(r, f)
        /\ Afe!Rings = AfeR!Rings
    BY SameAfeRing
  <1>10. Afe!Contents(Afe!Dequeue(r)) = AfeR!Contents(AfeR!Dequeue(r))
    BY <1>4, <1>9, SameAfeRing
  <1>11. \A f \in Frames :
           Afe!Contents(Afe!Enqueue(r, f)) = AfeR!Contents(AfeR!Enqueue(r, f))
    BY <1>5, <1>9, SameAfeRing
  <1>12. AfeR!Occupied(r) = 0 <=> AfeR!Contents(r) = << >>
    BY <1>3, EmptySeq
  <1> QED
    BY <1>2, <1>3, <1>4, <1>5, <1>6, <1>7, <1>8, <1>9, <1>10, <1>11, <1>12

LEMMA RxFront ==
  ASSUME NEW r \in Rx!Rings
  PROVE  /\ Rx!Occupied(r) = Len(Rx!Contents(r))
         /\ ~Rx!IsEmpty(r) => /\ Rx!Front(r) = Head(Rx!Contents(r))
                              /\ Rx!Contents(r) # << >>
         /\ \A f \in Frames : Rx!IsFull(r) => Rx!Enqueue(r, f) = r
  <1>1. Ring!SizeOK /\ r \in Ring!Rings
    BY SameRing, RingSizeOK
  <1>2. Len(Ring!Contents(r)) = Ring!Occupied(r)
    BY <1>1, Ring!ContentsType
  <1>3. ~Ring!IsEmpty(r) => Ring!Front(r) = Head(Ring!Contents(r))
    BY <1>1, Ring!DequeueRemovesFirst
  <1>4. ~Rx!IsEmpty(r) => Rx!Contents(r) # << >>
    BY RxRing, EmptySeq
  <1>5. \A f \in Frames : Rx!IsFull(r) => Rx!Enqueue(r, f) = r
    BY DEF Rx!Enqueue
  <1> QED
    BY <1>1, <1>2, <1>3, <1>4, <1>5, SameRing

-----------------------------------------------------------------------------
(* Order among sequences of frames.                                         *)

\* No frame of s is newer than n.
UpTo(s, n) == \A i \in 1 .. Len(s) : s[i].n <= n

\* Every frame of s is a frame of t.
From(s, t) == \A i \in 1 .. Len(s) : \E j \in 1 .. Len(t) : s[i] = t[j]

LEMMA Numbers == \A f \in Frames : f.n \in 1 .. MaxFrames /\ f.n \in Nat /\ f.kind \in Kinds
  BY QueuesAssumption DEF Frames

LEMMA AppendIs ==
  ASSUME NEW s \in Seq(Frames), NEW f \in Frames
  PROVE  /\ Append(s, f) \in Seq(Frames) /\ Len(s) \in Nat
         /\ Len(Append(s, f)) = Len(s) + 1
         /\ \A i \in 1 .. Len(s) : Append(s, f)[i] = s[i] /\ s[i] \in Frames
         /\ Append(s, f)[Len(s) + 1] = f
  BY AppendProperties, LenProperties, ElementOfSeq

LEMMA TailIs ==
  ASSUME NEW s \in Seq(Frames), s # << >>
  PROVE  /\ Tail(s) \in Seq(Frames) /\ Len(s) \in Nat \ {0}
         /\ Len(Tail(s)) = Len(s) - 1
         /\ \A i \in 1 .. Len(s) - 1 : Tail(s)[i] = s[i + 1]
         /\ \A i \in 1 .. Len(s) : s[i] \in Frames
         /\ Head(s) = s[1] /\ Head(s) \in Frames
  BY HeadTailProperties, EmptySeq, ElementOfSeq

LEMMA UpToAppend ==
  ASSUME NEW s \in Seq(Frames), NEW f \in Frames, NEW n \in Nat, NEW m \in Nat,
         UpTo(s, n), n <= m, f.n <= m
  PROVE  UpTo(Append(s, f), m) /\ UpTo(s, m)
  <1> USE DEF UpTo
  <1>1. \A i \in 1 .. Len(s) : s[i].n \in Nat
    BY AppendIs, Numbers
  <1> QED
    BY <1>1, AppendIs, Numbers

LEMMA IncreasingAppend ==
  ASSUME NEW s \in Seq(Frames), NEW f \in Frames, Increasing(s),
         \A i \in 1 .. Len(s) : s[i].n < f.n
  PROVE  Increasing(Append(s, f))
  <1> DEFINE a == Append(s, f)
  <1> SUFFICES ASSUME NEW i \in 1 .. Len(a), NEW j \in 1 .. Len(a), i < j
               PROVE  a[i].n < a[j].n
    BY DEF Increasing
  <1>1. i \in 1 .. Len(s) /\ (j \in 1 .. Len(s) \/ j = Len(s) + 1)
    BY AppendIs
  <1>2. a[i] = s[i] /\ (j \in 1 .. Len(s) => a[j] = s[j]) /\ a[Len(s) + 1] = f
    BY <1>1, AppendIs
  <1> QED
    BY <1>1, <1>2 DEF Increasing

LEMMA IncreasingTail ==
  ASSUME NEW s \in Seq(Frames), s # << >>, Increasing(s)
  PROVE  /\ Increasing(Tail(s))
         /\ \A i \in 1 .. Len(Tail(s)) : Head(s).n < Tail(s)[i].n
  <1>1. \A i \in 1 .. Len(Tail(s)) :
          i + 1 \in 1 .. Len(s) /\ 1 < i + 1 /\ Tail(s)[i] = s[i + 1] /\ Head(s) = s[1]
    BY TailIs
  <1>2. \A i, j \in 1 .. Len(Tail(s)) : i < j => i + 1 < j + 1
    OBVIOUS
  <1>3. 1 \in 1 .. Len(s)
    BY TailIs
  <1> QED
    BY <1>1, <1>2, <1>3 DEF Increasing

\* A frame enters the RX ring: it is newer than all that were read before.
LEMMA RxGrows ==
  ASSUME NEW d \in Seq(Frames), NEW c \in Seq(Frames), NEW f \in Frames, NEW n \in Nat,
         Increasing(c), Precede(d, c), UpTo(d, n), UpTo(c, n), f.n = n + 1
  PROVE  Increasing(Append(c, f)) /\ Precede(d, Append(c, f)) /\ UpTo(Append(c, f), n + 1)
  <1>1. \A i \in 1 .. Len(c) : c[i].n < f.n
    BY AppendIs, Numbers DEF UpTo
  <1>2. \A i \in 1 .. Len(d) : d[i].n < f.n
    BY AppendIs, Numbers DEF UpTo
  <1>3. Precede(d, Append(c, f))
    <2> SUFFICES ASSUME NEW i \in 1 .. Len(d), NEW j \in 1 .. Len(Append(c, f))
                 PROVE  d[i].n < Append(c, f)[j].n
      BY DEF Precede
    <2>1. j \in 1 .. Len(c) \/ j = Len(c) + 1
      BY AppendIs
    <2> QED
      BY <1>2, <2>1, AppendIs DEF Precede
  <1> QED
    BY <1>1, <1>3, IncreasingAppend, UpToAppend

\* The oldest frame of the ring becomes the newest one delivered.
LEMMA RxMoves ==
  ASSUME NEW d \in Seq(Frames), NEW c \in Seq(Frames), c # << >>, NEW n \in Nat,
         Increasing(d), Increasing(c), Precede(d, c), UpTo(d, n), UpTo(c, n)
  PROVE  /\ Increasing(Append(d, Head(c))) /\ Increasing(Tail(c))
         /\ Precede(Append(d, Head(c)), Tail(c))
         /\ UpTo(Append(d, Head(c)), n) /\ UpTo(Tail(c), n)
         /\ \A i \in 1 .. Len(d) : d[i].n < Head(c).n
  <1>1. /\ Tail(c) \in Seq(Frames) /\ Len(c) \in Nat \ {0} /\ Len(Tail(c)) = Len(c) - 1
        /\ Head(c) = c[1] /\ Head(c) \in Frames
        /\ \A i \in 1 .. Len(c) - 1 : Tail(c)[i] = c[i + 1]
    BY TailIs
  <1>2. \A i \in 1 .. Len(d) : d[i].n < Head(c).n
    BY <1>1 DEF Precede
  <1>3. Increasing(Tail(c)) /\ \A i \in 1 .. Len(Tail(c)) : Head(c).n < Tail(c)[i].n
    BY IncreasingTail
  <1>4. Head(c).n <= n
    BY <1>1 DEF UpTo
  <1>5. UpTo(Tail(c), n)
    BY <1>1 DEF UpTo
  <1>6. Precede(Append(d, Head(c)), Tail(c))
    <2> SUFFICES ASSUME NEW i \in 1 .. Len(Append(d, Head(c))), NEW j \in 1 .. Len(Tail(c))
                 PROVE  Append(d, Head(c))[i].n < Tail(c)[j].n
      BY DEF Precede
    <2>1. i \in 1 .. Len(d) \/ i = Len(d) + 1
      BY <1>1, AppendIs
    <2>2. CASE i = Len(d) + 1
      BY <1>1, <1>3, <2>2, AppendIs
    <2>3. CASE i \in 1 .. Len(d)
      <3>1. j + 1 \in 1 .. Len(c) /\ Tail(c)[j] = c[j + 1]
        BY <1>1
      <3>2. Append(d, Head(c))[i] = d[i]
        BY <1>1, <2>3, AppendIs
      <3> QED
        BY <2>3, <3>1, <3>2 DEF Precede
    <2> QED
      BY <2>1, <2>2, <2>3
  <1>7. Increasing(Append(d, Head(c)))
    BY <1>1, <1>2, IncreasingAppend
  <1>8. UpTo(Append(d, Head(c)), n)
    BY <1>1, <1>4, UpToAppend
  <1> QED
    BY <1>2, <1>3, <1>5, <1>6, <1>7, <1>8

\* WaitInOrder, of any sequence of measurements.
Waits(m, v, kind) ==
  /\ Increasing(v)
  /\ \A j \in 1 .. Len(v) : v[j].kind = kind
  /\ \A i \in 1 .. Len(m), j \in 1 .. Len(v) : m[i].kind = kind => m[i].n < v[j].n

LEMMA FromAppend ==
  ASSUME NEW s \in Seq(Frames), NEW t \in Seq(Frames), NEW f \in Frames, From(s, t)
  PROVE  From(s, Append(t, f)) /\ From(Append(s, f), Append(t, f))
  <1>1. From(s, Append(t, f))
    <2> SUFFICES ASSUME NEW i \in 1 .. Len(s)
                 PROVE  \E j \in 1 .. Len(Append(t, f)) : s[i] = Append(t, f)[j]
      BY DEF From
    <2>1. PICK j \in 1 .. Len(t) : s[i] = t[j]
      BY DEF From
    <2>2. j \in 1 .. Len(Append(t, f)) /\ Append(t, f)[j] = t[j]
      BY AppendIs
    <2> QED
      BY <2>1, <2>2
  <1>2. From(Append(s, f), Append(t, f))
    <2> SUFFICES ASSUME NEW i \in 1 .. Len(Append(s, f))
                 PROVE  \E j \in 1 .. Len(Append(t, f)) : Append(s, f)[i] = Append(t, f)[j]
      BY DEF From
    <2>1. i \in 1 .. Len(s) \/ i = Len(s) + 1
      BY AppendIs
    <2>2. CASE i = Len(s) + 1
      <3>1. Len(t) + 1 \in 1 .. Len(Append(t, f)) /\ Append(t, f)[Len(t) + 1] = f
        BY AppendIs
      <3> QED
        BY <2>2, <3>1, AppendIs
    <2>3. CASE i \in 1 .. Len(s)
      BY <1>1, <2>3, AppendIs DEF From
    <2> QED
      BY <2>1, <2>2, <2>3
  <1> QED
    BY <1>1, <1>2

LEMMA FromTake ==
  ASSUME NEW m \in Seq(Frames), NEW v \in Seq(Frames), v # << >>, NEW d \in Seq(Frames),
         From(m, d), From(v, d)
  PROVE  From(Append(m, Head(v)), d) /\ From(Tail(v), d)
  <1>1. \A i \in 1 .. Len(Tail(v)) : i + 1 \in 1 .. Len(v) /\ Tail(v)[i] = v[i + 1]
    BY TailIs
  <1>2. Head(v) = v[1] /\ 1 \in 1 .. Len(v) /\ Head(v) \in Frames
    BY TailIs
  <1>3. From(Tail(v), d)
    BY <1>1 DEF From
  <1>4. From(Append(m, Head(v)), d)
    <2> SUFFICES ASSUME NEW i \in 1 .. Len(Append(m, Head(v)))
                 PROVE  \E j \in 1 .. Len(d) : Append(m, Head(v))[i] = d[j]
      BY DEF From
    <2>1. i \in 1 .. Len(m) \/ i = Len(m) + 1
      BY <1>2, AppendIs
    <2>2. CASE i = Len(m) + 1
      BY <1>2, <2>2, AppendIs DEF From
    <2>3. CASE i \in 1 .. Len(m)
      BY <1>2, <2>3, AppendIs DEF From
    <2> QED
      BY <2>1, <2>2, <2>3
  <1> QED
    BY <1>3, <1>4

\* A delivered frame is put into its AFE ring: it is newer than all that ring and
\* measurements hold, for these are frames delivered earlier.
LEMMA AfeGrows ==
  ASSUME NEW d \in Seq(Frames), NEW m \in Seq(Frames), NEW v \in Seq(Frames),
         NEW f \in Frames, Waits(m, v, f.kind), From(v, d), From(m, d),
         \A i \in 1 .. Len(d) : d[i].n < f.n
  PROVE  Waits(m, Append(v, f), f.kind)
  <1>1. \A i \in 1 .. Len(v) : v[i].n < f.n
    BY DEF From
  <1>2. \A i \in 1 .. Len(m) : m[i].n < f.n
    BY DEF From
  <1>3. Increasing(Append(v, f))
    BY <1>1, IncreasingAppend DEF Waits
  <1>4. ASSUME NEW j \in 1 .. Len(Append(v, f))
        PROVE  /\ Append(v, f)[j].kind = f.kind
               /\ \A i \in 1 .. Len(m) :
                    m[i].kind = f.kind => m[i].n < Append(v, f)[j].n
    <2>1. j \in 1 .. Len(v) \/ j = Len(v) + 1
      BY AppendIs
    <2>2. CASE j = Len(v) + 1
      BY <1>2, <2>2, AppendIs
    <2>3. CASE j \in 1 .. Len(v)
      BY <2>3, AppendIs DEF Waits
    <2> QED
      BY <2>1, <2>2, <2>3
  <1> QED
    BY <1>3, <1>4 DEF Waits

\* MEAS_Control takes the oldest frame of one AFE ring.
LEMMA AfeMoves ==
  ASSUME NEW m \in Seq(Frames), NEW v \in Seq(Frames), v # << >>, NEW kind,
         Waits(m, v, kind), IncreasingByKind(m)
  PROVE  /\ Waits(Append(m, Head(v)), Tail(v), kind)
         /\ IncreasingByKind(Append(m, Head(v)))
         /\ Head(v).kind = kind
  <1> DEFINE f == Head(v)
             a == Append(m, f)
  <1>1. f \in Frames /\ f = v[1] /\ 1 \in 1 .. Len(v) /\ f.kind = kind
    BY TailIs DEF Waits
  <1>2. \A i \in 1 .. Len(Tail(v)) : i + 1 \in 1 .. Len(v) /\ Tail(v)[i] = v[i + 1]
    BY TailIs
  <1>3. Increasing(Tail(v)) /\ \A i \in 1 .. Len(Tail(v)) : f.n < Tail(v)[i].n
    BY IncreasingTail DEF Waits
  <1>4. \A i \in 1 .. Len(a) : i \in 1 .. Len(m) \/ i = Len(m) + 1
    BY <1>1, AppendIs
  <1>5. a[Len(m) + 1] = f /\ \A i \in 1 .. Len(m) : a[i] = m[i]
    BY <1>1, AppendIs
  <1> HIDE DEF f, a
  <1>6. Waits(a, Tail(v), kind)
    <2> SUFFICES ASSUME NEW i \in 1 .. Len(a), NEW j \in 1 .. Len(Tail(v)), a[i].kind = kind
                 PROVE  a[i].n < Tail(v)[j].n
      BY <1>2, <1>3 DEF Waits
    <2>1. CASE i = Len(m) + 1
      BY <2>1, <1>3, <1>5
    <2>2. CASE i \in 1 .. Len(m)
      BY <2>2, <1>2, <1>5 DEF Waits
    <2> QED
      BY <2>1, <2>2, <1>4
  <1>7. IncreasingByKind(a)
    <2> SUFFICES ASSUME NEW i \in 1 .. Len(a), NEW j \in 1 .. Len(a), i < j,
                        a[i].kind = a[j].kind
                 PROVE  a[i].n < a[j].n
      BY DEF IncreasingByKind
    <2>1. i \in 1 .. Len(m)
      BY <1>1, AppendIs, <1>4 DEF a
    <2>2. CASE j = Len(m) + 1
      BY <2>1, <2>2, <1>1, <1>5 DEF Waits
    <2>3. CASE j \in 1 .. Len(m)
      BY <2>1, <2>3, <1>5 DEF IncreasingByKind
    <2> QED
      BY <2>2, <2>3, <1>4
  <1> QED
    BY <1>1, <1>6, <1>7 DEF a, f

\* A measurement of the other kind does not concern a ring.
LEMMA AfeOther ==
  ASSUME NEW m \in Seq(Frames), NEW v \in Seq(Frames), NEW kind, NEW f \in Frames,
         f.kind # kind, Waits(m, v, kind)
  PROVE  Waits(Append(m, f), v, kind)
  <1>1. \A i \in 1 .. Len(Append(m, f)) : i \in 1 .. Len(m) \/ i = Len(m) + 1
    BY AppendIs
  <1>2. Append(m, f)[Len(m) + 1] = f /\ \A i \in 1 .. Len(m) : Append(m, f)[i] = m[i]
    BY AppendIs
  <1> QED
    BY <1>1, <1>2 DEF Waits

-----------------------------------------------------------------------------
(* The invariant of the whole way.                                          *)

\* The number of the last frame read from the socket.
LastRead == Len(bus) - Len(socket)

\* The socket holds the frames of the bus that have not been read, in order.
Numbered ==
  /\ Len(socket) <= Len(bus)
  /\ \A k \in 1 .. Len(socket) :
       /\ socket[k].n = LastRead + k
       /\ socket[k].kind = bus[LastRead + k]

QueuesTyped ==
  /\ TravelOK /\ Numbered
  /\ delivered \in Seq(Frames) /\ measured \in Seq(Frames)
  /\ volt \in Afe!Rings /\ temp \in Afe!Rings
  /\ override \in Nat

\* The rings hold only what InOrder says, and nothing that was not read.
OrderInv ==
  /\ InOrder
  /\ UpTo(delivered, LastRead) /\ UpTo(Rx!Contents(rx), LastRead)
  /\ From(Afe!Contents(volt), delivered) /\ From(Afe!Contents(temp), delivered)

\* Commands read are applied, the last one last.
Applied ==
  /\ override \in ReadOf({"sil"}) \cup {0}
  /\ \A n \in ReadOf({"sil"}) : n <= override

LEMMA LengthsOK ==
  ASSUME TravelOK, Numbered
  PROVE  Len(bus) \in Nat /\ Len(socket) \in Nat /\ LastRead \in Nat
  <1>1. Len(bus) \in Nat /\ Len(socket) \in Nat
    BY LenProperties DEF TravelOK
  <1> QED
    BY <1>1 DEF LastRead, Numbered

\* What reading a frame does to the numbers.
LEMMA ReadNext ==
  ASSUME TravelOK, Numbered, ReadFrame
  PROVE  /\ Numbered' /\ LastRead' = LastRead + 1 /\ bus' = bus
         /\ Head(socket) \in Frames
         /\ Head(socket).n = LastRead + 1 /\ Head(socket).kind = bus[LastRead + 1]
         /\ LastRead + 1 \in 1 .. Len(bus)
  <1>1. socket \in Seq(Frames) /\ socket # << >> /\ socket' = Tail(socket) /\ bus' = bus
    BY DEF ReadFrame, TravelOK
  <1>2. /\ Len(socket) \in Nat \ {0} /\ Len(socket') = Len(socket) - 1
        /\ \A i \in 1 .. Len(socket) - 1 : socket'[i] = socket[i + 1]
        /\ Head(socket) = socket[1] /\ Head(socket) \in Frames
    BY <1>1, TailIs
  <1>3. LastRead' = LastRead + 1 /\ LastRead \in Nat /\ Len(bus) \in Nat
    BY <1>1, <1>2, LengthsOK DEF LastRead
  <1>4. Len(socket) <= Len(bus) /\ LastRead = Len(bus) - Len(socket)
    BY DEF Numbered, LastRead
  <1>5. ASSUME NEW k \in 1 .. Len(socket')
        PROVE  socket'[k].n = LastRead' + k /\ socket'[k].kind = bus'[LastRead' + k]
    <2>1. k + 1 \in 1 .. Len(socket) /\ socket'[k] = socket[k + 1]
      BY <1>2
    <2>2. LastRead + (k + 1) = LastRead' + k
      BY <1>3, <1>2
    <2> QED
      BY <1>1, <2>1, <2>2 DEF Numbered
  <1>6. Numbered'
    BY <1>1, <1>2, <1>4, <1>5 DEF Numbered
  <1>7. 1 \in 1 .. Len(socket)
    BY <1>2
  <1>8. LastRead + 1 \in 1 .. Len(bus)
    BY <1>2, <1>3, <1>4
  <1> QED
    BY <1>1, <1>2, <1>3, <1>6, <1>7, <1>8 DEF Numbered

\* The bus lengthens what is still to be read.
LEMMA BusNext ==
  ASSUME TravelOK, Numbered, NEW kind \in Kinds, BusDelivers(kind)
  PROVE  /\ Numbered' /\ LastRead' = LastRead
         /\ \A i \in 1 .. LastRead : bus'[i] = bus[i]
  <1>1. /\ bus \in Seq(Kinds) /\ socket \in Seq(Frames) /\ Len(bus) < MaxFrames
        /\ bus' = Append(bus, kind)
        /\ socket' = Append(socket, [kind |-> kind, n |-> Len(bus) + 1])
    BY DEF BusDelivers, TravelOK
  <1>2. Len(bus) \in Nat /\ Len(socket) \in Nat /\ LastRead \in Nat
    BY LengthsOK
  <1>3. [kind |-> kind, n |-> Len(bus) + 1] \in Frames
    BY <1>1, <1>2, QueuesAssumption DEF Frames
  <1>4. /\ Len(bus') = Len(bus) + 1 /\ bus'[Len(bus) + 1] = kind
        /\ \A i \in 1 .. Len(bus) : bus'[i] = bus[i]
    BY <1>1, <1>2, AppendProperties
  <1>5. /\ Len(socket') = Len(socket) + 1
        /\ socket'[Len(socket) + 1] = [kind |-> kind, n |-> Len(bus) + 1]
        /\ \A i \in 1 .. Len(socket) : socket'[i] = socket[i]
    BY <1>1, <1>3, AppendIs
  <1>6. LastRead' = LastRead /\ LastRead + Len(socket) = Len(bus)
    BY <1>2, <1>4, <1>5 DEF LastRead
  <1>7. ASSUME NEW k \in 1 .. Len(socket')
        PROVE  socket'[k].n = LastRead' + k /\ socket'[k].kind = bus'[LastRead' + k]
    <2>1. CASE k = Len(socket) + 1
      <3>1. LastRead' + k = Len(bus) + 1
        BY <1>2, <1>6, <2>1
      <3> QED
        BY <1>4, <1>5, <2>1, <3>1
    <2>2. CASE k \in 1 .. Len(socket)
      <3>1. LastRead' + k = LastRead + k /\ LastRead + k \in 1 .. Len(bus)
        BY <1>2, <1>6, <2>2
      <3> QED
        BY <1>4, <1>5, <2>2, <3>1 DEF Numbered
    <2> QED
      BY <1>2, <1>5, <2>1, <2>2
  <1>8. Len(socket') <= Len(bus')
    BY <1>2, <1>4, <1>5 DEF Numbered
  <1>9. \A i \in 1 .. LastRead : bus'[i] = bus[i]
    BY <1>2, <1>4, <1>6
  <1> QED
    BY <1>6, <1>7, <1>8, <1>9 DEF Numbered

-----------------------------------------------------------------------------
(* Every step keeps the types.                                              *)

LEMMA TypedInit == Init => QueuesTyped
  <1> SUFFICES ASSUME Init PROVE QueuesTyped
    OBVIOUS
  <1>1. TravelOK
    BY TravelInit
  <1>2. Numbered
    BY DEF Init, Numbered
  <1>3. volt \in Afe!Rings /\ temp \in Afe!Rings
    BY ZeroedIsFrame, QueuesAssumption DEF Init, Afe!EmptyRing, Afe!Rings, Afe!Slots
  <1>4. delivered \in Seq(Frames) /\ measured \in Seq(Frames) /\ override \in Nat
    BY EmptySeq DEF Init
  <1> QED
    BY <1>1, <1>2, <1>3, <1>4 DEF QueuesTyped

\* Steps that leave bus, socket and RX ring alone.
Aside == UNCHANGED <<bus, socket, rx, overflow, override, delivered>>

LEMMA AsideTyped == QueuesTyped /\ Aside => TravelOK' /\ Numbered' /\ LastRead' = LastRead
  BY DEF QueuesTyped, Aside, TravelOK, Numbered, LastRead

LEMMA ReadTyped == QueuesTyped /\ ReadFrame => QueuesTyped'
  <1> SUFFICES ASSUME QueuesTyped, ReadFrame PROVE QueuesTyped'
    OBVIOUS
  <1>1. TravelOK' /\ Numbered' /\ Head(socket) \in Frames
    BY TravelRead, ReadNext DEF QueuesTyped
  <1>2. override' \in {override, Head(socket).n}
    BY DEF ReadFrame
  <1>3. UNCHANGED <<volt, temp, delivered, measured>>
    BY DEF ReadFrame
  <1> QED
    BY <1>1, <1>2, <1>3, Numbers DEF QueuesTyped

LEMMA BusTyped ==
  ASSUME QueuesTyped, NEW kind \in Kinds, BusDelivers(kind)
  PROVE  QueuesTyped'
  <1>1. TravelOK' /\ Numbered'
    BY TravelBus, BusNext DEF QueuesTyped
  <1>2. UNCHANGED <<volt, temp, delivered, measured, override>>
    BY DEF BusDelivers
  <1> QED
    BY <1>1, <1>2 DEF QueuesTyped

\* What ReceiveCanRx does, in terms of the contents of the rings.
LEMMA Received ==
  ASSUME QueuesTyped, ReceiveCanRx
  PROVE  /\ Rx!Front(rx) = Head(Rx!Contents(rx)) /\ Rx!Front(rx) \in Frames
         /\ Rx!Contents(rx) \in Seq(Frames) /\ Rx!Contents(rx) # << >>
         /\ Rx!Contents(rx') = Tail(Rx!Contents(rx))
         /\ delivered' = Append(delivered, Rx!Front(rx))
         /\ volt' \in Afe!Rings /\ temp' \in Afe!Rings
         /\ \/ Afe!Contents(volt') = Afe!Contents(volt)
            \/ /\ Rx!Front(rx).kind = "volt"
               /\ Afe!Contents(volt') = Append(Afe!Contents(volt), Rx!Front(rx))
         /\ \/ Afe!Contents(temp') = Afe!Contents(temp)
            \/ /\ Rx!Front(rx).kind = "temp"
               /\ Afe!Contents(temp') = Append(Afe!Contents(temp), Rx!Front(rx))
  <1> DEFINE f == Rx!Front(rx)
  <1>1. rx \in Rx!Rings /\ volt \in Afe!Rings /\ temp \in Afe!Rings /\ ~Rx!IsEmpty(rx)
    BY DEF QueuesTyped, TravelOK, ReceiveCanRx
  <1>2. /\ rx' = Rx!Dequeue(rx) /\ delivered' = Append(delivered, f)
        /\ volt' = IF f.kind = "volt" THEN Afe!Enqueue(volt, f) ELSE volt
        /\ temp' = IF f.kind = "temp" THEN Afe!Enqueue(temp, f) ELSE temp
    BY DEF ReceiveCanRx
  <1>3. f = Head(Rx!Contents(rx)) /\ Rx!Contents(rx) # << >>
    BY <1>1, RxFront
  <1>4. f \in Frames /\ Rx!Contents(rx) \in Seq(Frames)
        /\ Rx!Contents(rx') = Tail(Rx!Contents(rx))
    BY <1>1, <1>2, RxRing
  <1> HIDE DEF f
  <1>5. volt' \in Afe!Rings /\ temp' \in Afe!Rings
    BY <1>1, <1>2, <1>4, AfeRing
  <1>6. \/ Afe!Contents(volt') = Afe!Contents(volt)
        \/ f.kind = "volt" /\ Afe!Contents(volt') = Append(Afe!Contents(volt), f)
    BY <1>1, <1>2, <1>4, AfeRing
  <1>7. \/ Afe!Contents(temp') = Afe!Contents(temp)
        \/ f.kind = "temp" /\ Afe!Contents(temp') = Append(Afe!Contents(temp), f)
    BY <1>1, <1>2, <1>4, AfeRing
  <1> QED
    BY <1>2, <1>3, <1>4, <1>5, <1>6, <1>7 DEF f

LEMMA ReceiveTyped == QueuesTyped /\ ReceiveCanRx => QueuesTyped'
  <1> SUFFICES ASSUME QueuesTyped, ReceiveCanRx PROVE QueuesTyped'
    OBVIOUS
  <1>1. TravelOK' /\ UNCHANGED <<bus, socket, override, measured>>
    BY TravelReceive DEF QueuesTyped, ReceiveCanRx
  <1>2. Numbered'
    BY <1>1 DEF QueuesTyped, Numbered, LastRead
  <1>3. delivered' \in Seq(Frames) /\ volt' \in Afe!Rings /\ temp' \in Afe!Rings
    BY Received, AppendIs DEF QueuesTyped
  <1> QED
    BY <1>1, <1>2, <1>3 DEF QueuesTyped

LEMMA MeasuredVoltage ==
  ASSUME QueuesTyped, MeasureVoltage
  PROVE  /\ Afe!Contents(volt) \in Seq(Frames) /\ Afe!Contents(volt) # << >>
         /\ measured' = Append(measured, Head(Afe!Contents(volt)))
         /\ measured' \in Seq(Frames)
         /\ volt' \in Afe!Rings /\ Afe!Contents(volt') = Tail(Afe!Contents(volt))
         /\ temp' = temp /\ Aside
  <1>1. volt \in Afe!Rings /\ ~Afe!IsEmpty(volt) /\ volt' = Afe!Dequeue(volt)
    BY DEF QueuesTyped, MeasureVoltage
  <1>2. /\ Afe!Contents(volt) \in Seq(Frames) /\ Afe!Contents(volt) # << >>
        /\ Afe!Front(volt) = Head(Afe!Contents(volt))
        /\ volt' \in Afe!Rings /\ Afe!Contents(volt') = Tail(Afe!Contents(volt))
    BY <1>1, AfeRing
  <1>3. measured' = Append(measured, Head(Afe!Contents(volt))) /\ temp' = temp /\ Aside
    BY <1>2 DEF MeasureVoltage, Aside
  <1>4. Head(Afe!Contents(volt)) \in Frames
    BY <1>2, TailIs
  <1>5. measured' \in Seq(Frames)
    BY <1>3, <1>4, AppendIs DEF QueuesTyped
  <1> QED
    BY <1>2, <1>3, <1>5

LEMMA MeasuredTemperature ==
  ASSUME QueuesTyped, MeasureTemperature
  PROVE  /\ Afe!Contents(temp) \in Seq(Frames) /\ Afe!Contents(temp) # << >>
         /\ measured' = Append(measured, Head(Afe!Contents(temp)))
         /\ measured' \in Seq(Frames)
         /\ temp' \in Afe!Rings /\ Afe!Contents(temp') = Tail(Afe!Contents(temp))
         /\ volt' = volt /\ Aside
  <1>1. temp \in Afe!Rings /\ ~Afe!IsEmpty(temp) /\ temp' = Afe!Dequeue(temp)
    BY DEF QueuesTyped, MeasureTemperature
  <1>2. /\ Afe!Contents(temp) \in Seq(Frames) /\ Afe!Contents(temp) # << >>
        /\ Afe!Front(temp) = Head(Afe!Contents(temp))
        /\ temp' \in Afe!Rings /\ Afe!Contents(temp') = Tail(Afe!Contents(temp))
    BY <1>1, AfeRing
  <1>3. measured' = Append(measured, Head(Afe!Contents(temp))) /\ volt' = volt /\ Aside
    BY <1>2 DEF MeasureTemperature, Aside
  <1>4. Head(Afe!Contents(temp)) \in Frames
    BY <1>2, TailIs
  <1>5. measured' \in Seq(Frames)
    BY <1>3, <1>4, AppendIs DEF QueuesTyped
  <1> QED
    BY <1>2, <1>3, <1>5

\* The steps of the loop that move nothing.
LEMMA StillSteps ==
  SocketDrained \/ NotDueYet \/ Start1ms \/ CanRxEmpty \/ MeasureDone \/ UNCHANGED vars
    => Aside /\ UNCHANGED <<volt, temp, measured>>
  BY DEF SocketDrained, NotDueYet, Start1ms, CanRxEmpty, MeasureDone, vars, Aside

LEMMA TypedStep == QueuesTyped /\ [Next]_vars => QueuesTyped'
  <1> SUFFICES ASSUME QueuesTyped, [Next]_vars PROVE QueuesTyped'
    OBVIOUS
  <1>1. ASSUME NEW kind \in Kinds, BusDelivers(kind) PROVE QueuesTyped'
    BY <1>1, BusTyped
  <1>2. CASE ReadFrame
    BY <1>2, ReadTyped
  <1>3. CASE ReceiveCanRx
    BY <1>3, ReceiveTyped
  <1>4. CASE MeasureVoltage
    BY <1>4, MeasuredVoltage, AsideTyped DEF QueuesTyped, Aside
  <1>5. CASE MeasureTemperature
    BY <1>5, MeasuredTemperature, AsideTyped DEF QueuesTyped, Aside
  <1>6. CASE Aside /\ UNCHANGED <<volt, temp, measured>>
    BY <1>6, AsideTyped DEF QueuesTyped, Aside
  <1> QED
    BY <1>1, <1>2, <1>3, <1>4, <1>5, <1>6, StillSteps DEF Next, Loop

LEMMA AlwaysTyped == Spec => []QueuesTyped
  BY TypedInit, TypedStep, PTL DEF Spec

-----------------------------------------------------------------------------
(* Every step keeps the order.                                              *)

\* OrderInv, of any sequences.
OrderOf(d, c, m, v, t, n) ==
  /\ Increasing(d) /\ Increasing(c) /\ Precede(d, c)
  /\ IncreasingByKind(m) /\ From(m, d)
  /\ Waits(m, v, "volt") /\ Waits(m, t, "temp")
  /\ UpTo(d, n) /\ UpTo(c, n) /\ From(v, d) /\ From(t, d)

LEMMA OrderIs ==
  OrderInv <=> OrderOf(delivered, Rx!Contents(rx), measured, Afe!Contents(volt),
                       Afe!Contents(temp), LastRead)
  BY Zenon DEF OrderInv, InOrder, OrderOf, WaitInOrder, Waits, From

LEMMA OrderIsNext ==
  OrderInv' <=> OrderOf(delivered', Rx!Contents(rx'), measured', Afe!Contents(volt'),
                        Afe!Contents(temp'), LastRead')
  BY Zenon DEF OrderInv, InOrder, OrderOf, WaitInOrder, Waits, From

LEMMA ContentsTyped ==
  ASSUME QueuesTyped
  PROVE  /\ Rx!Contents(rx) \in Seq(Frames) /\ Afe!Contents(volt) \in Seq(Frames)
         /\ Afe!Contents(temp) \in Seq(Frames)
         /\ delivered \in Seq(Frames) /\ measured \in Seq(Frames)
         /\ LastRead \in Nat
  BY RxRing, AfeRing, LengthsOK DEF QueuesTyped, TravelOK

LEMMA OrderInit == Init => OrderInv
  <1> SUFFICES ASSUME Init PROVE OrderInv
    OBVIOUS
  <1>1. Rx!Contents(rx) = << >> /\ volt \in Afe!Rings /\ temp \in Afe!Rings
    BY TravelInit, TypedInit DEF QueuesTyped
  <1>2. Afe!IsEmpty(volt) /\ Afe!IsEmpty(temp)
    BY DEF Init, Afe!EmptyRing, Afe!IsEmpty
  <1>3. Afe!Contents(volt) = << >> /\ Afe!Contents(temp) = << >>
    BY <1>1, <1>2, AfeRing
  <1>4. delivered = << >> /\ measured = << >>
    BY DEF Init
  <1>5. OrderOf(<< >>, << >>, << >>, << >>, << >>, LastRead)
    BY DEF OrderOf, Increasing, Precede, IncreasingByKind, From, Waits, UpTo
  <1> QED
    BY <1>1, <1>3, <1>4, <1>5, OrderIs

LEMMA OrderRead == QueuesTyped /\ OrderInv /\ ReadFrame => OrderInv'
  <1> SUFFICES ASSUME QueuesTyped, OrderInv, ReadFrame PROVE OrderInv'
    OBVIOUS
  <1> DEFINE d == delivered
             c == Rx!Contents(rx)
             f == Head(socket)
  <1>1. LastRead' = LastRead + 1 /\ f \in Frames /\ f.n = LastRead + 1 /\ LastRead \in Nat
    BY ReadNext, ContentsTyped DEF QueuesTyped
  <1>2. UNCHANGED <<volt, temp, delivered, measured>>
    BY DEF ReadFrame
  <1>3. rx \in Rx!Rings /\ (rx' = rx \/ rx' = Rx!Enqueue(rx, f))
    BY DEF ReadFrame, RxInject, QueuesTyped, TravelOK
  <1>4. Rx!Contents(rx') \in {c, Append(c, f)}
    <2>1. CASE rx' = rx
      BY <2>1
    <2>2. CASE rx' = Rx!Enqueue(rx, f) /\ Rx!IsFull(rx)
      BY <1>1, <1>3, <2>2, RxFront
    <2>3. CASE rx' = Rx!Enqueue(rx, f) /\ ~Rx!IsFull(rx)
      BY <1>1, <1>3, <2>3, RxRing
    <2> QED
      BY <1>3, <2>1, <2>2, <2>3
  <1>5. c \in Seq(Frames) /\ d \in Seq(Frames)
    BY ContentsTyped
  <1>6. OrderOf(d, c, measured, Afe!Contents(volt), Afe!Contents(temp), LastRead)
    BY OrderIs
  <1> HIDE DEF d, c, f
  <1>7. UpTo(d, LastRead + 1) /\ UpTo(c, LastRead + 1)
    BY <1>1, <1>5, <1>6, UpToAppend DEF OrderOf
  <1>8. Increasing(Append(c, f)) /\ Precede(d, Append(c, f))
        /\ UpTo(Append(c, f), LastRead + 1)
    BY <1>1, <1>5, <1>6, RxGrows DEF OrderOf
  <1>9. OrderOf(d, Rx!Contents(rx'), measured, Afe!Contents(volt), Afe!Contents(temp),
                LastRead + 1)
    BY <1>4, <1>6, <1>7, <1>8 DEF OrderOf
  <1> QED
    BY <1>1, <1>2, <1>9, OrderIsNext DEF d

LEMMA OrderReceive == QueuesTyped /\ OrderInv /\ ReceiveCanRx => OrderInv'
  <1> SUFFICES ASSUME QueuesTyped, OrderInv, ReceiveCanRx PROVE OrderInv'
    OBVIOUS
  <1> DEFINE d == delivered
             c == Rx!Contents(rx)
             m == measured
             v == Afe!Contents(volt)
             t == Afe!Contents(temp)
             f == Rx!Front(rx)
             v2 == Afe!Contents(volt')
             t2 == Afe!Contents(temp')
             n == LastRead
  <1>1. /\ f = Head(c) /\ f \in Frames /\ c # << >>
        /\ Rx!Contents(rx') = Tail(c) /\ delivered' = Append(d, f)
        /\ v2 = v \/ (f.kind = "volt" /\ v2 = Append(v, f))
        /\ t2 = t \/ (f.kind = "temp" /\ t2 = Append(t, f))
    BY Received
  <1>2. measured' = m /\ LastRead' = n
    BY DEF ReceiveCanRx, LastRead
  <1>3. /\ c \in Seq(Frames) /\ d \in Seq(Frames) /\ m \in Seq(Frames)
        /\ v \in Seq(Frames) /\ t \in Seq(Frames) /\ n \in Nat
    BY ContentsTyped
  <1>4. OrderOf(d, c, m, v, t, n)
    BY OrderIs
  <1> HIDE DEF d, c, m, v, t, f, v2, t2, n
  <1>5. /\ Increasing(Append(d, f)) /\ Increasing(Tail(c)) /\ Precede(Append(d, f), Tail(c))
        /\ UpTo(Append(d, f), n) /\ UpTo(Tail(c), n)
        /\ \A i \in 1 .. Len(d) : d[i].n < f.n
    BY <1>1, <1>3, <1>4, RxMoves DEF OrderOf
  <1>6. From(m, Append(d, f)) /\ From(v2, Append(d, f)) /\ From(t2, Append(d, f))
    BY <1>1, <1>3, <1>4, FromAppend DEF OrderOf
  <1>7. f.kind = "volt" => Waits(m, Append(v, f), "volt")
    BY <1>1, <1>3, <1>4, <1>5, AfeGrows DEF OrderOf
  <1>8. f.kind = "temp" => Waits(m, Append(t, f), "temp")
    BY <1>1, <1>3, <1>4, <1>5, AfeGrows DEF OrderOf
  <1>9. Waits(m, v2, "volt") /\ Waits(m, t2, "temp")
    BY <1>1, <1>4, <1>7, <1>8 DEF OrderOf
  <1>10. OrderOf(Append(d, f), Tail(c), m, v2, t2, n)
    BY <1>4, <1>5, <1>6, <1>9 DEF OrderOf
  <1> QED
    BY <1>1, <1>2, <1>10, OrderIsNext DEF v2, t2

LEMMA OrderVoltage == QueuesTyped /\ OrderInv /\ MeasureVoltage => OrderInv'
  <1> SUFFICES ASSUME QueuesTyped, OrderInv, MeasureVoltage PROVE OrderInv'
    OBVIOUS
  <1> DEFINE d == delivered
             m == measured
             v == Afe!Contents(volt)
             t == Afe!Contents(temp)
             x == Head(v)
  <1>1. /\ v # << >> /\ measured' = Append(m, x) /\ Afe!Contents(volt') = Tail(v)
        /\ temp' = temp /\ rx' = rx /\ delivered' = d /\ LastRead' = LastRead
    BY MeasuredVoltage, AsideTyped DEF Aside
  <1>2. d \in Seq(Frames) /\ m \in Seq(Frames) /\ v \in Seq(Frames) /\ t \in Seq(Frames)
    BY ContentsTyped
  <1>3. OrderOf(d, Rx!Contents(rx), m, v, t, LastRead)
    BY OrderIs
  <1>4. x \in Frames
    BY <1>1, <1>2, TailIs
  <1> HIDE DEF d, m, v, t
  <1>5. Waits(Append(m, x), Tail(v), "volt") /\ IncreasingByKind(Append(m, x))
        /\ x.kind = "volt"
    BY <1>1, <1>2, <1>3, AfeMoves DEF OrderOf
  <1>6. Waits(Append(m, x), t, "temp")
    BY <1>2, <1>3, <1>4, <1>5, AfeOther DEF OrderOf
  <1>7. From(Append(m, x), d) /\ From(Tail(v), d)
    BY <1>1, <1>2, <1>3, FromTake DEF OrderOf
  <1>8. OrderOf(d, Rx!Contents(rx), Append(m, x), Tail(v), t, LastRead)
    BY <1>3, <1>5, <1>6, <1>7 DEF OrderOf
  <1> QED
    BY <1>1, <1>8, OrderIsNext DEF t

LEMMA OrderTemperature == QueuesTyped /\ OrderInv /\ MeasureTemperature => OrderInv'
  <1> SUFFICES ASSUME QueuesTyped, OrderInv, MeasureTemperature PROVE OrderInv'
    OBVIOUS
  <1> DEFINE d == delivered
             m == measured
             v == Afe!Contents(volt)
             t == Afe!Contents(temp)
             x == Head(t)
  <1>1. /\ t # << >> /\ measured' = Append(m, x) /\ Afe!Contents(temp') = Tail(t)
        /\ volt' = volt /\ rx' = rx /\ delivered' = d /\ LastRead' = LastRead
    BY MeasuredTemperature, AsideTyped DEF Aside
  <1>2. d \in Seq(Frames) /\ m \in Seq(Frames) /\ v \in Seq(Frames) /\ t \in Seq(Frames)
    BY ContentsTyped
  <1>3. OrderOf(d, Rx!Contents(rx), m, v, t, LastRead)
    BY OrderIs
  <1>4. x \in Frames
    BY <1>1, <1>2, TailIs
  <1> HIDE DEF d, m, v, t
  <1>5. Waits(Append(m, x), Tail(t), "temp") /\ IncreasingByKind(Append(m, x))
        /\ x.kind = "temp"
    BY <1>1, <1>2, <1>3, AfeMoves DEF OrderOf
  <1>6. Waits(Append(m, x), v, "volt")
    BY <1>2, <1>3, <1>4, <1>5, AfeOther DEF OrderOf
  <1>7. From(Append(m, x), d) /\ From(Tail(t), d)
    BY <1>1, <1>2, <1>3, FromTake DEF OrderOf
  <1>8. OrderOf(d, Rx!Contents(rx), Append(m, x), v, Tail(t), LastRead)
    BY <1>3, <1>5, <1>6, <1>7 DEF OrderOf
  <1> QED
    BY <1>1, <1>8, OrderIsNext DEF v

LEMMA OrderStep == QueuesTyped /\ OrderInv /\ [Next]_vars => OrderInv'
  <1> SUFFICES ASSUME QueuesTyped, OrderInv, [Next]_vars PROVE OrderInv'
    OBVIOUS
  <1>1. ASSUME NEW kind \in Kinds, BusDelivers(kind) PROVE OrderInv'
    <2>1. LastRead' = LastRead /\ UNCHANGED <<rx, volt, temp, delivered, measured>>
      BY <1>1, BusNext DEF QueuesTyped, BusDelivers
    <2> QED
      BY <2>1, OrderIs, OrderIsNext
  <1>2. CASE ReadFrame
    BY <1>2, OrderRead
  <1>3. CASE ReceiveCanRx
    BY <1>3, OrderReceive
  <1>4. CASE MeasureVoltage
    BY <1>4, OrderVoltage
  <1>5. CASE MeasureTemperature
    BY <1>5, OrderTemperature
  <1>6. CASE Aside /\ UNCHANGED <<volt, temp, measured>>
    <2>1. LastRead' = LastRead /\ UNCHANGED <<rx, volt, temp, delivered, measured>>
      BY <1>6, AsideTyped DEF Aside
    <2> QED
      BY <2>1, OrderIs, OrderIsNext
  <1> QED
    BY <1>1, <1>2, <1>3, <1>4, <1>5, <1>6, StillSteps DEF Next, Loop

\* For all ring sizes, however often head and tail wrap around and however many frames
\* are dropped: frames reach the application in bus order and once, and so do the
\* measurements of each kind.
THEOREM OrderIsKept == Spec => []InOrder
  <1>1. OrderInv => InOrder
    BY DEF OrderInv
  <1> QED
    BY <1>1, AlwaysTyped, OrderInit, OrderStep, PTL DEF Spec

-----------------------------------------------------------------------------
(* Every frame is accounted for, every command takes effect.                *)

LEMMA AppliedInit == Init => EveryFrameAccounted /\ Applied
  <1> SUFFICES ASSUME Init PROVE EveryFrameAccounted /\ Applied
    OBVIOUS
  <1>1. Read = {}
    BY DEF Init, Read
  <1>2. ReadOf(AppKinds) = {} /\ ReadOf({"sil"}) = {}
    BY <1>1 DEF ReadOf
  <1>3. Rx!Occupied(rx) = 0 /\ Len(delivered) = 0 /\ overflow = 0
    BY DEF Init, Rx!EmptyRing, Rx!Occupied
  <1>4. Cardinality({}) = 0
    BY FS_EmptySet
  <1>5. EveryFrameAccounted
    BY <1>2, <1>3, <1>4 DEF EveryFrameAccounted
  <1> QED
    BY <1>2, <1>5 DEF Applied, Init

\* Read sets only change when a frame is read, and then by its number.
LEMMA ReadKept ==
  ASSUME QueuesTyped, LastRead' = LastRead,
         \A i \in 1 .. LastRead : bus'[i] = bus[i], NEW K
  PROVE  ReadOf(K)' = ReadOf(K)
  <1>1. Read' = Read /\ Read = 1 .. LastRead
    BY DEF Read, LastRead
  <1> QED
    BY <1>1 DEF ReadOf

LEMMA ReadGrows ==
  ASSUME QueuesTyped, ReadFrame, NEW K
  PROVE  ReadOf(K)' = IF Head(socket).kind \in K THEN ReadOf(K) \cup {LastRead + 1}
                                                ELSE ReadOf(K)
  <1>1. Read' = 1 .. LastRead + 1 /\ Read = 1 .. LastRead /\ bus' = bus
    BY ReadNext DEF QueuesTyped, Read, LastRead
  <1>2. LastRead \in Nat /\ Head(socket).kind = bus[LastRead + 1]
    BY ReadNext, ContentsTyped DEF QueuesTyped
  <1>3. 1 .. LastRead + 1 = (1 .. LastRead) \cup {LastRead + 1}
    BY <1>2
  <1> QED
    BY <1>1, <1>2, <1>3 DEF ReadOf

LEMMA ReadFinite ==
  ASSUME QueuesTyped, NEW K
  PROVE  IsFiniteSet(ReadOf(K)) /\ Cardinality(ReadOf(K)) \in Nat
         /\ LastRead + 1 \notin ReadOf(K)
  <1>1. LastRead \in Nat /\ Read = 1 .. LastRead
    BY ContentsTyped DEF Read, LastRead
  <1>2. ReadOf(K) \subseteq 1 .. LastRead
    BY <1>1 DEF ReadOf
  <1>3. IsFiniteSet(1 .. LastRead)
    BY <1>1, FS_Interval
  <1>4. IsFiniteSet(ReadOf(K))
    BY <1>2, <1>3, FS_Subset
  <1> QED
    BY <1>1, <1>2, <1>4, FS_CardinalityType

LEMMA AccountedRead == QueuesTyped /\ EveryFrameAccounted /\ ReadFrame => EveryFrameAccounted'
  <1> SUFFICES ASSUME QueuesTyped, EveryFrameAccounted, ReadFrame PROVE EveryFrameAccounted'
    OBVIOUS
  <1> DEFINE f == Head(socket)
             R == ReadOf(AppKinds)
  <1>1. /\ R' = IF f.kind \in AppKinds THEN R \cup {LastRead + 1} ELSE R
        /\ IsFiniteSet(R) /\ Cardinality(R) \in Nat /\ LastRead + 1 \notin R
    BY ReadGrows, ReadFinite
  <1>2. delivered' = delivered /\ f \in Frames
    BY ReadNext DEF ReadFrame, QueuesTyped
  <1>3. /\ rx \in Rx!Rings /\ Rx!Contents(rx) \in Seq(Frames) /\ overflow \in Nat
        /\ Rx!Occupied(rx) = Len(Rx!Contents(rx)) /\ Rx!Occupied(rx) \in Nat
        /\ Len(delivered) \in Nat
    BY RxFront, RxRing, LenProperties DEF QueuesTyped, TravelOK
  <1>4. CASE f.kind \notin AppKinds
    <2>1. rx' = rx /\ overflow' = overflow
      BY <1>4 DEF ReadFrame, AppKinds
    <2> QED
      BY <1>1, <1>2, <1>4, <2>1 DEF EveryFrameAccounted
  <1>5. CASE f.kind \in AppKinds
    <2>1. RxInject(f)
      BY <1>5 DEF ReadFrame, AppKinds
    <2>2. Cardinality(R') = Cardinality(R) + 1
      BY <1>1, <1>5, FS_AddElement
    <2>3. Rx!Occupied(rx') + overflow' = Rx!Occupied(rx) + overflow + 1
      <3>1. CASE Rx!IsFull(rx)
        BY <1>2, <1>3, <2>1, <3>1, RxFront DEF RxInject
      <3>2. CASE ~Rx!IsFull(rx)
        <4>1. rx' = Rx!Enqueue(rx, f) /\ overflow' = overflow
          BY <2>1, <3>2 DEF RxInject
        <4>2. rx' \in Rx!Rings /\ Rx!Contents(rx') = Append(Rx!Contents(rx), f)
          BY <1>2, <1>3, <3>2, <4>1, RxRing
        <4>3. Rx!Occupied(rx') = Len(Append(Rx!Contents(rx), f))
          BY <4>2, RxFront
        <4> QED
          BY <1>2, <1>3, <4>1, <4>3, AppendIs
      <3> QED
        BY <3>1, <3>2
    <2>4. Rx!Occupied(rx') \in Nat /\ overflow' \in Nat
      <3>1. rx' \in Rx!Rings /\ overflow' \in Nat
        BY TravelRead DEF QueuesTyped, TravelOK
      <3> QED
        BY <3>1, RxFront, RxRing, LenProperties
    <2> QED
      BY <1>1, <1>2, <1>3, <2>2, <2>3, <2>4 DEF EveryFrameAccounted
  <1> QED
    BY <1>4, <1>5

LEMMA AppliedRead == QueuesTyped /\ Applied /\ ReadFrame => Applied'
  <1> SUFFICES ASSUME QueuesTyped, Applied, ReadFrame PROVE Applied'
    OBVIOUS
  <1> DEFINE f == Head(socket)
             R == ReadOf({"sil"})
  <1>1. R' = IF f.kind = "sil" THEN R \cup {LastRead + 1} ELSE R
    BY ReadGrows
  <1>2. LastRead \in Nat /\ f.n = LastRead + 1
    BY ReadNext, ContentsTyped DEF QueuesTyped
  <1>3. R \subseteq 1 .. LastRead
    BY DEF ReadOf, Read, LastRead
  <1>4. f.kind = "sil" => override' = f.n
    BY DEF ReadFrame, AppKinds
  <1>5. f.kind # "sil" => override' = override
    BY DEF ReadFrame
  <1>6. override \in R \cup {0} /\ \A n \in R : n <= override
    BY DEF Applied
  <1> HIDE DEF f, R
  <1>7. override' \in R' \cup {0} /\ \A n \in R' : n <= override'
    BY <1>1, <1>2, <1>3, <1>4, <1>5, <1>6
  <1> QED
    BY <1>7 DEF R, Applied

LEMMA AccountedReceive ==
  QueuesTyped /\ EveryFrameAccounted /\ ReceiveCanRx => EveryFrameAccounted'
  <1> SUFFICES ASSUME QueuesTyped, EveryFrameAccounted, ReceiveCanRx PROVE EveryFrameAccounted'
    OBVIOUS
  <1> DEFINE c == Rx!Contents(rx)
             f == Rx!Front(rx)
  <1>1. /\ f \in Frames /\ c \in Seq(Frames) /\ c # << >>
        /\ Rx!Contents(rx') = Tail(c) /\ delivered' = Append(delivered, f)
    BY Received
  <1>2. bus' = bus /\ socket' = socket /\ overflow' = overflow
    BY DEF ReceiveCanRx
  <1>3. ReadOf(AppKinds)' = ReadOf(AppKinds)
    BY <1>2 DEF ReadOf, Read
  <1>4. rx \in Rx!Rings /\ rx' \in Rx!Rings /\ overflow \in Nat /\ delivered \in Seq(Frames)
    BY TravelReceive DEF QueuesTyped, TravelOK
  <1>5. Rx!Occupied(rx) = Len(c) /\ Rx!Occupied(rx') = Len(Tail(c))
    BY <1>1, <1>4, RxFront
  <1>6. Len(Tail(c)) = Len(c) - 1 /\ Len(c) \in Nat
    BY <1>1, TailIs
  <1>7. Len(delivered') = Len(delivered) + 1 /\ Len(delivered) \in Nat
    BY <1>1, <1>4, AppendIs
  <1> HIDE DEF c, f
  <1>8. Rx!Occupied(rx') = Rx!Occupied(rx) - 1 /\ Rx!Occupied(rx) \in Nat
    BY <1>5, <1>6
  <1>9. Cardinality(ReadOf(AppKinds)) = Len(delivered') + Rx!Occupied(rx') + overflow'
    BY <1>2, <1>4, <1>7, <1>8 DEF EveryFrameAccounted
  <1> QED
    BY <1>3, <1>9 DEF EveryFrameAccounted

LEMMA AppliedStep ==
  QueuesTyped /\ EveryFrameAccounted /\ Applied /\ [Next]_vars
    => EveryFrameAccounted' /\ Applied'
  <1> SUFFICES ASSUME QueuesTyped, EveryFrameAccounted, Applied, [Next]_vars
               PROVE  EveryFrameAccounted' /\ Applied'
    OBVIOUS
  <1>1. ASSUME NEW kind \in Kinds, BusDelivers(kind)
        PROVE  EveryFrameAccounted' /\ Applied'
    <2>1. LastRead' = LastRead /\ \A i \in 1 .. LastRead : bus'[i] = bus[i]
      BY <1>1, BusNext DEF QueuesTyped
    <2>2. ReadOf(AppKinds)' = ReadOf(AppKinds) /\ ReadOf({"sil"})' = ReadOf({"sil"})
      BY <2>1, ReadKept
    <2> QED
      BY <1>1, <2>2 DEF BusDelivers, EveryFrameAccounted, Applied
  <1>2. CASE ReadFrame
    BY <1>2, AccountedRead, AppliedRead
  <1>3. CASE ReceiveCanRx
    <2>1. ReadOf({"sil"})' = ReadOf({"sil"}) /\ override' = override
      BY <1>3 DEF ReceiveCanRx, ReadOf, Read
    <2> QED
      BY <1>3, <2>1, AccountedReceive DEF Applied
  <1>4. CASE Aside
    BY <1>4 DEF Aside, EveryFrameAccounted, Applied, ReadOf, Read
  <1>5. CASE MeasureVoltage \/ MeasureTemperature
    BY <1>4, <1>5, MeasuredVoltage, MeasuredTemperature
  <1> QED
    BY <1>1, <1>2, <1>3, <1>4, <1>5, StillSteps DEF Next, Loop

LEMMA AlwaysApplied == Spec => [](EveryFrameAccounted /\ Applied)
  BY AlwaysTyped, AppliedInit, AppliedStep, PTL DEF Spec

\* posix_can_rx_overflow_count is exact: frames read from the socket are delivered,
\* waiting or counted, for every ring size.
THEOREM NothingLostUncounted == Spec => []EveryFrameAccounted
  BY AlwaysApplied, PTL

\* A frame that waits in the RX ring has been read, so the commands before it have too.
LEMMA WaitingAreRead ==
  ASSUME QueuesTyped, OrderInv, Applied
  PROVE  OverrideInEffect
  <1> SUFFICES ASSUME NEW k \in 1 .. Rx!Occupied(rx), NEW n \in 1 .. Len(bus),
                      bus[n] = "sil", n < Rx!Contents(rx)[k].n
               PROVE  n <= override
    BY DEF OverrideInEffect, Applied
  <1>1. k \in 1 .. Len(Rx!Contents(rx)) /\ Rx!Contents(rx)[k] \in Frames
    BY RxFront, ContentsTyped, ElementOfSeq DEF QueuesTyped, TravelOK
  <1>2. Rx!Contents(rx)[k].n <= LastRead /\ Rx!Contents(rx)[k].n \in Nat
    BY <1>1, Numbers DEF OrderInv, UpTo
  <1>3. LastRead \in Nat /\ Read = 1 .. LastRead
    BY ContentsTyped DEF Read, LastRead
  <1>4. n \in ReadOf({"sil"})
    BY <1>2, <1>3 DEF ReadOf
  <1> QED
    BY <1>4 DEF Applied

\* SIL commands take effect whatever the load, and before any frame that was sent later.
THEOREM CommandsTakeEffect == Spec => []OverrideInEffect
  BY WaitingAreRead, AlwaysTyped, AlwaysApplied, OrderInit, OrderStep, PTL DEF Spec

-----------------------------------------------------------------------------
(* Types: the two counters stay below the number of frames the bus carries.   *)

InBody == pc \in {"drain", "branch", "rx", "meas"}

\* The loop stays in its body.
LEMMA PlaceStep == InBody /\ [Next]_vars => InBody'
  <1> SUFFICES ASSUME InBody, [Next]_vars PROVE InBody'
    OBVIOUS
  <1>1. ASSUME NEW kind \in Kinds, BusDelivers(kind) PROVE InBody'
    BY <1>1 DEF BusDelivers, InBody
  <1>2. CASE ReadFrame \/ ReceiveCanRx \/ MeasureVoltage \/ MeasureTemperature \/ UNCHANGED vars
    BY <1>2 DEF ReadFrame, ReceiveCanRx, MeasureVoltage, MeasureTemperature, vars, InBody
  <1>3. CASE SocketDrained \/ NotDueYet \/ Start1ms \/ CanRxEmpty \/ MeasureDone
    BY <1>3 DEF SocketDrained, NotDueYet, Start1ms, CanRxEmpty, MeasureDone, InBody
  <1> QED
    BY <1>1, <1>2, <1>3 DEF Next, Loop

\* What was read is numbered, and there is no more of it than was sent.
LEMMA ReadBounded ==
  ASSUME QueuesTyped, NEW K
  PROVE  ReadOf(K) \subseteq 1 .. MaxFrames /\ Cardinality(ReadOf(K)) <= MaxFrames
  <1>1. MaxFrames \in Nat
    BY QueuesAssumption
  <1>2. LastRead \in Nat /\ LastRead <= MaxFrames /\ Read = 1 .. LastRead
    BY <1>1, LengthsOK DEF QueuesTyped, TravelOK, Read, LastRead
  <1>3. ReadOf(K) \subseteq 1 .. MaxFrames
    BY <1>1, <1>2 DEF ReadOf
  <1>4. IsFiniteSet(1 .. MaxFrames) /\ Cardinality(1 .. MaxFrames) = MaxFrames
    BY <1>1, FS_Interval
  <1>5. Cardinality(ReadOf(K)) <= Cardinality(1 .. MaxFrames)
    BY <1>3, <1>4, FS_Subset
  <1> QED
    BY <1>3, <1>4, <1>5

\* Head and tail never leave their rings, whatever interleaves, and neither the override nor
\* the count of dropped frames exceeds what was sent, for every ring size
\* (hal_stubs_posix.c, posix_can_rx_inject and the AFE rings).
THEOREM QueueTypeCorrect == Spec => []TypeOK
  <1>1. Init => InBody
    BY DEF Init, InBody
  <1>2. QueuesTyped /\ EveryFrameAccounted /\ Applied /\ InBody => TypeOK
    <2> SUFFICES ASSUME QueuesTyped, EveryFrameAccounted, Applied, InBody PROVE TypeOK
      OBVIOUS
    <2>1. overflow \in Nat /\ rx \in Rx!Rings /\ MaxFrames \in Nat
          /\ bus \in Seq(Kinds) /\ Len(bus) <= MaxFrames /\ socket \in Seq(Frames)
      BY QueuesAssumption DEF QueuesTyped, TravelOK
    <2>2. overflow \in 0 .. MaxFrames
      <3>1. Len(delivered) \in Nat
        BY LenProperties DEF QueuesTyped
      <3>2. Rx!Occupied(rx) \in Nat
        BY <2>1, RxFront, RxRing
      <3>3. Cardinality(ReadOf(AppKinds)) \in Nat /\ Cardinality(ReadOf(AppKinds)) <= MaxFrames
        BY ReadFinite, ReadBounded
      <3>4. Cardinality(ReadOf(AppKinds)) = Len(delivered) + Rx!Occupied(rx) + overflow
        BY DEF EveryFrameAccounted
      <3> QED
        BY <2>1, <3>1, <3>2, <3>3, <3>4
    <2>3. override \in 0 .. MaxFrames
      <3>1. ReadOf({"sil"}) \subseteq 1 .. MaxFrames
        BY ReadBounded
      <3> QED
        BY <2>1, <3>1 DEF Applied
    <2>4. /\ delivered \in Seq(Frames) /\ measured \in Seq(Frames)
          /\ volt \in Afe!Rings /\ temp \in Afe!Rings
      BY DEF QueuesTyped
    <2> QED
      BY <2>1, <2>2, <2>3, <2>4 DEF TypeOK, InBody
  <1> QED
    BY <1>1, <1>2, PlaceStep, AlwaysTyped, AlwaysApplied, PTL DEF Spec

-----------------------------------------------------------------------------
(* The AFE rings.  Nothing in the code counts what they lose; the number is   *)
(* derived from what was delivered, what was measured and what still waits.   *)

\* When an AFE ring takes a frame, and when it does not.
LEMMA AfeFull ==
  ASSUME NEW r \in Afe!Rings
  PROVE  /\ Len(Afe!Contents(r)) \in 0 .. AfeSize - 1
         /\ Afe!IsFull(r) <=> Len(Afe!Contents(r)) = AfeSize - 1
         /\ \A f \in Frames :
              Afe!Contents(Afe!Enqueue(r, f)) =
                IF Afe!IsFull(r) THEN Afe!Contents(r) ELSE Append(Afe!Contents(r), f)
  <1>1. AfeR!SizeOK /\ r \in AfeR!Rings
    BY SameAfeRing, QueuesAssumption DEF AfeR!SizeOK
  <1>2. /\ AfeR!Occupied(r) \in 0 .. AfeSize - 1
        /\ AfeR!IsFull(r) <=> AfeR!Occupied(r) = AfeSize - 1
    BY <1>1, AfeR!OccupiedBounds
  <1>3. Len(AfeR!Contents(r)) = AfeR!Occupied(r)
    BY <1>1, AfeR!ContentsType
  <1>4. ASSUME NEW f \in Frames
        PROVE  Afe!Contents(Afe!Enqueue(r, f)) =
                 IF Afe!IsFull(r) THEN Afe!Contents(r) ELSE Append(Afe!Contents(r), f)
    <2>1. CASE Afe!IsFull(r)
      BY <2>1 DEF Afe!Enqueue
    <2>2. CASE ~Afe!IsFull(r)
      <3>1. ~AfeR!IsFull(r) /\ AfeR!Enqueue(r, f) \in AfeR!Rings
        BY <1>1, <2>2, SameAfeRing, AfeR!EnqueueType
      <3>2. AfeR!Contents(AfeR!Enqueue(r, f)) = Append(AfeR!Contents(r), f)
        BY <1>1, <3>1, AfeR!EnqueueAppends
      <3> QED
        BY <2>2, <3>1, <3>2, SameAfeRing
    <2> QED
      BY <2>1, <2>2
  <1> QED
    BY <1>1, <1>2, <1>3, <1>4, SameAfeRing

\* One frame more is one more of its kind, and none more of any other kind.
LEMMA OfKindAppend ==
  ASSUME NEW s \in Seq(Frames), NEW f \in Frames, NEW kind
  PROVE  /\ Cardinality(OfKind(s, kind)) \in Nat
         /\ Cardinality(OfKind(Append(s, f), kind)) =
              IF f.kind = kind THEN Cardinality(OfKind(s, kind)) + 1
                               ELSE Cardinality(OfKind(s, kind))
  <1> DEFINE K == OfKind(s, kind)
  <1>1. Len(s) \in Nat /\ K \subseteq 1 .. Len(s)
    BY LenProperties DEF OfKind
  <1>2. IsFiniteSet(K) /\ Cardinality(K) \in Nat
    <2>1. IsFiniteSet(1 .. Len(s))
      BY <1>1, FS_Interval
    <2>2. IsFiniteSet(K)
      BY <1>1, <2>1, FS_Subset
    <2> QED
      BY <2>2, FS_CardinalityType
  <1>3. Len(s) + 1 \notin K
    BY <1>1
  <1>4. /\ Len(Append(s, f)) = Len(s) + 1 /\ Append(s, f)[Len(s) + 1] = f
        /\ \A i \in 1 .. Len(s) : Append(s, f)[i] = s[i]
    BY AppendIs
  <1>5. 1 .. Len(s) + 1 = (1 .. Len(s)) \cup {Len(s) + 1}
    BY <1>1
  <1>6. OfKind(Append(s, f), kind) = IF f.kind = kind THEN K \cup {Len(s) + 1} ELSE K
    BY <1>4, <1>5 DEF OfKind
  <1>7. Cardinality(K \cup {Len(s) + 1}) = Cardinality(K) + 1
    BY <1>2, <1>3, FS_AddElement
  <1> QED
    BY <1>2, <1>6, <1>7

\* What a ring has lost: d was delivered, m measured, and c waits.
Loss(d, m, c, kind) == Cardinality(OfKind(d, kind)) - Cardinality(OfKind(m, kind)) - Len(c)

\* A delivered frame is lost if it is of the ring's kind and the ring does not take it.
LEMMA LossDelivered ==
  ASSUME NEW d \in Seq(Frames), NEW m \in Seq(Frames), NEW c \in Seq(Frames),
         NEW f \in Frames, NEW kind
  PROVE  /\ f.kind = kind => Loss(Append(d, f), m, Append(c, f), kind) = Loss(d, m, c, kind)
         /\ f.kind = kind => Loss(Append(d, f), m, c, kind) = Loss(d, m, c, kind) + 1
         /\ f.kind # kind => Loss(Append(d, f), m, c, kind) = Loss(d, m, c, kind)
  <1>1. /\ Cardinality(OfKind(d, kind)) \in Nat /\ Cardinality(OfKind(m, kind)) \in Nat
        /\ Cardinality(OfKind(Append(d, f), kind)) =
             IF f.kind = kind THEN Cardinality(OfKind(d, kind)) + 1
                              ELSE Cardinality(OfKind(d, kind))
    BY OfKindAppend
  <1>2. Len(c) \in Nat /\ Len(Append(c, f)) = Len(c) + 1
    BY AppendIs
  <1> QED
    BY <1>1, <1>2 DEF Loss

\* A measured frame left the ring of its kind, and is no loss.
LEMMA LossMeasured ==
  ASSUME NEW d \in Seq(Frames), NEW m \in Seq(Frames), NEW c \in Seq(Frames),
         NEW f \in Frames, NEW kind
  PROVE  /\ c # << >> /\ f.kind = kind =>
              Loss(d, Append(m, f), Tail(c), kind) = Loss(d, m, c, kind)
         /\ f.kind # kind => Loss(d, Append(m, f), c, kind) = Loss(d, m, c, kind)
  <1>1. /\ Cardinality(OfKind(d, kind)) \in Nat /\ Cardinality(OfKind(m, kind)) \in Nat
        /\ Cardinality(OfKind(Append(m, f), kind)) =
             IF f.kind = kind THEN Cardinality(OfKind(m, kind)) + 1
                              ELSE Cardinality(OfKind(m, kind))
    BY OfKindAppend
  <1>2. Len(c) \in Nat /\ (c # << >> => Len(Tail(c)) = Len(c) - 1)
    BY TailIs, LenProperties
  <1>3. ASSUME c # << >>, f.kind = kind
        PROVE  Loss(d, Append(m, f), Tail(c), kind) = Loss(d, m, c, kind)
    <2>1. Cardinality(OfKind(Append(m, f), kind)) = Cardinality(OfKind(m, kind)) + 1
      BY <1>1, <1>3
    <2> QED
      BY <1>1, <1>2, <1>3, <2>1 DEF Loss
  <1>4. ASSUME f.kind # kind
        PROVE  Loss(d, Append(m, f), c, kind) = Loss(d, m, c, kind)
    BY <1>1, <1>4 DEF Loss
  <1> QED
    BY <1>3, <1>4

\* What ReceiveCanRx does to a ring, full or not.
Offered(r, next, f, kind) ==
  next = IF f.kind # kind \/ Len(r) = AfeSize - 1 THEN r ELSE Append(r, f)

LEMMA ReceivedOffers ==
  ASSUME QueuesTyped, ReceiveCanRx
  PROVE  /\ Offered(Afe!Contents(volt), Afe!Contents(volt'), Rx!Front(rx), "volt")
         /\ Offered(Afe!Contents(temp), Afe!Contents(temp'), Rx!Front(rx), "temp")
  <1> DEFINE f == Rx!Front(rx)
  <1>1. f \in Frames /\ volt \in Afe!Rings /\ temp \in Afe!Rings
    BY Received DEF QueuesTyped
  <1>2. /\ volt' = IF f.kind = "volt" THEN Afe!Enqueue(volt, f) ELSE volt
        /\ temp' = IF f.kind = "temp" THEN Afe!Enqueue(temp, f) ELSE temp
    BY DEF ReceiveCanRx
  <1> HIDE DEF f
  <1>3. Offered(Afe!Contents(volt), Afe!Contents(volt'), f, "volt")
    BY <1>1, <1>2, AfeFull DEF Offered
  <1>4. Offered(Afe!Contents(temp), Afe!Contents(temp'), f, "temp")
    BY <1>1, <1>2, AfeFull DEF Offered
  <1> QED
    BY <1>3, <1>4 DEF f

\* What waits in a ring is of its kind.
LEMMA HeadKinds ==
  ASSUME QueuesTyped, OrderInv
  PROVE  /\ Afe!Contents(volt) # << >> => Head(Afe!Contents(volt)).kind = "volt"
         /\ Afe!Contents(temp) # << >> => Head(Afe!Contents(temp)).kind = "temp"
  <1>1. WaitInOrder(Afe!Contents(volt), "volt") /\ WaitInOrder(Afe!Contents(temp), "temp")
    BY DEF OrderInv, InOrder
  <1>2. Afe!Contents(volt) \in Seq(Frames) /\ Afe!Contents(temp) \in Seq(Frames)
    BY ContentsTyped
  <1> DEFINE v == Afe!Contents(volt)
             t == Afe!Contents(temp)
  <1> HIDE DEF v, t
  <1>3. ASSUME NEW s \in Seq(Frames), NEW kind, WaitInOrder(s, kind), s # << >>
        PROVE  Head(s).kind = kind
    BY <1>3, TailIs DEF WaitInOrder
  <1> QED
    BY <1>1, <1>2, <1>3

-----------------------------------------------------------------------------
(* Each step is a step of the voltage ring's FIFO, and of the temperature's.  *)

VoltStep == VoltFifo!Next \/ UNCHANGED VoltFifo!fifoVars
TempStep == TempFifo!Next \/ UNCHANGED TempFifo!fifoVars

\* The same, in terms of contents and loss.
FifoStep(c, d, l, k) ==
  \/ \E f \in Frames : Len(c) < AfeSize - 1 /\ d = Append(c, f) /\ k = l
  \/ Len(c) = AfeSize - 1 /\ k = l + 1 /\ d = c
  \/ c # << >> /\ d = Tail(c) /\ k = l
  \/ d = c /\ k = l

LEMMA StepIs ==
  /\ FifoStep(Afe!Contents(volt), Afe!Contents(volt'),
              Loss(delivered, measured, Afe!Contents(volt), "volt"),
              Loss(delivered', measured', Afe!Contents(volt'), "volt")) => VoltStep
  /\ FifoStep(Afe!Contents(temp), Afe!Contents(temp'),
              Loss(delivered, measured, Afe!Contents(temp), "temp"),
              Loss(delivered', measured', Afe!Contents(temp'), "temp")) => TempStep
  <1>1. /\ Uncounted("volt", volt) = Loss(delivered, measured, Afe!Contents(volt), "volt")
        /\ Uncounted("temp", temp) = Loss(delivered, measured, Afe!Contents(temp), "temp")
        /\ Uncounted("volt", volt)' = Loss(delivered', measured', Afe!Contents(volt'), "volt")
        /\ Uncounted("temp", temp)' = Loss(delivered', measured', Afe!Contents(temp'), "temp")
    BY DEF Uncounted, Loss
  <1>2. Afe!Contents(volt)' = Afe!Contents(volt') /\ Afe!Contents(temp)' = Afe!Contents(temp')
    BY DEF Afe!Contents, Afe!Occupied, Afe!SlotAt
  <1> QED
    BY <1>1, <1>2
    DEF FifoStep, VoltStep, TempStep, VoltFifo!Next, VoltFifo!Put, VoltFifo!Lose, VoltFifo!Get,
        VoltFifo!fifoVars, TempFifo!Next, TempFifo!Put, TempFifo!Lose, TempFifo!Get,
        TempFifo!fifoVars

\* A frame offered is put or lost, or none of the ring's business.
LEMMA OfferedStep ==
  ASSUME NEW d \in Seq(Frames), NEW m \in Seq(Frames), NEW c \in Seq(Frames),
         NEW next, NEW f \in Frames, NEW kind,
         Len(c) \in 0 .. AfeSize - 1, Offered(c, next, f, kind)
  PROVE  FifoStep(c, next, Loss(d, m, c, kind), Loss(Append(d, f), m, next, kind))
  <1>1. CASE f.kind # kind
    BY <1>1, LossDelivered DEF Offered, FifoStep
  <1>2. CASE f.kind = kind /\ Len(c) = AfeSize - 1
    BY <1>2, LossDelivered DEF Offered, FifoStep
  <1>3. CASE f.kind = kind /\ Len(c) # AfeSize - 1
    <2>1. next = Append(c, f) /\ Len(c) < AfeSize - 1
      BY <1>3, QueuesAssumption DEF Offered
    <2>2. Loss(Append(d, f), m, next, kind) = Loss(d, m, c, kind)
      BY <1>3, <2>1, LossDelivered
    <2> QED
      BY <2>1, <2>2 DEF FifoStep
  <1> QED
    BY <1>1, <1>2, <1>3

LEMMA AfeReceive == QueuesTyped /\ ReceiveCanRx => VoltStep /\ TempStep
  <1> SUFFICES ASSUME QueuesTyped, ReceiveCanRx PROVE VoltStep /\ TempStep
    OBVIOUS
  <1> DEFINE f == Rx!Front(rx)
             v == Afe!Contents(volt)
             t == Afe!Contents(temp)
             w == Afe!Contents(volt')
             u == Afe!Contents(temp')
  <1>1. delivered' = Append(delivered, f) /\ measured' = measured /\ f \in Frames
    BY Received DEF ReceiveCanRx
  <1>2. delivered \in Seq(Frames) /\ measured \in Seq(Frames) /\ v \in Seq(Frames)
        /\ t \in Seq(Frames) /\ Len(v) \in 0 .. AfeSize - 1 /\ Len(t) \in 0 .. AfeSize - 1
    BY ContentsTyped, AfeFull DEF QueuesTyped
  <1>3. Offered(v, w, f, "volt") /\ Offered(t, u, f, "temp")
    BY ReceivedOffers
  <1> HIDE DEF f, v, t, w, u
  <1>4. FifoStep(v, w, Loss(delivered, measured, v, "volt"),
                 Loss(Append(delivered, f), measured, w, "volt"))
    BY <1>1, <1>2, <1>3, OfferedStep
  <1>5. FifoStep(t, u, Loss(delivered, measured, t, "temp"),
                 Loss(Append(delivered, f), measured, u, "temp"))
    BY <1>1, <1>2, <1>3, OfferedStep
  <1>6. /\ FifoStep(v, w, Loss(delivered, measured, v, "volt"),
                    Loss(delivered', measured', w, "volt"))
        /\ FifoStep(t, u, Loss(delivered, measured, t, "temp"),
                    Loss(delivered', measured', u, "temp"))
    BY <1>1, <1>4, <1>5
  <1> QED
    BY <1>6, StepIs DEF v, w, t, u

LEMMA AfeVoltage == QueuesTyped /\ OrderInv /\ MeasureVoltage => VoltStep /\ TempStep
  <1> SUFFICES ASSUME QueuesTyped, OrderInv, MeasureVoltage PROVE VoltStep /\ TempStep
    OBVIOUS
  <1> DEFINE v == Afe!Contents(volt)
             t == Afe!Contents(temp)
             w == Afe!Contents(volt')
             u == Afe!Contents(temp')
             f == Head(v)
  <1>1. /\ v # << >> /\ measured' = Append(measured, f) /\ w = Tail(v) /\ u = t
        /\ delivered' = delivered
    BY MeasuredVoltage DEF Aside
  <1>2. delivered \in Seq(Frames) /\ measured \in Seq(Frames) /\ v \in Seq(Frames)
        /\ t \in Seq(Frames)
    BY ContentsTyped DEF QueuesTyped
  <1>3. f.kind = "volt" /\ f \in Frames
    BY <1>1, <1>2, HeadKinds, TailIs
  <1> HIDE DEF f, v, t, w, u
  <1>4. Loss(delivered', measured', w, "volt") = Loss(delivered, measured, v, "volt")
    BY <1>1, <1>2, <1>3, LossMeasured
  <1>5. Loss(delivered', measured', u, "temp") = Loss(delivered, measured, t, "temp")
    BY <1>1, <1>2, <1>3, LossMeasured
  <1>6. /\ FifoStep(v, w, Loss(delivered, measured, v, "volt"),
                    Loss(delivered', measured', w, "volt"))
        /\ FifoStep(t, u, Loss(delivered, measured, t, "temp"),
                    Loss(delivered', measured', u, "temp"))
    BY <1>1, <1>4, <1>5 DEF FifoStep
  <1> QED
    BY <1>6, StepIs DEF v, w, t, u

LEMMA AfeTemperature == QueuesTyped /\ OrderInv /\ MeasureTemperature => VoltStep /\ TempStep
  <1> SUFFICES ASSUME QueuesTyped, OrderInv, MeasureTemperature PROVE VoltStep /\ TempStep
    OBVIOUS
  <1> DEFINE v == Afe!Contents(volt)
             t == Afe!Contents(temp)
             w == Afe!Contents(volt')
             u == Afe!Contents(temp')
             f == Head(t)
  <1>1. /\ t # << >> /\ measured' = Append(measured, f) /\ u = Tail(t) /\ w = v
        /\ delivered' = delivered
    BY MeasuredTemperature DEF Aside
  <1>2. delivered \in Seq(Frames) /\ measured \in Seq(Frames) /\ v \in Seq(Frames)
        /\ t \in Seq(Frames)
    BY ContentsTyped DEF QueuesTyped
  <1>3. f.kind = "temp" /\ f \in Frames
    BY <1>1, <1>2, HeadKinds, TailIs
  <1> HIDE DEF f, v, t, w, u
  <1>4. Loss(delivered', measured', u, "temp") = Loss(delivered, measured, t, "temp")
    BY <1>1, <1>2, <1>3, LossMeasured
  <1>5. Loss(delivered', measured', w, "volt") = Loss(delivered, measured, v, "volt")
    BY <1>1, <1>2, <1>3, LossMeasured
  <1>6. /\ FifoStep(v, w, Loss(delivered, measured, v, "volt"),
                    Loss(delivered', measured', w, "volt"))
        /\ FifoStep(t, u, Loss(delivered, measured, t, "temp"),
                    Loss(delivered', measured', u, "temp"))
    BY <1>1, <1>4, <1>5 DEF FifoStep
  <1> QED
    BY <1>6, StepIs DEF v, w, t, u

LEMMA AfeStill == UNCHANGED <<volt, temp, delivered, measured>> => VoltStep /\ TempStep
  BY DEF VoltStep, TempStep, VoltFifo!fifoVars, TempFifo!fifoVars, Uncounted

LEMMA AfeStep ==
  QueuesTyped /\ OrderInv /\ [Next]_vars
    => [VoltFifo!Next]_VoltFifo!fifoVars /\ [TempFifo!Next]_TempFifo!fifoVars
  <1> SUFFICES ASSUME QueuesTyped, OrderInv, [Next]_vars PROVE VoltStep /\ TempStep
    BY DEF VoltStep, TempStep
  <1>1. ASSUME NEW kind \in Kinds, BusDelivers(kind) PROVE VoltStep /\ TempStep
    BY <1>1, AfeStill DEF BusDelivers
  <1>2. CASE ReadFrame
    BY <1>2, AfeStill DEF ReadFrame
  <1>3. CASE ReceiveCanRx
    BY <1>3, AfeReceive
  <1>4. CASE MeasureVoltage
    BY <1>4, AfeVoltage
  <1>5. CASE MeasureTemperature
    BY <1>5, AfeTemperature
  <1>6. CASE Aside /\ UNCHANGED <<volt, temp, measured>>
    BY <1>6, AfeStill DEF Aside
  <1> QED
    BY <1>1, <1>2, <1>3, <1>4, <1>5, <1>6, StillSteps DEF Next, Loop

LEMMA AfeInit == Init => VoltFifo!Init /\ TempFifo!Init
  <1> SUFFICES ASSUME Init PROVE VoltFifo!Init /\ TempFifo!Init
    OBVIOUS
  <1>1. volt \in Afe!Rings /\ temp \in Afe!Rings
    BY TypedInit DEF QueuesTyped
  <1>2. Afe!IsEmpty(volt) /\ Afe!IsEmpty(temp)
    BY DEF Init, Afe!EmptyRing, Afe!IsEmpty
  <1>3. Afe!Contents(volt) = << >> /\ Afe!Contents(temp) = << >>
    BY <1>1, <1>2, AfeRing
  <1>4. \A kind : OfKind(<< >>, kind) = {}
    BY EmptySeq DEF OfKind
  <1>5. delivered = << >> /\ measured = << >> /\ Cardinality({}) = 0 /\ Len(<< >>) = 0
    BY FS_EmptySet, EmptySeq DEF Init
  <1>6. \A kind : Cardinality(OfKind(delivered, kind)) = 0 /\ Cardinality(OfKind(measured, kind)) = 0
    BY <1>4, <1>5
  <1>7. Uncounted("volt", volt) = 0 - 0 - 0 /\ Uncounted("temp", temp) = 0 - 0 - 0
    BY <1>3, <1>5, <1>6 DEF Uncounted
  <1>8. Uncounted("volt", volt) = 0 /\ Uncounted("temp", temp) = 0
    BY <1>7
  <1> QED
    BY <1>3, <1>8 DEF VoltFifo!Init, TempFifo!Init

\* For every size of the rings and every interleaving: the RX ring and both AFE rings are
\* bounded FIFOs.  A frame MEAS_Control does not get to see found its ring full, and nothing
\* else; only for the RX ring does the code count it.
THEOREM AllRingsAreFifos == Spec => RingsAreFifos
  <1>1. Spec => VoltFifo!Spec /\ TempFifo!Spec
    BY AfeInit, AfeStep, AlwaysTyped, OrderInit, OrderStep, PTL DEF Spec, VoltFifo!Spec, TempFifo!Spec
  <1> QED
    BY <1>1, RxRingIsFifo DEF RingsAreFifos

=============================================================================
