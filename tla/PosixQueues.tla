----------------------------- MODULE PosixQueues -----------------------------
(***************************************************************************)
(* The way of a CAN frame into the application (foxbms_posix_main.c and    *)
(* hal_stubs_posix.c): the main loop empties the non-blocking socket;      *)
(* error, remote and extended frames are skipped, SIL commands are applied *)
(* on the spot, all others go into the RX ring.  The 1 ms task takes them  *)
(* from there and calls the application's callbacks, which put the cell    *)
(* voltages and temperatures into the AFE rings that MEAS_Control reads.   *)
(*                                                                         *)
(* The application's task bodies are outside this repository; they are     *)
(* modelled by their use of OS_ReceiveFromQueue and OS_SendToBackOfQueue.  *)
(***************************************************************************)
EXTENDS Integers, Sequences, FiniteSets

CONSTANTS
  RxSize,      \* POSIX_CAN_RX_BUF_SIZE
  AfeSize,     \* POSIX_AFE_QUEUE_SIZE
  MaxFrames    \* bound of the model: frames the bus ever carries

ASSUME QueuesAssumption ==
  /\ RxSize \in Nat /\ RxSize > 1
  /\ AfeSize \in Nat /\ AfeSize > 1
  /\ MaxFrames \in Nat \ {0}

\* volt, temp: the 0x270 and 0x280 frames; app: any other frame for foxBMS;
\* sil: 0x7E0; flagged: error, remote or extended frames.
AppKinds == {"volt", "temp", "app"}
Kinds == AppKinds \cup {"sil", "flagged"}

\* The n-th frame on the bus.
Frames == [kind : Kinds, n : 1 .. MaxFrames]
Zeroed == [kind |-> "app", n |-> 1]

Rx  == INSTANCE PosixRing WITH Size <- RxSize, Items <- Frames
Afe == INSTANCE PosixRing WITH Size <- AfeSize, Items <- Frames

VARIABLES
  bus,         \* history: the kinds of the frames sent so far, in order
  socket,      \* frames in the receive buffer of the CAN socket
  pc,          \* where the main loop is: drain, branch, rx, meas
  rx,          \* posix_can_rx_buf, _head, _tail
  overflow,    \* posix_can_rx_overflow_count
  override,    \* the SIL command applied last, 0 if none: the table's content
  volt, temp,  \* posix_afe_volt_*, posix_afe_temp_*
  delivered,   \* history: frames handed to the application's callbacks
  measured     \* history: frames read by MEAS_Control

vars == <<bus, socket, pc, rx, overflow, override, volt, temp, delivered, measured>>

\* Head and tail never leave their ring, however often they wrap around.
TypeOK ==
  /\ bus \in Seq(Kinds) /\ Len(bus) <= MaxFrames
  /\ socket \in Seq(Frames)
  /\ pc \in {"drain", "branch", "rx", "meas"}
  /\ rx \in Rx!Rings
  /\ overflow \in 0 .. MaxFrames
  /\ override \in 0 .. MaxFrames
  /\ volt \in Afe!Rings /\ temp \in Afe!Rings
  /\ delivered \in Seq(Frames) /\ measured \in Seq(Frames)

Init ==
  /\ bus = << >> /\ socket = << >> /\ pc = "drain"
  /\ rx = Rx!EmptyRing(Zeroed) /\ overflow = 0 /\ override = 0
  /\ volt = Afe!EmptyRing(Zeroed) /\ temp = Afe!EmptyRing(Zeroed)
  /\ delivered = << >> /\ measured = << >>

-----------------------------------------------------------------------------
(* The bus delivers frames to the socket at any time, in order.            *)
BusDelivers(kind) ==
  /\ Len(bus) < MaxFrames
  /\ bus' = Append(bus, kind)
  /\ socket' = Append(socket, [kind |-> kind, n |-> Len(bus) + 1])
  /\ UNCHANGED <<pc, rx, overflow, override, volt, temp, delivered, measured>>

\* A faulty variant: the frame is dropped but not counted.
RxInjectUncounted(frame) ==
  /\ rx' = Rx!Enqueue(rx, frame)
  /\ UNCHANGED overflow

(* posix_can_rx_inject: a full ring drops the frame and counts it. *)
RxInject(frame) ==
  /\ rx' = Rx!Enqueue(rx, frame)
  /\ overflow' = IF Rx!IsFull(rx) THEN overflow + 1 ELSE overflow

\* A faulty variant: a full ring drops SIL commands too.
ReadFrameDropsCommands ==
  /\ pc = "drain" /\ socket # << >>
  /\ socket' = Tail(socket)
  /\ LET frame == Head(socket) IN
     \/ frame.kind = "flagged" /\ UNCHANGED <<rx, overflow, override>>
     \/ frame.kind = "sil" /\ ~Rx!IsFull(rx) /\ override' = frame.n /\ UNCHANGED <<rx, overflow>>
     \/ frame.kind = "sil" /\ Rx!IsFull(rx) /\ UNCHANGED <<rx, overflow, override>>
     \/ frame.kind \in AppKinds /\ RxInject(frame) /\ UNCHANGED override
  /\ UNCHANGED <<bus, pc, volt, temp, delivered, measured>>

(* One turn of the read loop. *)
ReadFrame ==
  /\ pc = "drain" /\ socket # << >>
  /\ socket' = Tail(socket)
  /\ LET frame == Head(socket) IN
     \/ frame.kind = "flagged" /\ UNCHANGED <<rx, overflow, override>>
     \/ frame.kind = "sil" /\ override' = frame.n /\ UNCHANGED <<rx, overflow>>
     \/ frame.kind \in AppKinds /\ RxInject(frame) /\ UNCHANGED override
  /\ UNCHANGED <<bus, pc, volt, temp, delivered, measured>>

(* The read returned nothing: on to the branches of the loop body. *)
SocketDrained ==
  /\ pc = "drain" /\ socket = << >>
  /\ pc' = "branch"
  /\ UNCHANGED <<bus, socket, rx, overflow, override, volt, temp, delivered, measured>>

(* Less than a millisecond since the last 1 ms task: the loop starts over. *)
NotDueYet ==
  /\ pc = "branch" /\ pc' = "drain"
  /\ UNCHANGED <<bus, socket, rx, overflow, override, volt, temp, delivered, measured>>

Start1ms ==
  /\ pc = "branch" /\ pc' = "rx"
  /\ UNCHANGED <<bus, socket, rx, overflow, override, volt, temp, delivered, measured>>

(* CAN_ReadRxBuffer takes one frame and calls back; the callback of a cell frame *)
(* queues it for the AFE driver, and a full AFE ring drops it without a trace.   *)
ReceiveCanRx ==
  /\ pc = "rx" /\ ~Rx!IsEmpty(rx)
  /\ rx' = Rx!Dequeue(rx)
  /\ LET frame == Rx!Front(rx) IN
     /\ delivered' = Append(delivered, frame)
     /\ volt' = IF frame.kind = "volt" THEN Afe!Enqueue(volt, frame) ELSE volt
     /\ temp' = IF frame.kind = "temp" THEN Afe!Enqueue(temp, frame) ELSE temp
  /\ UNCHANGED <<bus, socket, pc, overflow, override, measured>>

(* OS_ReceiveFromQueue fails on the empty RX ring: MEAS_Control is next. *)
CanRxEmpty ==
  /\ pc = "rx" /\ Rx!IsEmpty(rx)
  /\ pc' = "meas"
  /\ UNCHANGED <<bus, socket, rx, overflow, override, volt, temp, delivered, measured>>

\* A faulty variant: the item stays in the ring and is measured again.
MeasureVoltageAgain ==
  /\ pc = "meas" /\ ~Afe!IsEmpty(volt)
  /\ measured' = Append(measured, Afe!Front(volt))
  /\ UNCHANGED <<bus, socket, pc, rx, overflow, override, volt, temp, delivered>>

(* The AFE driver reads one item of either ring. *)
MeasureVoltage ==
  /\ pc = "meas" /\ ~Afe!IsEmpty(volt)
  /\ measured' = Append(measured, Afe!Front(volt))
  /\ volt' = Afe!Dequeue(volt)
  /\ UNCHANGED <<bus, socket, pc, rx, overflow, override, temp, delivered>>

MeasureTemperature ==
  /\ pc = "meas" /\ ~Afe!IsEmpty(temp)
  /\ measured' = Append(measured, Afe!Front(temp))
  /\ temp' = Afe!Dequeue(temp)
  /\ UNCHANGED <<bus, socket, pc, rx, overflow, override, volt, delivered>>

(* How much it reads in one call is the driver's affair. *)
MeasureDone ==
  /\ pc = "meas" /\ pc' = "drain"
  /\ UNCHANGED <<bus, socket, rx, overflow, override, volt, temp, delivered, measured>>

Loop == ReadFrame \/ SocketDrained \/ NotDueYet \/ Start1ms \/ ReceiveCanRx
          \/ CanRxEmpty \/ MeasureVoltage \/ MeasureTemperature \/ MeasureDone

Next == (\E kind \in Kinds : BusDelivers(kind)) \/ Loop

Spec == Init /\ [][Next]_vars

\* The loop never blocks, and however short an iteration is, time passes: the
\* 1 ms branch is taken again and again.
FairSpec == Spec /\ WF_vars(Loop) /\ SF_vars(Start1ms)

-----------------------------------------------------------------------------
(* Properties.                                                             *)

Increasing(frames) ==
  \A i, j \in 1 .. Len(frames) : i < j => frames[i].n < frames[j].n

Precede(frames, later) ==
  \A i \in 1 .. Len(frames), j \in 1 .. Len(later) : frames[i].n < later[j].n

\* Among the frames, those of each kind are in bus order.
IncreasingByKind(frames) ==
  \A i, j \in 1 .. Len(frames) :
    i < j /\ frames[i].kind = frames[j].kind => frames[i].n < frames[j].n

\* What was measured of a kind is older than what waits in the AFE ring of that kind.
WaitInOrder(ring, kind) ==
  /\ Increasing(ring)
  /\ \A j \in 1 .. Len(ring) : ring[j].kind = kind
  /\ \A i \in 1 .. Len(measured), j \in 1 .. Len(ring) :
       measured[i].kind = kind => measured[i].n < ring[j].n

\* The frames read from the socket so far.
Read == 1 .. Len(bus) - Len(socket)
ReadOf(kinds) == {n \in Read : bus[n] \in kinds}

\* Every application frame read from the socket was delivered, waits in the ring, or
\* was counted as an overflow: nothing disappears uncounted on the CAN side.
EveryFrameAccounted ==
  Cardinality(ReadOf(AppKinds)) = Len(delivered) + Rx!Occupied(rx) + overflow

\* A SIL command takes effect whatever the load: it is never dropped with the
\* frames around it, and when a frame waits for or reached the application, every
\* command sent before that frame has been applied, the last one last.
OverrideInEffect ==
  /\ override \in ReadOf({"sil"}) \cup {0}
  /\ \A n \in ReadOf({"sil"}) : n <= override
  /\ \A k \in 1 .. Rx!Occupied(rx), n \in 1 .. Len(bus) :
       bus[n] = "sil" /\ n < Rx!Contents(rx)[k].n => n <= override

\* However full the rings get and however often head and tail wrap around: what the
\* application receives, followed by what it still has to receive, is in bus order and
\* contains no frame twice; and so are the measurements of one kind, which all come from
\* frames the application has received.
InOrder ==
  /\ Increasing(delivered) /\ Increasing(Rx!Contents(rx))
  /\ Precede(delivered, Rx!Contents(rx))
  /\ IncreasingByKind(measured)
  /\ WaitInOrder(Afe!Contents(volt), "volt") /\ WaitInOrder(Afe!Contents(temp), "temp")
  /\ \A i \in 1 .. Len(measured) : \E j \in 1 .. Len(delivered) :
       measured[i] = delivered[j]

\* The RX ring is a bounded FIFO of RxSize - 1 frames that loses the newest frame
\* when full, and counts it.
RxFifo == INSTANCE BoundedFifo WITH
  Capacity <- RxSize - 1, Items <- Frames, queue <- Rx!Contents(rx), lost <- overflow
RxIsFifo == RxFifo!Spec

\* Which of the frames are of this kind.
OfKind(frames, kind) == {i \in 1 .. Len(frames) : frames[i].kind = kind}

\* What an AFE ring has lost, which the code does not count: the frames of its kind that were
\* delivered, and neither measured nor waiting in the ring.
Uncounted(kind, ring) ==
  Cardinality(OfKind(delivered, kind)) - Cardinality(OfKind(measured, kind)) - Len(Afe!Contents(ring))

VoltFifo == INSTANCE BoundedFifo WITH
  Capacity <- AfeSize - 1, Items <- Frames,
  queue <- Afe!Contents(volt), lost <- Uncounted("volt", volt)
TempFifo == INSTANCE BoundedFifo WITH
  Capacity <- AfeSize - 1, Items <- Frames,
  queue <- Afe!Contents(temp), lost <- Uncounted("temp", temp)

\* So are the AFE rings: what MEAS_Control does not get to see found its ring full, and the
\* only difference to the RX ring is that nothing counts it.
RingsAreFifos == RxIsFifo /\ VoltFifo!Spec /\ TempFifo!Spec

\* A frame the ring accepted reaches the application.
AcceptedIsDelivered ==
  \A n \in 1 .. MaxFrames :
    (\E k \in 1 .. Rx!Occupied(rx) : Rx!Contents(rx)[k].n = n)
      ~> (\E i \in 1 .. Len(delivered) : delivered[i].n = n)

=============================================================================
