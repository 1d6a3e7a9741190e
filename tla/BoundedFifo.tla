---------------------------- MODULE BoundedFifo ----------------------------
(***************************************************************************)
(* What a queue of the POSIX port promises its producer and its consumer:  *)
(* at most Capacity items, handed out in the order they came in, each at   *)
(* most once; an item that finds the queue full is lost and nothing else   *)
(* is.                                                                     *)
(***************************************************************************)
EXTENDS Naturals, Sequences

CONSTANTS Capacity, Items

VARIABLES
  queue,    \* the items waiting, oldest first
  lost      \* how many items found the queue full

fifoVars == <<queue, lost>>

Init == queue = << >> /\ lost = 0

Put(item) ==
  /\ Len(queue) < Capacity
  /\ queue' = Append(queue, item)
  /\ UNCHANGED lost

Lose ==
  /\ Len(queue) = Capacity
  /\ lost' = lost + 1
  /\ UNCHANGED queue

Get ==
  /\ queue # << >>
  /\ queue' = Tail(queue)
  /\ UNCHANGED lost

Next == (\E item \in Items : Put(item)) \/ Lose \/ Get

Spec == Init /\ [][Next]_fifoVars

=============================================================================
