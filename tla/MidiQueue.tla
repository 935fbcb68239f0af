----------------------------- MODULE MidiQueue -----------------------------
(***************************************************************************)
(* What MidiFifo.hpp promises its two threads, without indices, slots or   *)
(* memory order: a bounded first-in first-out queue.  The producer appends *)
(* at the back and is refused when the queue is full, the consumer gets    *)
(* the front, clear throws away a prefix (the events published before the  *)
(* clear looked; an event pushed while the clear runs may survive it).     *)
(***************************************************************************)
EXTENDS Naturals, Sequences

CONSTANTS
  Event,      \* the events that may be queued
  NoEvent,    \* what the consumer holds before its first event
  Capacity    \* the bound of the queue

VARIABLES
  queue,      \* the accepted events that have not left, oldest first
  out         \* the event the consumer got last

queueVars == <<queue, out>>

QueueInit == queue = <<>> /\ out = NoEvent

Accept(e) ==
  /\ Len(queue) < Capacity
  /\ queue' = Append(queue, e)
  /\ UNCHANGED out

Take ==
  /\ queue # <<>>
  /\ out' = Head(queue)
  /\ queue' = Tail(queue)

Discard(n) ==
  /\ queue' = SubSeq(queue, n + 1, Len(queue))
  /\ UNCHANGED out

QueueNext ==
  \/ \E e \in Event : Accept(e)
  \/ Take
  \/ \E n \in 1..Len(queue) : Discard(n)

QueueSpec == QueueInit /\ [][QueueNext]_queueVars

=============================================================================
