------------------------------ MODULE EventBus ------------------------------
(***************************************************************************)
(* The engine's fan-out channel (crates/engine/src/bus.rs over             *)
(* tokio::sync::broadcast): one bounded queue as each receiver sees it.  A *)
(* receiver more than Capacity events behind loses the oldest ones and is  *)
(* told so, once, by its next recv.  Publishing never blocks.              *)
(***************************************************************************)
EXTENDS Naturals, Sequences

CONSTANTS Receivers,      \* the tasks that called subscribe()
          LateReceivers,  \* those that subscribe only after the publisher has started
          Capacity        \* undelivered events kept per receiver (4096 in the daemon)

ASSUME BusAssumption == Capacity \in Nat \ {0} /\ LateReceivers \subseteq Receivers

VARIABLE bus              \* receiver -> what its next recv() calls will yield

Channel(Events) == [queue : Seq(Events), lagged : BOOLEAN]

EmptyChannel == [queue |-> <<>>, lagged |-> FALSE]

\* What a receiver holds after `events` were sent, in order, while it did not run.
Deliver(channel, events) ==
  LET all  == channel.queue \o events
      over == Len(all) - Capacity
  IN IF Len(all) > Capacity
     THEN [queue |-> SubSeq(all, over + 1, Len(all)), lagged |-> TRUE]
     ELSE [queue |-> all, lagged |-> channel.lagged]

Publish(events) == bus' = [r \in Receivers |-> Deliver(bus[r], events)]

\* A process that starts has a new channel, on which it publishes `events`; a late
\* receiver hears those sent after it subscribed.
PublishAfresh(events) ==
  \E missed \in [Receivers -> 0..Len(events)] :
    /\ \A r \in Receivers \ LateReceivers : missed[r] = 0
    /\ bus' = [r \in Receivers |->
                 Deliver(EmptyChannel, SubSeq(events, missed[r] + 1, Len(events)))]

\* recv() yields RecvError::Lagged: the gap is reported and the queue goes on from
\* the oldest event still held.
ReceiveLag(r) ==
  /\ bus[r].lagged
  /\ bus' = [bus EXCEPT ![r].lagged = FALSE]

\* recv() yields an event.
CanReceive(r) == ~bus[r].lagged /\ bus[r].queue # <<>>

Receive(r) ==
  /\ CanReceive(r)
  /\ bus' = [bus EXCEPT ![r].queue = Tail(@)]

Received(r) == Head(bus[r].queue)

Drained(r) == ~bus[r].lagged /\ bus[r].queue = <<>>

BusInit == bus = [r \in Receivers |-> EmptyChannel]
=============================================================================
