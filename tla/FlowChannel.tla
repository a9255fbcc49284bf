----------------------------- MODULE FlowChannel ----------------------------
(***************************************************************************)
(* What the relay promises the flow to each destination.  Packets are      *)
(* numbered as they arrive, and each number is offered once.  An accepted  *)
(* packet waits; the oldest one that waits is batched, or, to a            *)
(* destination with a connection, goes out at once and so past those in    *)
(* the batch; the batch goes out oldest first.  Any packet may be lost on  *)
(* the way and none is repeated.  Without a connection the channel is a    *)
(* lossy FIFO.                                                             *)
(***************************************************************************)
EXTENDS Naturals, Sequences

CONSTANTS Dest, Direct, MaxNumber

VARIABLES offered,    \* the number of the last packet that arrived
          waiting,    \* the packets that wait, for each destination
          batched,    \* the packets in the batch
          delivered   \* the packets that came out, with their way out

channel == <<offered, waiting, batched, delivered>>

Init == /\ offered = 0
        /\ waiting = [d \in Dest |-> {}]
        /\ batched = [d \in Dest |-> {}]
        /\ delivered = [d \in Dest |-> <<>>]

Arrive == offered < MaxNumber /\ offered' = offered + 1

Accept(d) ==
  /\ Arrive
  /\ waiting' = [waiting EXCEPT ![d] = @ \cup {offered + 1}]
  /\ UNCHANGED <<batched, delivered>>

Refuse == Arrive /\ UNCHANGED <<waiting, batched, delivered>>

Oldest(n, S) == n \in S /\ \A m \in S : n <= m

Batch(d, n) ==
  /\ Oldest(n, waiting[d])
  /\ waiting' = [waiting EXCEPT ![d] = @ \ {n}]
  /\ batched' = [batched EXCEPT ![d] = @ \cup {n}]
  /\ UNCHANGED <<offered, delivered>>

Deliver(d, n, via) == delivered' = [delivered EXCEPT ![d] = Append(@, [n |-> n, via |-> via])]

DeliverDirect(d, n) ==
  /\ d \in Direct /\ Oldest(n, waiting[d])
  /\ waiting' = [waiting EXCEPT ![d] = @ \ {n}]
  /\ Deliver(d, n, "wss")
  /\ UNCHANGED <<offered, batched>>

DeliverBatched(d, n) ==
  /\ Oldest(n, batched[d])
  /\ batched' = [batched EXCEPT ![d] = @ \ {n}]
  /\ Deliver(d, n, "udp")
  /\ UNCHANGED <<offered, waiting>>

(* A worker that panics loses several packets at once.                      *)
Lose(lost) ==
  /\ waiting' = [d \in Dest |-> waiting[d] \ lost]
  /\ batched' = [d \in Dest |-> batched[d] \ lost]
  /\ UNCHANGED <<offered, delivered>>

Number == 1 .. MaxNumber

Next ==
  \/ Refuse
  \/ \E lost \in SUBSET Number : Lose(lost)
  \/ \E d \in Dest :
       \/ Accept(d)
       \/ \E n \in Number : Batch(d, n) \/ DeliverDirect(d, n) \/ DeliverBatched(d, n)

Spec == Init /\ [][Next]_channel
=============================================================================
