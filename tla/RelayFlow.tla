------------------------------ MODULE RelayFlow -----------------------------
(***************************************************************************)
(* The relay pipeline implements the channel of FlowChannel: a packet      *)
(* waits while it is in a worker's queue or hands, whichever worker that   *)
(* is, and the connections of the channel are those over WSS.              *)
(***************************************************************************)
EXTENDS Relay

NumbersTo(s, d) == {s[i].n : i \in {k \in DOMAIN s : s[k].dest = d}}

HeldTo(j, d) == IF j # NoJob /\ j.dest = d THEN {j.n} ELSE {}

WaitingTo == [d \in NodeId |->
                UNION {HeldTo(job[w], d) \cup NumbersTo(relayChs[w], d) : w \in Worker}]

BatchedTo == [d \in NodeId |-> UNION {NumbersTo(msgs[w], d) : w \in Worker}]

Flow == INSTANCE FlowChannel
          WITH Dest <- NodeId, Direct <- WssNodes, MaxNumber <- MaxPackets, offered <- arrived,
               waiting <- WaitingTo, batched <- BatchedTo, delivered <- sent

(* relayQueueFor, the queues, the batches and flush keep every flow in      *)
(* order and repeat nothing, whatever else the worker carries and whenever  *)
(* it panics: the pipeline implements the channel.  Only a destination that *)
(* connects over WSS can see a packet overtake, and only those in a batch.  *)
RefinesFlowChannel == Flow!Spec
=============================================================================
