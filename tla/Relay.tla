-------------------------------- MODULE Relay -------------------------------
(***************************************************************************)
(* The relay pipeline of one beacon: dispatchRelay on the readers, a       *)
(* bounded queue per worker, and relayWorkerLoop with its batch and flush  *)
(* timer.  The tables that the pipeline reads (nodes, peerNodes, the WSS   *)
(* connections) are changed by the rest of the server at any moment: each  *)
(* lookup is a step of its own.                                            *)
(*                                                                         *)
(* Packets carry the number of their arrival.  fate, written and sent are  *)
(* history variables: what became of each packet, what the flush in        *)
(* progress has sent, and the order packets left in.                       *)
(***************************************************************************)
EXTENDS Integers, Sequences, FiniteSets, Functions

CONSTANTS NodeId,       \* destinations
          WorkerCount,  \* relayWorkerCount()
          QueueCap,     \* depth of one relay queue
          BatchCap,     \* relayBatchCap
          MaxPackets,   \* bound on arrivals
          LocalNodes,   \* destinations that may register with this beacon
          PeerNodes,    \* destinations that a peer beacon may gossip
          WssNodes      \* destinations that may connect over WSS

ASSUME RelayAssumption ==
  /\ NodeId \subseteq Nat
  /\ WorkerCount \in Nat \ {0}
  /\ QueueCap \in Nat \ {0} /\ BatchCap \in Nat \ {0} /\ MaxPackets \in Nat
  /\ LocalNodes \subseteq NodeId /\ PeerNodes \subseteq NodeId /\ WssNodes \subseteq NodeId

VARIABLES nodes,        \* ids in Server.nodes
          peerNodes,    \* ids in Server.peerNodes
          wssPeers,     \* ids connected to the WSS server
          wssServer,    \* Server.wssServer is not nil
          done,         \* Server.done is closed
          arrived,      \* number of relay packets read so far
          relayChs,     \* the queue of each worker
          pc, job,      \* where each worker is, and the job in its hands
          msgs,         \* each worker's batch
          timer,        \* each worker's time.Timer: off, armed, or fired
          timerActive,
          flushed,      \* number of packets sent by the flush in progress
          written,      \* and which they are
          resume,       \* where the flush in progress returns to
          forwarded, dropped, notFound,   \* relayForwarded and its siblings
          fate, sent

tables == <<nodes, peerNodes, wssPeers, wssServer, done>>
flushing == <<flushed, written>>
local == <<pc, job, msgs, timer, timerActive, flushing, resume>>
counters == <<forwarded, dropped, notFound>>
vars == <<tables, arrived, relayChs, local, counters, fate, sent>>

Worker == 0 .. WorkerCount - 1

Packet == 1 .. MaxPackets

Job == [n : Packet, dest : NodeId]

NoJob == [n |-> 0]

(* A batched message is the job with the tier that shaped it: local         *)
(* delivery (0x08, 0x09) or a relay to the peer beacon.                     *)
Msg == [n : Packet, dest : NodeId, tier : {"local", "peer"}]

Fate == {"new", "queued", "sent", "failed", "notFound", "dropped", "refused", "lost"}

(* A mutant: packets are spread over the workers.                           *)
relayQueueRoundRobin(dest) == arrived % WorkerCount

relayQueueFor(dest) == dest % WorkerCount

Init ==
  /\ nodes = LocalNodes /\ peerNodes = {} /\ wssPeers = {}
  /\ wssServer = (WssNodes # {}) /\ done = FALSE
  /\ arrived = 0
  /\ relayChs = [w \in Worker |-> <<>>]
  /\ pc = [w \in Worker |-> "select"]
  /\ job = [w \in Worker |-> NoJob]
  /\ msgs = [w \in Worker |-> <<>>]
  /\ timer = [w \in Worker |-> "off"]
  /\ timerActive = [w \in Worker |-> FALSE]
  /\ flushed = [w \in Worker |-> 0]
  /\ written = [w \in Worker |-> {}]
  /\ resume = [w \in Worker |-> "select"]
  /\ forwarded = 0 /\ dropped = 0 /\ notFound = 0
  /\ fate = [n \in Packet |-> "new"]
  /\ sent = [d \in NodeId |-> <<>>]

-----------------------------------------------------------------------------
(* dispatchRelay, as one step: whatever its lookups saw of a table that has *)
(* changed before the enqueue, RouteChange can make true again for a while. *)

Routable(d) == d \in nodes \/ d \in peerNodes \/ (wssServer /\ d \in wssPeers)

Arrive(verdict) ==
  /\ arrived < MaxPackets
  /\ arrived' = arrived + 1
  /\ fate' = [fate EXCEPT ![arrived + 1] = verdict]

(* beacon.relay breaker open: counted as dropped.                           *)
RelayBreakerOpen ==
  /\ Arrive("dropped")
  /\ dropped' = dropped + 1
  /\ UNCHANGED <<tables, relayChs, local, forwarded, notFound, sent>>

RelayNoRoute(d) ==
  /\ ~ Routable(d)
  /\ Arrive("notFound")
  /\ notFound' = notFound + 1
  /\ UNCHANGED <<tables, relayChs, local, forwarded, dropped, sent>>

(* Over the source's budget, or an oversized payload: counted nowhere.      *)
RelayRefused(d) ==
  /\ Routable(d)
  /\ Arrive("refused")
  /\ UNCHANGED <<tables, relayChs, local, counters, sent>>

(* A mutant: one packet more than the queue holds.                          *)
RelayEnqueueOver(d) ==
  LET w == relayQueueFor(d) IN
  /\ Routable(d)
  /\ Len(relayChs[w]) <= QueueCap
  /\ Arrive("queued")
  /\ relayChs' = [relayChs EXCEPT ![w] = Append(@, [n |-> arrived + 1, dest |-> d])]
  /\ UNCHANGED <<tables, local, counters, sent>>

RelayEnqueue(d) ==
  LET w == relayQueueFor(d) IN
  /\ Routable(d)
  /\ IF Len(relayChs[w]) < QueueCap
     THEN /\ Arrive("queued")
          /\ relayChs' = [relayChs EXCEPT ![w] = Append(@, [n |-> arrived + 1, dest |-> d])]
          /\ UNCHANGED dropped
     ELSE /\ Arrive("dropped")
          /\ dropped' = dropped + 1
          /\ UNCHANGED relayChs
  /\ UNCHANGED <<tables, local, forwarded, notFound, sent>>

dispatchRelay ==
  \/ RelayBreakerOpen
  \/ \E d \in NodeId : RelayNoRoute(d) \/ RelayRefused(d) \/ RelayEnqueue(d)

-----------------------------------------------------------------------------
(* relayWorkerLoop *)

Goto(w, l) == pc' = [pc EXCEPT ![w] = l]

(* flush runs with its messages still in the batch and continues at after.  *)
StartFlush(w, after) ==
  /\ Goto(w, "flush")
  /\ resume' = [resume EXCEPT ![w] = after]

(* select chose done: a last flush, then the worker returns.                *)
TakeDone(w) ==
  /\ pc[w] = "select" /\ done
  /\ StartFlush(w, "exit")
  /\ UNCHANGED <<tables, arrived, relayChs, job, msgs, timer, timerActive, flushing,
                 counters, fate, sent>>

(* A mutant: timerActive is not reset when the timer has fired.             *)
TakeTimerStillActive(w) ==
  /\ pc[w] = "select" /\ timer[w] = "fired"
  /\ timer' = [timer EXCEPT ![w] = "off"]
  /\ StartFlush(w, "select")
  /\ UNCHANGED <<tables, arrived, relayChs, job, msgs, timerActive, flushing, counters, fate, sent>>

TakeTimer(w) ==
  /\ pc[w] = "select" /\ timer[w] = "fired"
  /\ timer' = [timer EXCEPT ![w] = "off"]
  /\ timerActive' = [timerActive EXCEPT ![w] = FALSE]
  /\ StartFlush(w, "select")
  /\ UNCHANGED <<tables, arrived, relayChs, job, msgs, flushing, counters, fate, sent>>

(* select chose a job; the first load of s.wssServer decides about tier 0.  *)
TakeJob(w) ==
  /\ pc[w] = "select" /\ relayChs[w] # <<>>
  /\ job' = [job EXCEPT ![w] = Head(relayChs[w])]
  /\ relayChs' = [relayChs EXCEPT ![w] = Tail(@)]
  /\ Goto(w, IF wssServer THEN "ask" ELSE "lookup")
  /\ UNCHANGED <<tables, arrived, msgs, timer, timerActive, flushing, resume,
                 counters, fate, sent>>

DropJob(w) == job' = [job EXCEPT ![w] = NoJob] /\ Goto(w, "select")

JobNotFound(w) ==
  /\ DropJob(w)
  /\ notFound' = notFound + 1
  /\ fate' = [fate EXCEPT ![job[w].n] = "notFound"]
  /\ UNCHANGED <<forwarded, dropped, sent>>

(* Tier 0, IsConnected.  CloseCompatWSS sets s.wssServer to nil without     *)
(* synchronisation: when it has, this load may still see the closed server. *)
AskWss(w) ==
  /\ pc[w] = "ask"
  /\ Goto(w, IF wssServer /\ job[w].dest \in wssPeers THEN "write" ELSE "lookup")
  /\ UNCHANGED <<tables, arrived, relayChs, job, msgs, timer, timerActive, flushing,
                 resume, counters, fate, sent>>

(* Tier 0, WriteFrame: bypasses the batch.  A failed write has dropped the  *)
(* connection by the time it returns false.                                 *)
WriteWss(w) ==
  LET d == job[w].dest IN
  /\ pc[w] = "write"
  /\ \/ /\ wssServer /\ d \in wssPeers
        /\ DropJob(w)
        /\ forwarded' = forwarded + 1
        /\ fate' = [fate EXCEPT ![job[w].n] = "sent"]
        /\ sent' = [sent EXCEPT ![d] = Append(@, [n |-> job[w].n, via |-> "wss"])]
        /\ UNCHANGED <<wssPeers, dropped, notFound>>
     \/ JobNotFound(w) /\ wssPeers' = wssPeers \ {d}
  /\ UNCHANGED <<nodes, peerNodes, wssServer, done, arrived, relayChs, msgs, timer,
                 timerActive, flushing, resume>>

(* A nil s.wssServer at the second or third load panics.  recoverHandler    *)
(* unwinds the loop and relayWorker starts over with an empty batch and a   *)
(* new timer, unless the server is closing.                                 *)
WorkerPanic(w) ==
  LET gone == {msgs[w][i].n : i \in DOMAIN msgs[w]} \cup {job[w].n} IN
  /\ pc[w] \in {"ask", "write"} /\ ~ wssServer
  /\ Goto(w, IF done THEN "exit" ELSE "select")
  /\ job' = [job EXCEPT ![w] = NoJob]
  /\ msgs' = [msgs EXCEPT ![w] = <<>>]
  /\ timer' = [timer EXCEPT ![w] = "off"]
  /\ timerActive' = [timerActive EXCEPT ![w] = FALSE]
  /\ fate' = [n \in Packet |-> IF n \in gone THEN "lost" ELSE fate[n]]
  /\ UNCHANGED <<tables, arrived, relayChs, flushing, resume, counters, sent>>

(* A mutant: nothing starts the timer.                                      *)
AppendMsgNoTimer(w, tier) ==
  LET full == Len(msgs[w]) + 1 >= BatchCap IN
  /\ msgs' = [msgs EXCEPT ![w] =
                Append(@, [n |-> job[w].n, dest |-> job[w].dest, tier |-> tier])]
  /\ job' = [job EXCEPT ![w] = NoJob]
  /\ IF full THEN StartFlush(w, "select") ELSE Goto(w, "select") /\ UNCHANGED resume
  /\ UNCHANGED <<tables, arrived, relayChs, timer, timerActive, flushing, counters, fate, sent>>

(* The message joins the batch; a full batch stops the timer, draining its  *)
(* channel, and flushes; otherwise the timer runs from the first message.   *)
AppendMsg(w, tier) ==
  LET full == Len(msgs[w]) + 1 >= BatchCap IN
  /\ msgs' = [msgs EXCEPT ![w] =
                Append(@, [n |-> job[w].n, dest |-> job[w].dest, tier |-> tier])]
  /\ job' = [job EXCEPT ![w] = NoJob]
  /\ timer' = [timer EXCEPT ![w] = CASE full /\ timerActive[w] -> "off"
                                     [] ~ full /\ ~ timerActive[w] -> "armed"
                                     [] OTHER -> @]
  /\ timerActive' = [timerActive EXCEPT ![w] = ~ full]
  /\ IF full THEN StartFlush(w, "select") ELSE Goto(w, "select") /\ UNCHANGED resume
  /\ UNCHANGED <<tables, arrived, relayChs, flushing, counters, fate, sent>>

(* Tier 1: nodes.Snapshot.                                                  *)
LookupLocal(w) ==
  /\ pc[w] = "lookup"
  /\ IF job[w].dest \in nodes
     THEN AppendMsg(w, "local")
     ELSE /\ Goto(w, "peer")
          /\ UNCHANGED <<tables, arrived, relayChs, job, msgs, timer, timerActive,
                         flushing, resume, counters, fate, sent>>

(* A mutant: a packet without a route is queued again for a later try.      *)
LookupPeerRequeue(w) ==
  /\ pc[w] = "peer"
  /\ IF job[w].dest \in peerNodes
     THEN AppendMsg(w, "peer")
     ELSE /\ DropJob(w)
          /\ relayChs' = [relayChs EXCEPT ![w] = Append(@, job[w])]
          /\ UNCHANGED <<tables, arrived, msgs, timer, timerActive, flushing, resume,
                         counters, fate, sent>>

(* Tiers 2 and 3: peerNodes, or nothing.                                    *)
LookupPeer(w) ==
  /\ pc[w] = "peer"
  /\ IF job[w].dest \in peerNodes
     THEN AppendMsg(w, "peer")
     ELSE /\ JobNotFound(w)
          /\ UNCHANGED <<tables, arrived, relayChs, msgs, timer, timerActive, flushing,
                         resume>>

Sent(w, m) ==
  /\ flushed' = [flushed EXCEPT ![w] = @ + 1]
  /\ written' = [written EXCEPT ![w] = @ \cup {m.n}]
  /\ fate' = [fate EXCEPT ![m.n] = "sent"]
  /\ sent' = [sent EXCEPT ![m.dest] = Append(@, [n |-> m.n, via |-> "udp"])]

(* A mutant: the batch leaves from its end.                                 *)
FlushOneLast(w) ==
  LET m == msgs[w][Len(msgs[w])] IN
  /\ pc[w] = "flush" /\ msgs[w] # <<>>
  /\ msgs' = [msgs EXCEPT ![w] = SubSeq(@, 1, Len(@) - 1)]
  /\ Sent(w, m)
  /\ UNCHANGED <<tables, arrived, relayChs, pc, job, timer, timerActive, resume, counters>>

(* flush: WriteBatch sends a prefix of the batch, the rest goes packet by   *)
(* packet, and each of those sends can fail.                                *)
FlushOne(w) ==
  LET m == Head(msgs[w]) IN
  /\ pc[w] = "flush" /\ msgs[w] # <<>>
  /\ msgs' = [msgs EXCEPT ![w] = Tail(@)]
  /\ \/ Sent(w, m)
     \/ /\ fate' = [fate EXCEPT ![m.n] = "failed"]
        /\ UNCHANGED <<flushing, sent>>
  /\ UNCHANGED <<tables, arrived, relayChs, pc, job, timer, timerActive, resume, counters>>

(* A mutant: the next flush counts this one's packets again.                *)
FlushEndKeepsCount(w) ==
  /\ pc[w] = "flush" /\ msgs[w] = <<>>
  /\ forwarded' = forwarded + flushed[w]
  /\ written' = [written EXCEPT ![w] = {}]
  /\ Goto(w, resume[w])
  /\ UNCHANGED <<tables, arrived, relayChs, job, msgs, timer, timerActive, flushed, resume,
                 dropped, notFound, fate, sent>>

FlushEnd(w) ==
  /\ pc[w] = "flush" /\ msgs[w] = <<>>
  /\ forwarded' = forwarded + flushed[w]
  /\ flushed' = [flushed EXCEPT ![w] = 0]
  /\ written' = [written EXCEPT ![w] = {}]
  /\ Goto(w, resume[w])
  /\ UNCHANGED <<tables, arrived, relayChs, job, msgs, timer, timerActive, resume,
                 dropped, notFound, fate, sent>>

WorkerStep(w) ==
  \/ TakeDone(w) \/ TakeTimer(w) \/ TakeJob(w)
  \/ AskWss(w) \/ WriteWss(w) \/ WorkerPanic(w)
  \/ LookupLocal(w) \/ LookupPeer(w)
  \/ FlushOne(w) \/ FlushEnd(w)

(* The runtime fires an armed timer into its channel.                       *)
TimerFires(w) ==
  /\ timer[w] = "armed"
  /\ timer' = [timer EXCEPT ![w] = "fired"]
  /\ UNCHANGED <<tables, arrived, relayChs, pc, job, msgs, timerActive, flushing, resume,
                 counters, fate, sent>>

-----------------------------------------------------------------------------
(* The rest of the server *)

others == <<arrived, relayChs, local, counters, fate, sent>>

(* The environment of the pipeline: Discover and reap, gossip and its sweep *)
(* (modules Registration and Gossip), WSS upgrades and drops (WssServer).   *)
(* Here a table gains or loses an id.                                       *)
Flip(S, d) == IF d \in S THEN S \ {d} ELSE S \cup {d}

RouteChange ==
  /\ \/ \E d \in LocalNodes : nodes' = Flip(nodes, d) /\ UNCHANGED <<peerNodes, wssPeers>>
     \/ \E d \in PeerNodes : peerNodes' = Flip(peerNodes, d) /\ UNCHANGED <<nodes, wssPeers>>
     \/ \E d \in WssNodes : /\ wssServer
                            /\ wssPeers' = Flip(wssPeers, d)
                            /\ UNCHANGED <<nodes, peerNodes>>
  /\ UNCHANGED <<wssServer, done, others>>

(* A dispatchRelay caught between its two loads of s.wssServer panics, and  *)
(* recoverHandler drops its packet.                                         *)
CloseCompatWSS ==
  /\ wssServer
  /\ wssServer' = FALSE /\ wssPeers' = {}
  /\ \/ UNCHANGED <<arrived, fate>>
     \/ NodeId \ nodes # {} /\ Arrive("lost")
  /\ UNCHANGED <<nodes, peerNodes, done, relayChs, local, counters, sent>>

Close ==
  /\ ~ done /\ done' = TRUE
  /\ UNCHANGED <<nodes, peerNodes, wssPeers, wssServer, others>>

Next ==
  \/ dispatchRelay
  \/ \E w \in Worker : WorkerStep(w) \/ TimerFires(w)
  \/ RouteChange \/ CloseCompatWSS \/ Close

(* Goroutines run and timers fire.  Nothing is assumed of select beyond     *)
(* taking some ready case.                                                  *)
Fairness == \A w \in Worker : WF_vars(WorkerStep(w)) /\ WF_vars(TimerFires(w))

Spec == Init /\ [][Next]_vars

FairSpec == Spec /\ Fairness

-----------------------------------------------------------------------------
(* Every worker is at a step of relayWorkerLoop, holds a job exactly where  *)
(* the loop has one, and keeps its queue and batch within their bounds.     *)
TypeOK ==
  /\ nodes \subseteq LocalNodes /\ peerNodes \subseteq PeerNodes /\ wssPeers \subseteq WssNodes
  /\ wssServer \in BOOLEAN /\ done \in BOOLEAN
  /\ arrived \in 0 .. MaxPackets
  /\ relayChs \in [Worker -> Seq(Job)]
  /\ \A w \in Worker : Len(relayChs[w]) <= QueueCap
  /\ pc \in [Worker -> {"select", "ask", "write", "lookup", "peer", "flush", "exit"}]
  /\ job \in [Worker -> Job \cup {NoJob}]
  /\ \A w \in Worker : job[w] \in Job <=> pc[w] \in {"ask", "write", "lookup", "peer"}
  /\ msgs \in [Worker -> Seq(Msg)]
  /\ \A w \in Worker : Len(msgs[w]) <= BatchCap
  /\ timer \in [Worker -> {"off", "armed", "fired"}]
  /\ timerActive \in [Worker -> BOOLEAN]
  /\ flushed \in [Worker -> Nat] /\ written \in [Worker -> SUBSET Packet]
  /\ resume \in [Worker -> {"select", "exit"}]
  /\ forwarded \in Nat /\ dropped \in Nat /\ notFound \in Nat
  /\ fate \in [Packet -> Fate]
  /\ sent \in [NodeId -> Seq([n : Packet, via : {"udp", "wss"}])]

(* A batch never waits without a timer: between two jobs the flush timer is *)
(* running exactly when messages wait in the batch, and timerActive says    *)
(* truly whether the timer (or its undelivered tick) is pending.            *)
TimerGuardsBatch ==
  \A w \in Worker :
    /\ timerActive[w] <=> timer[w] # "off"
    /\ pc[w] \notin {"flush", "exit"} => (timerActive[w] <=> msgs[w] # <<>>)

Numbers(s) == [i \in DOMAIN s |-> s[i].n]

InFlight(w) ==
  Numbers(msgs[w]) \o (IF job[w] = NoJob THEN <<>> ELSE <<job[w].n>>) \o Numbers(relayChs[w])

(* A worker holds its packets in the order of their arrival: the batch, the *)
(* job in hand and the queue, read in this order, are strictly increasing.  *)
(* In particular no packet is held twice.                                   *)
PipelineOrdered ==
  \A w \in Worker : LET p == InFlight(w) IN
    \A i, j \in DOMAIN p : i < j => p[i] < p[j]

FateIs(f) == {n \in Packet : fate[n] = f}

(* n left the beacon.                                                       *)
Left(n) == \E d \in NodeId : \E k \in DOMAIN sent[d] : sent[d][k].n = n

(* Every packet that dispatchRelay accepted is in some worker's hands until *)
(* its fate is decided, and it is decided once: what was sent left exactly  *)
(* once.  The counters count exactly the packets they are named for;        *)
(* relayForwarded misses the packets of a flush until it ends, and these    *)
(* the flush has counted.                                                   *)
Accounting ==
  /\ FateIs("queued") = UNION {Range(InFlight(w)) : w \in Worker}
  /\ FateIs("sent") = {n \in Packet : Left(n)}
  /\ \A d, e \in NodeId : \A k \in DOMAIN sent[d], l \in DOMAIN sent[e] :
       sent[d][k].n = sent[e][l].n => d = e /\ k = l
  /\ forwarded = Cardinality(FateIs("sent") \ UNION {written[w] : w \in Worker})
  /\ \A w \in Worker : flushed[w] = Cardinality(written[w])
  /\ dropped = Cardinality(FateIs("dropped"))
  /\ notFound = Cardinality(FateIs("notFound"))

(* The packets to one destination that leave over one transport leave in    *)
(* the order they arrived.                                                  *)
FlowOrderPerTransport ==
  \A d \in NodeId : \A i, j \in DOMAIN sent[d] :
    i < j /\ sent[d][i].via = sent[d][j].via => sent[d][i].n < sent[d][j].n

(* "Every packet to one destination takes the same queue, so the packets of *)
(* a flow leave the beacon in the order they arrived."                      *)
FlowOrder ==
  \A d \in NodeId : \A i, j \in DOMAIN sent[d] : i < j => sent[d][i].n < sent[d][j].n

(* Until the server closes, queued packets are sent, fail to send or are    *)
(* counted as not found: when the finitely many arrivals are over, none     *)
(* stays in a queue, and none in a batch for siblings that never come.      *)
QueuedIsResolved ==
  FateIs("queued") # {} ~> (FateIs("queued") = {} \/ done)
=============================================================================
