---------------------------- MODULE Relay_proofs ----------------------------
(***************************************************************************)
(* Proofs about Relay, for any destinations, workers, queue and batch      *)
(* sizes and number of packets.                                            *)
(***************************************************************************)
EXTENDS Relay, TLAPS

LEMMA AppendFacts ==
  ASSUME NEW S, NEW s \in Seq(S), NEW e \in S
  PROVE  /\ Append(s, e) \in Seq(S) /\ Append(s, e) # <<>>
         /\ Len(Append(s, e)) = Len(s) + 1
         /\ \A i \in DOMAIN Append(s, e) :
              IF i \in DOMAIN s THEN Append(s, e)[i] = s[i] ELSE i = Len(s) + 1 /\ Append(s, e)[i] = e
  OBVIOUS

LEMMA AppendSome ==
  ASSUME NEW S, NEW s \in Seq(S), NEW e \in S
  PROVE  Append(s, e) # <<>>
  BY AppendFacts

LEMMA TailFacts ==
  ASSUME NEW S, NEW s \in Seq(S), s # <<>>
  PROVE  /\ Head(s) \in S /\ Head(s) = s[1] /\ 1 \in DOMAIN s
         /\ Tail(s) \in Seq(S)
         /\ Len(Tail(s)) = Len(s) - 1
         /\ \A i \in DOMAIN Tail(s) : i + 1 \in DOMAIN s /\ Tail(s)[i] = s[i + 1]
  OBVIOUS

LEMMA ConcatRange ==
  ASSUME NEW S, NEW s \in Seq(S), NEW t \in Seq(S)
  PROVE  s \o t \in Seq(S) /\ Range(s \o t) = Range(s) \cup Range(t)
<1> DEFINE p == s \o t
<1>a. /\ Len(s) \in Nat /\ Len(t) \in Nat /\ DOMAIN s = 1 .. Len(s) /\ DOMAIN t = 1 .. Len(t)
      /\ p \in Seq(S) /\ DOMAIN p = 1 .. Len(s) + Len(t)
  OBVIOUS
<1>b. \A i \in DOMAIN s : p[i] = s[i]
  OBVIOUS
<1>c. \A i \in DOMAIN t : p[Len(s) + i] = t[i]
  OBVIOUS
<1>1. /\ Len(s) \in Nat /\ Len(t) \in Nat /\ DOMAIN s = 1 .. Len(s) /\ DOMAIN t = 1 .. Len(t)
      /\ p \in Seq(S) /\ DOMAIN p = 1 .. Len(s) + Len(t)
      /\ \A i \in DOMAIN s : p[i] = s[i]
      /\ \A i \in DOMAIN t : p[Len(s) + i] = t[i]
  BY ONLY <1>a, <1>b, <1>c, Zenon
<1>2. \A i \in DOMAIN p : i \in DOMAIN s \/ (i - Len(s) \in DOMAIN t /\ i = Len(s) + (i - Len(s)))
  BY <1>1
<1>3. \A i \in DOMAIN s : i \in DOMAIN p
  BY ONLY <1>1
<1>4. \A i \in DOMAIN t : Len(s) + i \in DOMAIN p
  BY <1>1
<1> HIDE DEF p
<1>5. Range(p) \subseteq Range(s) \cup Range(t)
  BY <1>1, <1>2 DEF Range
<1>6. Range(s) \cup Range(t) \subseteq Range(p)
  BY ONLY <1>1, <1>3, <1>4 DEF Range
<1> QED
  BY ONLY <1>1, <1>5, <1>6, Zenon DEF p

LEMMA ShortRanges ==
  /\ <<>> \in Seq(Nat) /\ Range(<<>>) = {}
  /\ \A n \in Nat : <<n>> \in Seq(Nat) /\ Range(<<n>>) = {n}
  BY DEF Range

LEMMA Hash == \A d \in NodeId : relayQueueFor(d) \in Worker
  BY RelayAssumption DEF relayQueueFor, Worker

LEMMA JobFacts ==
  /\ NoJob \notin Job
  /\ \A j \in Job : j.n \in Packet /\ j.n \in Nat /\ j.dest \in NodeId
<1>1. \A j \in Job : j.n \in Packet /\ j.dest \in NodeId
  BY DEF Job
<1>2. \A n \in Packet : n \in Nat /\ n # 0
  BY RelayAssumption DEF Packet
<1> QED
  BY <1>1, <1>2 DEF NoJob

Label == {"select", "ask", "write", "lookup", "peer", "flush", "exit"}

Holding == {"ask", "write", "lookup", "peer"}

(* The part of the state that a worker owns: position, job in hand and      *)
(* batch, with room in the batch wherever the loop may append to it, ...    *)
Fits(l, j, b) ==
  /\ l \in Label /\ j \in Job \cup {NoJob} /\ b \in Seq(Msg)
  /\ j \in Job <=> l \in Holding
  /\ Len(b) <= BatchCap
  /\ l \notin {"flush", "exit"} => Len(b) < BatchCap

PlaceOK ==
  /\ pc \in [Worker -> Label] /\ job \in [Worker -> Job \cup {NoJob}] /\ msgs \in [Worker -> Seq(Msg)]
  /\ \A w \in Worker : Fits(pc[w], job[w], msgs[w])

(* ... queue, timer and flush.                                              *)
FieldsOK ==
  /\ relayChs \in [Worker -> Seq(Job)]
  /\ \A w \in Worker : Len(relayChs[w]) <= QueueCap
  /\ timer \in [Worker -> {"off", "armed", "fired"}]
  /\ timerActive \in [Worker -> BOOLEAN]
  /\ flushed \in [Worker -> Nat] /\ written \in [Worker -> SUBSET Packet]
  /\ resume \in [Worker -> {"select", "exit"}]

WorkerOK == PlaceOK /\ FieldsOK

Entry == [n : Packet, via : {"udp", "wss"}]

(* The rest of TypeOK.                                                      *)
SharedOK ==
  /\ nodes \subseteq LocalNodes /\ peerNodes \subseteq PeerNodes /\ wssPeers \subseteq WssNodes
  /\ wssServer \in BOOLEAN /\ done \in BOOLEAN
  /\ arrived \in 0 .. MaxPackets
  /\ forwarded \in Nat /\ dropped \in Nat /\ notFound \in Nat
  /\ fate \in [Packet -> Fate]
  /\ sent \in [NodeId -> Seq(Entry)]

LEMMA Arrival ==
  ASSUME SharedOK, NEW v \in Fate, Arrive(v)
  PROVE  /\ arrived + 1 \in Packet /\ arrived' \in 0 .. MaxPackets
         /\ fate' \in [Packet -> Fate]
<1>1. MaxPackets \in Nat
  BY RelayAssumption
<1>2. arrived + 1 \in Packet /\ arrived' \in 0 .. MaxPackets
  BY <1>1 DEF SharedOK, Arrive, Packet
<1> QED
  BY <1>2 DEF SharedOK, Arrive

LEMMA MsgTypes ==
  /\ \A j \in Job, t \in {"local", "peer"} : [n |-> j.n, dest |-> j.dest, tier |-> t] \in Msg
  /\ \A m \in Msg : m.n \in Packet /\ m.dest \in NodeId
  BY DEF Job, Msg

LEMMA WorkerTypes ==
  ASSUME WorkerOK, NEW w \in Worker
  PROVE  /\ relayChs[w] \in Seq(Job) /\ Len(relayChs[w]) <= QueueCap
         /\ pc[w] \in Label /\ job[w] \in Job \cup {NoJob}
         /\ job[w] \in Job <=> pc[w] \in Holding
         /\ msgs[w] \in Seq(Msg) /\ Len(msgs[w]) <= BatchCap
         /\ pc[w] \notin {"flush", "exit"} => Len(msgs[w]) < BatchCap
         /\ timer[w] \in {"off", "armed", "fired"} /\ timerActive[w] \in BOOLEAN
         /\ flushed[w] \in Nat /\ resume[w] \in {"select", "exit"}
<1>1. Fits(pc[w], job[w], msgs[w])
  BY DEF WorkerOK, PlaceOK
<1>2. /\ relayChs[w] \in Seq(Job) /\ Len(relayChs[w]) <= QueueCap
      /\ timer[w] \in {"off", "armed", "fired"} /\ timerActive[w] \in BOOLEAN
      /\ flushed[w] \in Nat /\ resume[w] \in {"select", "exit"}
  BY DEF WorkerOK, FieldsOK
<1> QED
  BY <1>1, <1>2 DEF Fits

(* Worker w moves to l, with j in hand and b as its batch.                  *)
Move(w, l, j, b) ==
  /\ pc' = [pc EXCEPT ![w] = l]
  /\ job' = [job EXCEPT ![w] = j]
  /\ msgs' = [msgs EXCEPT ![w] = b]

LEMMA MoveOK ==
  ASSUME PlaceOK, NEW w \in Worker, NEW l, NEW j, NEW b, Fits(l, j, b), Move(w, l, j, b)
  PROVE  PlaceOK'
<1>1. l \in Label /\ j \in Job \cup {NoJob} /\ b \in Seq(Msg)
  BY DEF Fits
<1>2. pc' \in [Worker -> Label] /\ pc'[w] = l /\ \A v \in Worker \ {w} : pc'[v] = pc[v]
  BY <1>1 DEF PlaceOK, Move
<1>3. job' \in [Worker -> Job \cup {NoJob}] /\ job'[w] = j /\ \A v \in Worker \ {w} : job'[v] = job[v]
  BY <1>1 DEF PlaceOK, Move
<1>4. msgs' \in [Worker -> Seq(Msg)] /\ msgs'[w] = b /\ \A v \in Worker \ {w} : msgs'[v] = msgs[v]
  BY <1>1 DEF PlaceOK, Move
<1>5. ASSUME NEW v \in Worker PROVE Fits(pc'[v], job'[v], msgs'[v])
  <2>1. CASE v = w
    BY <1>2, <1>3, <1>4, <2>1
  <2>2. CASE v # w
    BY <1>2, <1>3, <1>4, <2>2 DEF PlaceOK
  <2> QED
    BY <2>1, <2>2
<1> QED
  BY <1>2, <1>3, <1>4, <1>5 DEF PlaceOK

shared == <<tables, arrived, counters, fate, sent>>

LEMMA SharedSame == SharedOK /\ UNCHANGED shared => SharedOK'
  BY DEF SharedOK, shared, tables, counters

LEMMA FateTypes ==
  ASSUME SharedOK, NEW n \in Packet, NEW f \in Fate
  PROVE  [fate EXCEPT ![n] = f] \in [Packet -> Fate]
  BY DEF SharedOK

(* A packet leaves: to destination d, over transport v.                     *)
Departs(n, d, v) == sent' = [sent EXCEPT ![d] = Append(@, [n |-> n, via |-> v])]

LEMMA SentTypes ==
  ASSUME SharedOK, NEW n \in Packet, NEW d \in NodeId, NEW v \in {"udp", "wss"}, Departs(n, d, v)
  PROVE  sent' \in [NodeId -> Seq(Entry)]
<1> DEFINE e == [n |-> n, via |-> v]
<1>1. sent \in [NodeId -> Seq(Entry)] /\ sent' = [sent EXCEPT ![d] = Append(sent[d], e)]
  BY DEF SharedOK, Departs
<1>2. e \in Entry
  BY DEF Entry
<1> HIDE DEF e
<1>3. Append(sent[d], e) \in Seq(Entry)
  BY <1>1, <1>2, AppendFacts
<1> QED
  BY <1>1, <1>3

LEMMA DispatchShared ==
  ASSUME SharedOK, dispatchRelay
  PROVE  SharedOK'
<1>0. {"dropped", "notFound", "refused", "queued"} \subseteq Fate
  BY DEF Fate
<1>1. CASE RelayBreakerOpen
  <2>1. arrived' \in 0 .. MaxPackets /\ fate' \in [Packet -> Fate]
    BY <1>0, <1>1, Arrival DEF RelayBreakerOpen
  <2> QED
    BY <1>1, <2>1 DEF SharedOK, RelayBreakerOpen, tables
<1>2. ASSUME NEW d \in NodeId, RelayNoRoute(d) PROVE SharedOK'
  <2>1. arrived' \in 0 .. MaxPackets /\ fate' \in [Packet -> Fate]
    BY <1>0, <1>2, Arrival DEF RelayNoRoute
  <2> QED
    BY <1>2, <2>1 DEF SharedOK, RelayNoRoute, tables
<1>3. ASSUME NEW d \in NodeId, RelayRefused(d) PROVE SharedOK'
  <2>1. arrived' \in 0 .. MaxPackets /\ fate' \in [Packet -> Fate]
    BY <1>0, <1>3, Arrival DEF RelayRefused
  <2> QED
    BY <1>3, <2>1 DEF SharedOK, RelayRefused, tables, counters
<1>4. ASSUME NEW d \in NodeId, RelayEnqueue(d) PROVE SharedOK'
  <2>1. arrived' \in 0 .. MaxPackets /\ fate' \in [Packet -> Fate]
    BY <1>0, <1>4, Arrival DEF RelayEnqueue
  <2>2. dropped' \in Nat
    BY <1>4 DEF SharedOK, RelayEnqueue
  <2> QED
    BY <1>4, <2>1, <2>2 DEF SharedOK, RelayEnqueue, tables
<1> QED
  BY <1>1, <1>2, <1>3, <1>4 DEF dispatchRelay

LEMMA WorkerShared ==
  ASSUME SharedOK, WorkerOK, NEW w \in Worker, WorkerStep(w)
  PROVE  SharedOK'
<1>0. {"sent", "failed", "notFound", "lost"} \subseteq Fate
  BY DEF Fate
<1>1. ASSUME pc[w] \in Holding PROVE job[w].n \in Packet /\ job[w].dest \in NodeId
  BY <1>1, WorkerTypes, JobFacts
<1>2. CASE TakeDone(w) \/ TakeTimer(w) \/ TakeJob(w) \/ AskWss(w)
  BY <1>2, SharedSame DEF TakeDone, TakeTimer, TakeJob, AskWss, shared
<1>3. ASSUME pc[w] \in Holding, JobNotFound(w)
      PROVE  /\ fate' \in [Packet -> Fate] /\ notFound' \in Nat
             /\ UNCHANGED <<forwarded, dropped, sent>>
  <2>1. notFound' \in Nat /\ UNCHANGED <<forwarded, dropped, sent>>
    BY <1>3 DEF JobNotFound, SharedOK
  <2>2. fate' \in [Packet -> Fate]
    BY <1>0, <1>1, <1>3, FateTypes DEF JobNotFound
  <2> QED
    BY <2>1, <2>2
<1>4. CASE WriteWss(w)
  <2>0. pc[w] \in Holding /\ UNCHANGED <<nodes, peerNodes, wssServer, done, arrived>>
    BY <1>4 DEF WriteWss, Holding
  <2>1. CASE JobNotFound(w) /\ wssPeers' = wssPeers \ {job[w].dest}
    BY <1>3, <2>0, <2>1 DEF SharedOK
  <2>2. CASE ~ (JobNotFound(w) /\ wssPeers' = wssPeers \ {job[w].dest})
    <3>1. /\ forwarded' = forwarded + 1
          /\ fate' = [fate EXCEPT ![job[w].n] = "sent"]
          /\ Departs(job[w].n, job[w].dest, "wss")
          /\ UNCHANGED <<wssPeers, dropped, notFound>>
      BY <1>4, <2>2 DEF WriteWss, Departs
    <3>2. fate' \in [Packet -> Fate]
      BY <1>0, <1>1, <2>0, <3>1, FateTypes
    <3>3. sent' \in [NodeId -> Seq(Entry)]
      BY <1>1, <2>0, <3>1, SentTypes, Zenon
    <3> QED
      BY <2>0, <3>1, <3>2, <3>3 DEF SharedOK
  <2> QED
    BY <2>1, <2>2
<1>5. CASE WorkerPanic(w)
  <2>1. fate' \in [Packet -> Fate] /\ UNCHANGED <<tables, arrived, counters, sent>>
    BY <1>0, <1>5 DEF WorkerPanic, SharedOK
  <2> QED
    BY <2>1 DEF SharedOK, tables, counters
<1>6. ASSUME NEW t, AppendMsg(w, t) PROVE SharedOK'
  BY <1>6, SharedSame DEF AppendMsg, shared
<1>7. CASE LookupLocal(w)
  <2>1. CASE job[w].dest \in nodes
    BY <1>6, <1>7, <2>1 DEF LookupLocal
  <2>2. CASE job[w].dest \notin nodes
    BY <1>7, <2>2, SharedSame DEF LookupLocal, shared
  <2> QED
    BY <2>1, <2>2
<1>8. CASE LookupPeer(w)
  <2>1. CASE job[w].dest \in peerNodes
    BY <1>6, <1>8, <2>1 DEF LookupPeer
  <2>2. CASE job[w].dest \notin peerNodes
    <3>1. pc[w] \in Holding /\ JobNotFound(w) /\ UNCHANGED <<tables, arrived>>
      BY <1>8, <2>2 DEF LookupPeer, Holding
    <3> QED
      BY <1>3, <3>1 DEF SharedOK, tables
  <2> QED
    BY <2>1, <2>2
<1>9. CASE FlushOne(w)
  <2> DEFINE m == Head(msgs[w])
  <2>1. m.n \in Packet /\ m.dest \in NodeId
    <3>1. msgs[w] \in Seq(Msg) /\ msgs[w] # <<>>
      BY <1>9, WorkerTypes DEF FlushOne
    <3>2. m \in Msg
      BY <3>1, TailFacts
    <3> QED
      BY <3>2, MsgTypes
  <2>2. /\ UNCHANGED <<tables, arrived, counters>>
        /\ fate' \in {[fate EXCEPT ![m.n] = "sent"], [fate EXCEPT ![m.n] = "failed"]}
        /\ sent' = sent \/ Departs(m.n, m.dest, "udp")
    BY <1>9, Zenon DEF FlushOne, Sent, Departs
  <2> HIDE DEF m
  <2>3. fate' \in [Packet -> Fate]
    BY <1>0, <2>1, <2>2, FateTypes
  <2>4. sent' \in [NodeId -> Seq(Entry)]
    <3>1. CASE sent' = sent
      BY <3>1 DEF SharedOK
    <3>2. CASE Departs(m.n, m.dest, "udp")
      BY <2>1, <3>2, SentTypes, Zenon
    <3> QED
      BY <2>2, <3>1, <3>2
  <2> QED
    BY <2>2, <2>3, <2>4 DEF SharedOK, tables, counters
<1>10. CASE FlushEnd(w)
  <2>1. flushed[w] \in Nat
    BY WorkerTypes
  <2> QED
    BY <1>10, <2>1 DEF FlushEnd, SharedOK, tables
<1> QED
  BY <1>2, <1>4, <1>5, <1>7, <1>8, <1>9, <1>10 DEF WorkerStep

LEMMA SharedStep == SharedOK /\ WorkerOK /\ [Next]_vars => SharedOK'
<1> SUFFICES ASSUME SharedOK, WorkerOK, [Next]_vars PROVE SharedOK'
  OBVIOUS
<1>1. ASSUME NEW w \in Worker, TimerFires(w) PROVE SharedOK'
  BY <1>1, SharedSame DEF TimerFires, shared
<1>2. CASE RouteChange
  BY <1>2 DEF RouteChange, Flip, SharedOK, others, counters
<1>3. CASE CloseCompatWSS
  <2>1. arrived' \in 0 .. MaxPackets /\ fate' \in [Packet -> Fate]
    BY <1>3, Arrival DEF CloseCompatWSS, SharedOK, Fate
  <2> QED
    BY <1>3, <2>1, Zenon DEF CloseCompatWSS, SharedOK, counters
<1>4. CASE Close
  BY <1>4 DEF Close, SharedOK, others, counters
<1>5. CASE UNCHANGED vars
  BY <1>5, SharedSame DEF vars, shared
<1> QED
  BY <1>1, <1>2, <1>3, <1>4, <1>5, DispatchShared, WorkerShared DEF Next

LEMMA WorkerSame == WorkerOK /\ UNCHANGED <<relayChs, local>> => WorkerOK'
  BY DEF WorkerOK, PlaceOK, FieldsOK, local, flushing

LEMMA QueueGrows ==
  ASSUME WorkerOK, SharedOK, NEW d \in NodeId, RelayEnqueue(d)
  PROVE  WorkerOK'
<1> DEFINE w == relayQueueFor(d)
           e == [n |-> arrived + 1, dest |-> d]
<1>0. w \in Worker /\ UNCHANGED local
  BY Hash DEF RelayEnqueue
<1>1. CASE Len(relayChs[w]) < QueueCap
  <2>1. relayChs' = [relayChs EXCEPT ![w] = Append(@, e)] /\ Arrive("queued")
    BY <1>1 DEF RelayEnqueue
  <2>2. e \in Job
    BY <2>1, Arrival DEF Job, Fate
  <2> HIDE DEF e, w
  <2>3. Append(relayChs[w], e) \in Seq(Job) /\ Len(Append(relayChs[w], e)) = Len(relayChs[w]) + 1
    BY <1>0, <2>2, WorkerTypes, AppendFacts
  <2>4. Len(relayChs[w]) \in Nat /\ QueueCap \in Nat
    BY <1>0, WorkerTypes, RelayAssumption
  <2>5. Len(Append(relayChs[w], e)) <= QueueCap
    BY <1>1, <2>3, <2>4
  <2>6. relayChs' \in [Worker -> Seq(Job)] /\ \A v \in Worker : Len(relayChs'[v]) <= QueueCap
    BY <1>0, <2>1, <2>3, <2>5 DEF WorkerOK, FieldsOK
  <2>7. FieldsOK'
    BY <1>0, <2>6 DEF WorkerOK, FieldsOK, local, flushing
  <2>8. PlaceOK'
    BY <1>0 DEF WorkerOK, PlaceOK, local
  <2> QED
    BY <2>7, <2>8 DEF WorkerOK
<1>2. CASE ~ (Len(relayChs[w]) < QueueCap)
  BY <1>0, <1>2, WorkerSame DEF RelayEnqueue
<1> QED
  BY <1>1, <1>2

LEMMA AppendOK ==
  ASSUME WorkerOK, NEW w \in Worker, NEW t \in {"local", "peer"},
         pc[w] \in Holding, AppendMsg(w, t)
  PROVE  WorkerOK'
<1> DEFINE full == Len(msgs[w]) + 1 >= BatchCap
           e == [n |-> job[w].n, dest |-> job[w].dest, tier |-> t]
           b == Append(msgs[w], e)
           l == IF full THEN "flush" ELSE "select"
<1>1. e \in Msg
  <2>1. job[w] \in Job
    BY WorkerTypes
  <2> QED
    BY <2>1, MsgTypes, Zenon
<1>2. msgs[w] \in Seq(Msg) /\ Len(msgs[w]) < BatchCap /\ Len(msgs[w]) \in Nat /\ BatchCap \in Nat
  BY WorkerTypes, RelayAssumption DEF Holding
<1>3. Move(w, l, NoJob, b)
  BY DEF AppendMsg, StartFlush, Goto, Move
<1>4. FieldsOK'
  <2>1. resume' \in [Worker -> {"select", "exit"}]
    BY Zenon DEF AppendMsg, StartFlush, WorkerOK, FieldsOK
  <2>2. timerActive' \in [Worker -> BOOLEAN]
    BY DEF AppendMsg, WorkerOK, FieldsOK
  <2>3. timer' \in [Worker -> {"off", "armed", "fired"}]
    BY DEF AppendMsg, WorkerOK, FieldsOK
  <2>4. UNCHANGED <<relayChs, flushed, written>>
    BY DEF AppendMsg, flushing
  <2> QED
    BY <2>1, <2>2, <2>3, <2>4 DEF WorkerOK, FieldsOK
<1> HIDE DEF e
<1>5. b \in Seq(Msg) /\ Len(b) = Len(msgs[w]) + 1
  BY <1>1, <1>2, AppendFacts
<1> HIDE DEF b
<1>6. Len(b) <= BatchCap /\ (l \notin {"flush", "exit"} => Len(b) < BatchCap)
  BY <1>2, <1>5
<1>7. Fits(l, NoJob, b)
  BY <1>5, <1>6, JobFacts DEF Label, Holding, Fits
<1>8. PlaceOK'
  BY <1>3, <1>7, MoveOK DEF WorkerOK
<1> QED
  BY <1>4, <1>8 DEF WorkerOK

(* What stays as it is, in the form in which MoveOK wants it.               *)
LEMMA StayFacts ==
  ASSUME WorkerOK, NEW w \in Worker
  PROVE  /\ pc = [pc EXCEPT ![w] = pc[w]] /\ job = [job EXCEPT ![w] = job[w]]
         /\ msgs = [msgs EXCEPT ![w] = msgs[w]]
  BY DEF WorkerOK, PlaceOK

LEMMA FieldsSame ==
  WorkerOK /\ UNCHANGED <<relayChs, timer, timerActive, flushing, resume>> => FieldsOK'
  BY DEF WorkerOK, FieldsOK, flushing

LEMMA StepOK ==
  ASSUME WorkerOK, NEW w \in Worker, WorkerStep(w)
  PROVE  WorkerOK'
<1> SUFFICES PlaceOK' /\ FieldsOK'
  BY DEF WorkerOK
<1>0. PlaceOK /\ {"select", "flush", "exit"} \cap Holding = {} /\ {"select", "flush", "exit"} \subseteq Label
  BY DEF WorkerOK, Label, Holding
<1>1. Fits(pc[w], job[w], msgs[w])
  BY DEF WorkerOK, PlaceOK
<1>2. <<>> \in Seq(Msg) /\ Len(<<>>) < BatchCap /\ Len(<<>>) <= BatchCap /\ NoJob \notin Job
  BY RelayAssumption, JobFacts
<1>3. ASSUME pc[w] = "select", pc' = [pc EXCEPT ![w] = "flush"], UNCHANGED <<job, msgs>>
      PROVE  PlaceOK'
  <2>1. Fits("flush", job[w], msgs[w])
    BY <1>0, <1>1, <1>3 DEF Fits
  <2>2. Move(w, "flush", job[w], msgs[w])
    BY <1>3, StayFacts DEF Move
  <2> QED
    BY <1>0, <2>1, <2>2, MoveOK
<1>4. CASE TakeDone(w)
  <2>1. PlaceOK'
    BY <1>3, <1>4 DEF TakeDone, StartFlush, Goto
  <2>2. FieldsOK'
    BY <1>4 DEF TakeDone, StartFlush, WorkerOK, FieldsOK, flushing
  <2> QED
    BY <2>1, <2>2
<1>5. CASE TakeTimer(w)
  <2>1. PlaceOK'
    BY <1>3, <1>5 DEF TakeTimer, StartFlush, Goto
  <2>2. FieldsOK'
    BY <1>5 DEF TakeTimer, StartFlush, WorkerOK, FieldsOK, flushing
  <2> QED
    BY <2>1, <2>2
<1>6. CASE TakeJob(w)
  <2> DEFINE j == Head(relayChs[w])
             q == Tail(relayChs[w])
             l == IF wssServer THEN "ask" ELSE "lookup"
  <2>1. relayChs[w] \in Seq(Job) /\ relayChs[w] # <<>> /\ Len(relayChs[w]) <= QueueCap
    BY <1>6, WorkerTypes DEF TakeJob
  <2>2. /\ pc[w] = "select" /\ Move(w, l, j, msgs[w]) /\ relayChs' = [relayChs EXCEPT ![w] = q]
        /\ UNCHANGED <<timer, timerActive, flushing, resume>>
    BY <1>6, StayFacts DEF TakeJob, Goto, Move
  <2>3. j \in Job /\ q \in Seq(Job) /\ Len(q) = Len(relayChs[w]) - 1
    BY <2>1, TailFacts
  <2>4. Len(q) <= QueueCap
    BY <2>1, <2>3, RelayAssumption
  <2> HIDE DEF j, q
  <2>5. Fits(l, j, msgs[w])
    BY <1>1, <2>2, <2>3 DEF Fits, Label, Holding
  <2>6. FieldsOK'
    BY <2>2, <2>3, <2>4, Zenon DEF WorkerOK, FieldsOK, flushing
  <2> QED
    BY <1>0, <2>2, <2>5, <2>6, MoveOK
<1>7. CASE AskWss(w)
  <2> DEFINE l == IF wssServer /\ job[w].dest \in wssPeers THEN "write" ELSE "lookup"
  <2>1. pc[w] = "ask" /\ Move(w, l, job[w], msgs[w])
    BY <1>7, StayFacts DEF AskWss, Goto, Move
  <2>2. Fits(l, job[w], msgs[w])
    BY <1>1, <2>1 DEF Fits, Label, Holding
  <2>3. FieldsOK'
    BY <1>7, FieldsSame DEF AskWss
  <2> QED
    BY <1>0, <2>1, <2>2, <2>3, MoveOK
<1>8. ASSUME DropJob(w), pc[w] \in Holding, UNCHANGED <<relayChs, msgs, timer, timerActive, flushing, resume>>
      PROVE  PlaceOK' /\ FieldsOK'
  <2>1. Move(w, "select", NoJob, msgs[w])
    BY <1>8, StayFacts DEF DropJob, Goto, Move
  <2>2. Fits("select", NoJob, msgs[w])
    BY <1>0, <1>1, <1>2, <1>8 DEF Fits
  <2>3. FieldsOK'
    BY <1>8, FieldsSame, Zenon
  <2> QED
    BY <1>0, <2>1, <2>2, <2>3, MoveOK
<1>9. CASE WriteWss(w)
  BY <1>8, <1>9 DEF WriteWss, JobNotFound, Holding
<1>10. CASE WorkerPanic(w)
  <2> DEFINE l == IF done THEN "exit" ELSE "select"
  <2>1. Move(w, l, NoJob, <<>>)
    BY <1>10 DEF WorkerPanic, Goto, Move
  <2>2. Fits(l, NoJob, <<>>)
    BY <1>0, <1>2 DEF Fits
  <2>3. FieldsOK'
    BY <1>10 DEF WorkerPanic, WorkerOK, FieldsOK, flushing
  <2> HIDE DEF l
  <2> QED
    BY ONLY <1>0, <2>1, <2>2, <2>3, MoveOK, Zenon
<1>11. CASE LookupLocal(w)
  <2>0. pc[w] = "lookup" /\ pc[w] \in Holding
    BY <1>11 DEF LookupLocal, Holding
  <2>1. CASE job[w].dest \in nodes
    BY <1>11, <2>0, <2>1, AppendOK DEF LookupLocal, WorkerOK
  <2>2. CASE job[w].dest \notin nodes
    <3>1. Move(w, "peer", job[w], msgs[w])
      BY <1>11, <2>2, StayFacts DEF LookupLocal, Goto, Move
    <3>2. Fits("peer", job[w], msgs[w])
      BY <1>1, <2>0 DEF Fits, Label, Holding
    <3>3. FieldsOK'
      BY <1>11, <2>2, FieldsSame DEF LookupLocal
    <3> QED
      BY <1>0, <3>1, <3>2, <3>3, MoveOK
  <2> QED
    BY <2>1, <2>2
<1>12. CASE LookupPeer(w)
  <2>0. pc[w] \in Holding
    BY <1>12 DEF LookupPeer, Holding
  <2>1. CASE job[w].dest \in peerNodes
    BY <1>12, <2>0, <2>1, AppendOK DEF LookupPeer, WorkerOK
  <2>2. CASE job[w].dest \notin peerNodes
    BY <1>8, <1>12, <2>0, <2>2 DEF LookupPeer, JobNotFound
  <2> QED
    BY <2>1, <2>2
<1>13. CASE FlushOne(w)
  <2> DEFINE b == Tail(msgs[w])
  <2>1. msgs[w] \in Seq(Msg) /\ msgs[w] # <<>> /\ pc[w] = "flush"
    BY <1>13, WorkerTypes DEF FlushOne
  <2>2. Move(w, "flush", job[w], b)
    BY <1>13, <2>1, StayFacts DEF FlushOne, Move
  <2>3. b \in Seq(Msg) /\ Len(b) = Len(msgs[w]) - 1
    BY <2>1, TailFacts
  <2>4. Len(b) <= BatchCap
    BY <1>1, <2>1, <2>3, RelayAssumption DEF Fits
  <2> HIDE DEF b
  <2>5. Fits("flush", job[w], b)
    BY <1>1, <2>1, <2>3, <2>4 DEF Fits
  <2>6. flushed' \in [Worker -> Nat] /\ written' \in [Worker -> SUBSET Packet]
    <3>1. flushed \in [Worker -> Nat] /\ written \in [Worker -> SUBSET Packet]
      BY Zenon DEF WorkerOK, FieldsOK
    <3>2. Head(msgs[w]).n \in Packet
      BY <2>1, TailFacts, MsgTypes, Zenon
    <3>3. CASE Sent(w, Head(msgs[w]))
      BY <3>1, <3>2, <3>3 DEF Sent
    <3>4. CASE UNCHANGED flushing
      BY <3>1, <3>4 DEF flushing
    <3> QED
      BY <1>13, <3>3, <3>4 DEF FlushOne
  <2>7. FieldsOK'
    BY <1>13, <2>6, Zenon DEF FlushOne, WorkerOK, FieldsOK
  <2> QED
    BY <1>0, <2>2, <2>5, <2>7, MoveOK
<1>14. CASE FlushEnd(w)
  <2>1. pc[w] = "flush" /\ msgs[w] = <<>> /\ resume[w] \in {"select", "exit"}
    BY <1>14, WorkerTypes DEF FlushEnd
  <2>2. Move(w, resume[w], job[w], <<>>)
    BY <1>14, <2>1, StayFacts, Zenon DEF FlushEnd, Goto, Move
  <2>3. Fits(resume[w], job[w], <<>>)
    BY <1>0, <1>1, <1>2, <2>1 DEF Fits
  <2>4. flushed' \in [Worker -> Nat] /\ written' \in [Worker -> SUBSET Packet]
    BY <1>14 DEF FlushEnd, WorkerOK, FieldsOK
  <2>5. FieldsOK'
    BY <1>14, <2>4 DEF FlushEnd, WorkerOK, FieldsOK
  <2> QED
    BY <1>0, <2>2, <2>3, <2>5, MoveOK, Zenon
<1> QED
  BY <1>4, <1>5, <1>6, <1>7, <1>9, <1>10, <1>11, <1>12, <1>13, <1>14 DEF WorkerStep

TypeInv == SharedOK /\ WorkerOK

LEMMA TypeStep == TypeInv /\ [Next]_vars => TypeInv'
<1> SUFFICES ASSUME SharedOK, WorkerOK, [Next]_vars PROVE SharedOK' /\ WorkerOK'
  BY DEF TypeInv
<1>0. SharedOK'
  BY SharedStep
<1>1. ASSUME dispatchRelay PROVE WorkerOK'
  <2>1. CASE \E d \in NodeId : RelayEnqueue(d)
    BY <2>1, QueueGrows
  <2>2. CASE ~ \E d \in NodeId : RelayEnqueue(d)
    BY <1>1, <2>2, WorkerSame DEF dispatchRelay, RelayBreakerOpen, RelayNoRoute, RelayRefused
  <2> QED
    BY <2>1, <2>2
<1>2. ASSUME NEW w \in Worker, TimerFires(w) PROVE WorkerOK'
  <2>1. PlaceOK'
    BY <1>2 DEF TimerFires, WorkerOK, PlaceOK
  <2>2. FieldsOK'
    BY <1>2 DEF TimerFires, WorkerOK, FieldsOK, flushing
  <2> QED
    BY <2>1, <2>2 DEF WorkerOK
<1>3. CASE RouteChange \/ CloseCompatWSS \/ Close \/ UNCHANGED vars
  <2>1. RouteChange => UNCHANGED <<relayChs, local>>
    BY DEF RouteChange, others
  <2>2. CloseCompatWSS => UNCHANGED <<relayChs, local>>
    BY DEF CloseCompatWSS
  <2>3. Close \/ UNCHANGED vars => UNCHANGED <<relayChs, local>>
    BY DEF Close, others, vars
  <2> QED
    BY <1>0, <1>3, <2>1, <2>2, <2>3, WorkerSame
<1> QED
  BY <1>0, <1>1, <1>2, <1>3, StepOK DEF Next

LEMMA TypeInit == Init => TypeInv
<1> SUFFICES ASSUME Init PROVE TypeInv
  OBVIOUS
<1>1. SharedOK
  <2>1. wssServer \in BOOLEAN /\ done \in BOOLEAN
    BY Zenon DEF Init
  <2>2. nodes \subseteq LocalNodes /\ peerNodes \subseteq PeerNodes /\ wssPeers \subseteq WssNodes
    BY DEF Init
  <2>3. arrived \in 0 .. MaxPackets /\ forwarded \in Nat /\ dropped \in Nat /\ notFound \in Nat
    BY RelayAssumption DEF Init
  <2>4. fate \in [Packet -> Fate]
    BY DEF Init, Fate
  <2>5. sent \in [NodeId -> Seq(Entry)]
    BY DEF Init
  <2> QED
    BY <2>1, <2>2, <2>3, <2>4, <2>5 DEF SharedOK
<1>2. FieldsOK
  BY RelayAssumption DEF Init, FieldsOK
<1>3. <<>> \in Seq(Msg) /\ Len(<<>>) < BatchCap /\ Len(<<>>) <= BatchCap /\ NoJob \notin Job
  BY RelayAssumption, JobFacts
<1>4. Fits("select", NoJob, <<>>)
  BY <1>3 DEF Fits, Label, Holding
<1>5. PlaceOK
  BY <1>3, <1>4 DEF Init, PlaceOK, Label
<1> QED
  BY <1>1, <1>2, <1>5 DEF TypeInv, WorkerOK

LEMMA TypeImplies == TypeInv => TypeOK
<1> SUFFICES ASSUME TypeInv PROVE TypeOK
  OBVIOUS
<1>1. SharedOK /\ PlaceOK /\ FieldsOK
  BY DEF TypeInv, WorkerOK
<1>2. \A w \in Worker : Len(msgs[w]) <= BatchCap /\ (job[w] \in Job <=> pc[w] \in Holding)
  BY <1>1 DEF PlaceOK, Fits
<1> QED
  BY <1>1, <1>2, Zenon DEF TypeOK, SharedOK, PlaceOK, FieldsOK, Label, Holding, Entry

(* The flush timer and timerActive, with what a flush that goes back to     *)
(* select leaves behind.                                                    *)
TimerInv(w) ==
  /\ timerActive[w] <=> timer[w] # "off"
  /\ pc[w] \notin {"flush", "exit"} => (timerActive[w] <=> msgs[w] # <<>>)
  /\ pc[w] = "flush" /\ resume[w] = "select" => ~ timerActive[w]

LEMMA TimerSame ==
  ASSUME NEW w \in Worker, TimerInv(w),
         UNCHANGED <<pc[w], msgs[w], timer[w], timerActive[w], resume[w]>>
  PROVE  TimerInv(w)'
  BY DEF TimerInv

(* A worker's step leaves the others' state alone, and everything but       *)
(* workers and timers leaves all of it alone.                               *)
LEMMA OtherWorker ==
  ASSUME WorkerOK, NEW v \in Worker, NEW w \in Worker, v # w, WorkerStep(v)
  PROVE  UNCHANGED <<pc[w], job[w], msgs[w], timer[w], timerActive[w], resume[w], relayChs[w]>>
<1>0. /\ pc \in [Worker -> Label] /\ job \in [Worker -> Job \cup {NoJob}]
      /\ msgs \in [Worker -> Seq(Msg)] /\ relayChs \in [Worker -> Seq(Job)]
      /\ timer \in [Worker -> {"off", "armed", "fired"}]
      /\ timerActive \in [Worker -> BOOLEAN] /\ resume \in [Worker -> {"select", "exit"}]
  BY DEF WorkerOK, PlaceOK, FieldsOK
<1>1. CASE TakeDone(v) \/ TakeTimer(v) \/ TakeJob(v) \/ AskWss(v)
  BY <1>0, <1>1 DEF TakeDone, TakeTimer, TakeJob, AskWss, StartFlush, Goto
<1>2. CASE WriteWss(v)
  BY <1>0, <1>2 DEF WriteWss, JobNotFound, DropJob, Goto
<1>3. CASE WorkerPanic(v)
  BY <1>0, <1>3, Zenon DEF WorkerPanic, Goto
<1>4. CASE LookupLocal(v)
  BY <1>0, <1>4 DEF LookupLocal, AppendMsg, StartFlush, Goto
<1>5. CASE LookupPeer(v)
  BY <1>0, <1>5 DEF LookupPeer, AppendMsg, StartFlush, JobNotFound, DropJob, Goto
<1>6. CASE FlushOne(v) \/ FlushEnd(v)
  BY <1>0, <1>6 DEF FlushOne, FlushEnd, Goto
<1> QED
  BY <1>1, <1>2, <1>3, <1>4, <1>5, <1>6, Zenon DEF WorkerStep

LEMMA RestLocal ==
  dispatchRelay \/ RouteChange \/ CloseCompatWSS \/ Close \/ UNCHANGED vars => UNCHANGED local
<1>1. dispatchRelay => UNCHANGED local
  BY Zenon DEF dispatchRelay, RelayBreakerOpen, RelayNoRoute, RelayRefused, RelayEnqueue
<1>2. RouteChange => UNCHANGED local
  BY DEF RouteChange, others
<1>3. CloseCompatWSS => UNCHANGED local
  BY DEF CloseCompatWSS
<1>4. Close \/ UNCHANGED vars => UNCHANGED local
  BY DEF Close, others, vars
<1> QED
  BY <1>1, <1>2, <1>3, <1>4

LEMMA TimerStep ==
  ASSUME WorkerOK, NEW w \in Worker, TimerInv(w), WorkerStep(w)
  PROVE  TimerInv(w)'
<1>0. /\ pc \in [Worker -> Label] /\ msgs \in [Worker -> Seq(Msg)] /\ timer \in [Worker -> {"off", "armed", "fired"}]
      /\ timerActive \in [Worker -> BOOLEAN] /\ resume \in [Worker -> {"select", "exit"}]
  BY DEF WorkerOK, PlaceOK, FieldsOK
<1>1. CASE TakeDone(w)
  BY <1>0, <1>1 DEF TakeDone, StartFlush, Goto, TimerInv
<1>2. CASE TakeTimer(w)
  BY <1>0, <1>2 DEF TakeTimer, StartFlush, Goto, TimerInv
<1>3. CASE TakeJob(w)
  BY <1>0, <1>3 DEF TakeJob, Goto, TimerInv
<1>4. CASE AskWss(w)
  BY <1>0, <1>4 DEF AskWss, Goto, TimerInv
<1>5. ASSUME DropJob(w), pc[w] \in Holding, UNCHANGED <<msgs, timer, timerActive, resume>>
      PROVE  TimerInv(w)'
  BY <1>0, <1>5, Zenon DEF DropJob, Goto, TimerInv, Holding
<1>6. CASE WriteWss(w)
  BY ONLY <1>5, <1>6, Zenon DEF WriteWss, JobNotFound, Holding
<1>7. CASE WorkerPanic(w)
  BY <1>0, <1>7 DEF WorkerPanic, Goto, TimerInv
<1>8. ASSUME NEW t \in {"local", "peer"}, AppendMsg(w, t), pc[w] \in Holding PROVE TimerInv(w)'
  <2> DEFINE full == Len(msgs[w]) + 1 >= BatchCap
  <2>1. msgs'[w] # <<>>
    <3> DEFINE e == [n |-> job[w].n, dest |-> job[w].dest, tier |-> t]
    <3>1. job[w] \in Job /\ msgs[w] \in Seq(Msg)
      BY <1>8, WorkerTypes, Zenon
    <3>2. e \in Msg
      BY <3>1, MsgTypes, Zenon
    <3>3. msgs'[w] = Append(msgs[w], e)
      BY <1>0, <1>8 DEF AppendMsg
    <3> HIDE DEF e
    <3> QED
      BY ONLY <3>1, <3>2, <3>3, AppendSome, Zenon
  <2>2. timerActive'[w] = ~ full
    BY <1>0, <1>8 DEF AppendMsg
  <2>3. pc'[w] = (IF full THEN "flush" ELSE "select")
    BY <1>0, <1>8 DEF AppendMsg, StartFlush, Goto
  <2>4. timer'[w] = CASE full /\ timerActive[w] -> "off"
                      [] ~ full /\ ~ timerActive[w] -> "armed"
                      [] OTHER -> timer[w]
    BY <1>0, <1>8 DEF AppendMsg
  <2> HIDE DEF full
  <2> QED
    BY <1>0, <2>1, <2>2, <2>3, <2>4, Zenon DEF TimerInv
<1>9. CASE LookupLocal(w)
  <2>1. pc[w] = "lookup" /\ pc[w] \in Holding
    BY <1>9 DEF LookupLocal, Holding
  <2>2. CASE job[w].dest \in nodes
    BY <1>8, <1>9, <2>1, <2>2 DEF LookupLocal
  <2>3. CASE job[w].dest \notin nodes
    BY <1>0, <1>9, <2>1, <2>3, Zenon DEF LookupLocal, Goto, TimerInv
  <2> QED
    BY <2>2, <2>3
<1>10. CASE LookupPeer(w)
  <2>1. pc[w] \in Holding
    BY <1>10 DEF LookupPeer, Holding
  <2> QED
    BY <1>5, <1>8, <1>10, <2>1 DEF LookupPeer, JobNotFound
<1>11. CASE FlushOne(w)
  BY <1>0, <1>11 DEF FlushOne, TimerInv
<1>12. CASE FlushEnd(w)
  BY <1>0, <1>12 DEF FlushEnd, Goto, TimerInv
<1> QED
  BY <1>1, <1>2, <1>3, <1>4, <1>6, <1>7, <1>9, <1>10, <1>11, <1>12 DEF WorkerStep

LEMMA TimerNext ==
  ASSUME WorkerOK, NEW w \in Worker, TimerInv(w), [Next]_vars
  PROVE  TimerInv(w)'
<1>0. /\ pc \in [Worker -> Label] /\ msgs \in [Worker -> Seq(Msg)] /\ timer \in [Worker -> {"off", "armed", "fired"}]
      /\ timerActive \in [Worker -> BOOLEAN] /\ resume \in [Worker -> {"select", "exit"}]
  BY DEF WorkerOK, PlaceOK, FieldsOK
<1>1. ASSUME UNCHANGED local PROVE TimerInv(w)'
  BY <1>1, TimerSame, Zenon DEF local
<1>2. ASSUME NEW v \in Worker, v # w, WorkerStep(v) PROVE TimerInv(w)'
  BY <1>0, <1>2, OtherWorker, TimerSame
<1>3. ASSUME NEW v \in Worker, TimerFires(v) PROVE TimerInv(w)'
  BY <1>0, <1>3 DEF TimerFires, TimerInv
<1> QED
  BY <1>1, <1>2, <1>3, TimerStep, RestLocal DEF Next

-----------------------------------------------------------------------------
(* Order.  Nums are the packets in a queue or batch, Held the one in hand.  *)
Nums(s) == {s[i].n : i \in DOMAIN s}

Held(j) == IF j = NoJob THEN {} ELSE {j.n}

LEMMA EmptyHands == Nums(<<>>) = {} /\ Held(NoJob) = {}
  BY DEF Nums, Held

Below(A, B) == \A a \in A, b \in B : a < b

Sorted(s) == \A i, j \in DOMAIN s : i < j => s[i].n < s[j].n

On(w, s) == \A i \in DOMAIN s : relayQueueFor(s[i].dest) = w

(* Batch, job in hand and queue of worker w when a packets have arrived.    *)
Ordered(w, b, j, q, a) ==
  /\ Sorted(b) /\ Sorted(q)
  /\ Below(Nums(b), Held(j) \cup Nums(q)) /\ Below(Held(j), Nums(q))
  /\ \A n \in Nums(b) \cup Held(j) \cup Nums(q) : n \in Nat /\ n <= a
  /\ On(w, b) /\ On(w, q)
  /\ j # NoJob => relayQueueFor(j.dest) = w

LEMMA NumsAppend ==
  ASSUME NEW S, NEW s \in Seq(S), NEW e \in S
  PROVE  Nums(Append(s, e)) = Nums(s) \cup {e.n}
<1> DEFINE t == Append(s, e)
<1>1. /\ DOMAIN t = 1 .. Len(s) + 1 /\ DOMAIN s = 1 .. Len(s) /\ Len(s) \in Nat
      /\ \A i \in DOMAIN s : t[i] = s[i]
      /\ t[Len(s) + 1] = e
  BY AppendFacts
<1> HIDE DEF t
<1>2. \A i \in DOMAIN t : i \in DOMAIN s \/ i = Len(s) + 1
  BY <1>1
<1>3. DOMAIN s \subseteq DOMAIN t /\ Len(s) + 1 \in DOMAIN t
  BY <1>1
<1>4. Nums(t) = Nums(s) \cup {e.n}
  BY <1>1, <1>2, <1>3 DEF Nums
<1> QED
  BY <1>4 DEF t

LEMMA AppendOrder ==
  ASSUME NEW S, NEW s \in Seq(S), NEW e \in S, Sorted(s), Below(Nums(s), {e.n})
  PROVE  Sorted(Append(s, e)) /\ Nums(Append(s, e)) = Nums(s) \cup {e.n}
<1> DEFINE t == Append(s, e)
<1>1. /\ DOMAIN t = 1 .. Len(s) + 1 /\ DOMAIN s = 1 .. Len(s) /\ Len(s) \in Nat
      /\ \A i \in DOMAIN s : t[i] = s[i]
      /\ t[Len(s) + 1] = e
  BY AppendFacts
<1> HIDE DEF t
<1>2. \A i \in DOMAIN s : s[i].n < e.n
  BY DEF Below, Nums
<1>3. Sorted(t)
  <2> SUFFICES ASSUME NEW i \in DOMAIN t, NEW j \in DOMAIN t, i < j PROVE t[i].n < t[j].n
    BY DEF Sorted
  <2>1. i \in DOMAIN s
    BY <1>1
  <2>2. CASE j \in DOMAIN s
    BY <1>1, <2>1, <2>2 DEF Sorted
  <2>3. CASE j = Len(s) + 1
    BY <1>1, <1>2, <2>1, <2>3
  <2> QED
    BY <1>1, <2>2, <2>3
<1>4. Nums(t) = Nums(s) \cup {e.n}
  BY NumsAppend DEF t
<1> QED
  BY <1>3, <1>4 DEF t

LEMMA TailOrder ==
  ASSUME NEW S, NEW s \in Seq(S), s # <<>>, Sorted(s)
  PROVE  /\ Sorted(Tail(s)) /\ Nums(Tail(s)) \subseteq Nums(s)
         /\ Head(s).n \in Nums(s) /\ Below({Head(s).n}, Nums(Tail(s)))
<1>1. /\ Head(s) = s[1] /\ 1 \in DOMAIN s /\ DOMAIN s \subseteq Nat
      /\ \A i \in DOMAIN Tail(s) : i \in Nat /\ i >= 1 /\ i + 1 \in DOMAIN s /\ Tail(s)[i] = s[i + 1]
  BY TailFacts
<1>2. Sorted(Tail(s))
  BY <1>1 DEF Sorted
<1>3. Nums(Tail(s)) \subseteq Nums(s) /\ Head(s).n \in Nums(s)
  BY <1>1 DEF Nums
<1>4. \A i \in DOMAIN Tail(s) : s[1].n < Tail(s)[i].n
  BY <1>1 DEF Sorted
<1>5. Below({Head(s).n}, Nums(Tail(s)))
  BY <1>1, <1>4 DEF Below, Nums
<1> QED
  BY <1>2, <1>3, <1>5

LEMMA OnKept ==
  ASSUME NEW w, NEW S, NEW s \in Seq(S), On(w, s)
  PROVE  /\ \A e \in S : relayQueueFor(e.dest) = w => On(w, Append(s, e))
         /\ s # <<>> => On(w, Tail(s)) /\ relayQueueFor(Head(s).dest) = w
<1>1. ASSUME NEW e \in S, relayQueueFor(e.dest) = w PROVE On(w, Append(s, e))
  BY <1>1, AppendFacts DEF On
<1>2. ASSUME s # <<>> PROVE On(w, Tail(s)) /\ relayQueueFor(Head(s).dest) = w
  BY <1>2, TailFacts DEF On
<1> QED
  BY <1>1, <1>2

(* A worker's packets only move forward: what the batch holds was there or  *)
(* in hand, and what is in hand or queued was so before.                    *)
Forward(b, j, q, b2, j2, q2) ==
  /\ Nums(b2) \subseteq Nums(b) \cup Held(j)
  /\ Held(j2) \cup Nums(q2) \subseteq Held(j) \cup Nums(q)

LEMMA OrderTake ==
  ASSUME NEW w, NEW b, NEW q \in Seq(Job), NEW a, q # <<>>, Ordered(w, b, NoJob, q, a)
  PROVE  Ordered(w, b, Head(q), Tail(q), a) /\ Forward(b, NoJob, q, b, Head(q), Tail(q))
<1> DEFINE h == Head(q)
           t == Tail(q)
<1>1. /\ Sorted(t) /\ Nums(t) \subseteq Nums(q)
      /\ h.n \in Nums(q) /\ Below({h.n}, Nums(t))
  BY TailOrder, Zenon DEF Ordered
<1>2. On(w, t) /\ relayQueueFor(h.dest) = w
  BY OnKept DEF Ordered
<1>3. Held(h) = {h.n} /\ Held(NoJob) = {}
  BY TailFacts, JobFacts DEF Held
<1> HIDE DEF h, t
<1>4. Below(Nums(b), Held(h) \cup Nums(t))
  BY <1>1, <1>3 DEF Ordered, Below
<1>5. \A n \in Nums(b) \cup Held(h) \cup Nums(t) : n \in Nat /\ n <= a
  BY <1>1, <1>3, Zenon DEF Ordered
<1>6. Ordered(w, b, h, t, a)
  BY <1>1, <1>2, <1>3, <1>4, <1>5, Zenon DEF Ordered
<1>7. Forward(b, NoJob, q, b, h, t)
  BY ONLY <1>1, <1>3, Zenon DEF Forward
<1> QED
  BY <1>6, <1>7 DEF h, t

LEMMA OrderBatch ==
  ASSUME NEW w, NEW b \in Seq(Msg), NEW j \in Job, NEW q, NEW a, NEW e \in Msg,
         e.n = j.n, e.dest = j.dest, Ordered(w, b, j, q, a)
  PROVE  Ordered(w, Append(b, e), NoJob, q, a) /\ Forward(b, j, q, Append(b, e), NoJob, q)
<1> DEFINE c == Append(b, e)
<1>1. Held(j) = {e.n} /\ Held(NoJob) = {}
  BY JobFacts DEF Held
<1>2. Sorted(c) /\ Nums(c) = Nums(b) \cup {e.n}
  <2>1. Sorted(b) /\ Below(Nums(b), {e.n})
    BY <1>1 DEF Ordered, Below
  <2> QED
    BY ONLY <2>1, b \in Seq(Msg), e \in Msg, AppendOrder
<1>3. On(w, c)
  <2>1. On(w, b) /\ relayQueueFor(e.dest) = w
    BY JobFacts DEF Ordered
  <2> QED
    BY <2>1, OnKept, Zenon
<1> HIDE DEF c
<1>4. Below(Nums(c), Held(NoJob) \cup Nums(q))
  BY <1>1, <1>2, Zenon DEF Ordered, Below
<1>5. \A n \in Nums(c) \cup Held(NoJob) \cup Nums(q) : n \in Nat /\ n <= a
  BY <1>1, <1>2, Zenon DEF Ordered
<1>6. Ordered(w, c, NoJob, q, a)
  BY <1>1, <1>2, <1>3, <1>4, <1>5, Zenon DEF Ordered, Below
<1>7. Forward(b, j, q, c, NoJob, q)
  BY <1>1, <1>2 DEF Forward
<1> QED
  BY <1>6, <1>7 DEF c

LEMMA OrderDrop ==
  ASSUME NEW w, NEW b, NEW j, NEW q, NEW a, Ordered(w, b, j, q, a)
  PROVE  /\ Ordered(w, b, NoJob, q, a) /\ Forward(b, j, q, b, NoJob, q)
         /\ Ordered(w, <<>>, NoJob, q, a) /\ Forward(b, j, q, <<>>, NoJob, q)
         /\ Forward(b, j, q, b, j, q)
<1>1. Held(NoJob) = {} /\ Nums(<<>>) = {} /\ Sorted(<<>>) /\ On(w, <<>>)
  BY DEF Held, Nums, Sorted, On
<1>2. Ordered(w, b, NoJob, q, a)
  BY <1>1 DEF Ordered, Below
<1>3. Ordered(w, <<>>, NoJob, q, a)
  BY <1>1, <1>2 DEF Ordered, Below
<1> QED
  BY <1>1, <1>2, <1>3 DEF Forward

LEMMA OrderFlush ==
  ASSUME NEW w, NEW b \in Seq(Msg), NEW j, NEW q, NEW a, b # <<>>, Ordered(w, b, j, q, a)
  PROVE  Ordered(w, Tail(b), j, q, a) /\ Forward(b, j, q, Tail(b), j, q)
<1>1. Sorted(Tail(b)) /\ Nums(Tail(b)) \subseteq Nums(b)
  BY TailOrder, Zenon DEF Ordered
<1>2. On(w, Tail(b))
  BY OnKept DEF Ordered
<1>3. Ordered(w, Tail(b), j, q, a)
  BY <1>1, <1>2 DEF Ordered, Below
<1> QED
  BY <1>1, <1>3 DEF Forward

LEMMA OrderArrive ==
  ASSUME NEW w, NEW b, NEW j, NEW q \in Seq(Job), NEW a \in Nat, NEW e \in Job,
         e.n = a + 1, relayQueueFor(e.dest) = w, Ordered(w, b, j, q, a)
  PROVE  Ordered(w, b, j, Append(q, e), a + 1) /\ Nums(Append(q, e)) = Nums(q) \cup {a + 1}
<1> DEFINE t == Append(q, e)
<1>0. \A n \in Nums(b) \cup Held(j) \cup Nums(q) : n \in Nat /\ n <= a
  BY Zenon DEF Ordered
<1>1. \A n \in Nums(b) \cup Held(j) \cup Nums(q) : n \in Nat /\ n <= a /\ n < a + 1
  BY <1>0
<1>2. Sorted(t) /\ Nums(t) = Nums(q) \cup {a + 1}
  <2>1. Sorted(q) /\ Below(Nums(q), {e.n})
    BY <1>1 DEF Ordered, Below
  <2> QED
    BY ONLY <2>1, q \in Seq(Job), e \in Job, e.n = a + 1, AppendOrder
<1>3. On(w, t)
  BY OnKept, Zenon DEF Ordered
<1> HIDE DEF t
<1>4. Below(Nums(b), Held(j) \cup Nums(t)) /\ Below(Held(j), Nums(t))
  BY <1>1, <1>2 DEF Ordered, Below
<1>5. \A n \in Nums(b) \cup Held(j) \cup Nums(t) : n \in Nat /\ n <= a + 1
  BY <1>1, <1>2
<1>6. Ordered(w, b, j, t, a + 1)
  BY <1>2, <1>3, <1>4, <1>5, Zenon DEF Ordered
<1> QED
  BY <1>2, <1>6 DEF t

LEMMA OrderLater ==
  ASSUME NEW w, NEW b, NEW j, NEW q, NEW a \in Nat, Ordered(w, b, j, q, a)
  PROVE  Ordered(w, b, j, q, a + 1)
<1>0. \A n \in Nums(b) \cup Held(j) \cup Nums(q) : n \in Nat /\ n <= a
  BY Zenon DEF Ordered
<1>1. \A n \in Nums(b) \cup Held(j) \cup Nums(q) : n \in Nat /\ n <= a + 1
  BY <1>0
<1> QED
  BY <1>1 DEF Ordered

OrderInv(w) == Ordered(w, msgs[w], job[w], relayChs[w], arrived)

LEMMA WorkerArrived ==
  ASSUME NEW w \in Worker, WorkerStep(w)
  PROVE  arrived' = arrived
<1>1. CASE TakeDone(w) \/ TakeTimer(w) \/ TakeJob(w) \/ AskWss(w) \/ FlushEnd(w)
  BY ONLY <1>1, Zenon DEF TakeDone, TakeTimer, TakeJob, AskWss, FlushEnd
<1>2. CASE WriteWss(w) \/ WorkerPanic(w) \/ FlushOne(w)
  BY <1>2, Zenon DEF WriteWss, WorkerPanic, FlushOne
<1>3. CASE LookupLocal(w) \/ LookupPeer(w)
  BY <1>3 DEF LookupLocal, LookupPeer, AppendMsg
<1> QED
  BY <1>1, <1>2, <1>3, Zenon DEF WorkerStep

LEMMA OrderStep ==
  ASSUME WorkerOK, NEW w \in Worker, OrderInv(w), WorkerStep(w)
  PROVE  OrderInv(w)' /\ Forward(msgs[w], job[w], relayChs[w], msgs'[w], job'[w], relayChs'[w])
<1> DEFINE b == msgs[w]
           j == job[w]
           q == relayChs[w]
           Goal == /\ Ordered(w, msgs'[w], job'[w], relayChs'[w], arrived)
                   /\ Forward(b, j, q, msgs'[w], job'[w], relayChs'[w])
<1>0. /\ job \in [Worker -> Job \cup {NoJob}] /\ msgs \in [Worker -> Seq(Msg)]
      /\ relayChs \in [Worker -> Seq(Job)]
  BY DEF WorkerOK, PlaceOK, FieldsOK
<1>1. /\ b \in Seq(Msg) /\ q \in Seq(Job) /\ Ordered(w, b, j, q, arrived)
      /\ IF pc[w] \in Holding THEN j \in Job ELSE j = NoJob
  BY WorkerTypes, Zenon DEF OrderInv
<1>2. arrived' = arrived
  BY WorkerArrived
<1>3. SUFFICES Goal
  BY <1>2, Zenon DEF OrderInv
<1>4. ASSUME msgs'[w] = b, job'[w] = j, relayChs'[w] = q PROVE Goal
  BY <1>1, <1>4, OrderDrop, Zenon
<1>5. ASSUME msgs'[w] = b, job'[w] = NoJob, relayChs'[w] = q PROVE Goal
  BY <1>1, <1>5, OrderDrop, Zenon
<1>6. ASSUME NEW t \in {"local", "peer"}, AppendMsg(w, t), pc[w] \in Holding PROVE Goal
  <2> DEFINE e == [n |-> j.n, dest |-> j.dest, tier |-> t]
  <2>1. e \in Msg /\ e.n = j.n /\ e.dest = j.dest
    BY <1>1, <1>6, MsgTypes, Zenon
  <2>2. msgs'[w] = Append(b, e) /\ job'[w] = NoJob /\ relayChs'[w] = q
    BY <1>0, <1>6 DEF AppendMsg
  <2> HIDE DEF e
  <2> QED
    BY <1>1, <1>6, <2>1, <2>2, OrderBatch, Zenon
<1>7. CASE TakeDone(w) \/ TakeTimer(w) \/ AskWss(w) \/ FlushEnd(w)
  BY <1>4, <1>7, Zenon DEF TakeDone, TakeTimer, AskWss, FlushEnd
<1>8. CASE TakeJob(w)
  <2>1. /\ q # <<>> /\ j = NoJob
        /\ msgs'[w] = b /\ job'[w] = Head(q) /\ relayChs'[w] = Tail(q)
    BY <1>0, <1>1, <1>8 DEF TakeJob, Holding
  <2> QED
    BY <1>1, <2>1, OrderTake, Zenon
<1>9. CASE WriteWss(w)
  BY <1>0, <1>5, <1>9, Zenon DEF WriteWss, JobNotFound, DropJob
<1>10. CASE WorkerPanic(w)
  <2>1. msgs'[w] = <<>> /\ job'[w] = NoJob /\ relayChs'[w] = q
    BY <1>0, <1>10, Zenon DEF WorkerPanic
  <2> QED
    BY <1>1, <2>1, OrderDrop, Zenon
<1>11. CASE LookupLocal(w)
  <2>1. pc[w] \in Holding
    BY <1>11, Zenon DEF LookupLocal, Holding
  <2> QED
    BY <1>4, <1>6, <1>11, <2>1, Zenon DEF LookupLocal
<1>12. CASE LookupPeer(w)
  <2>1. pc[w] \in Holding
    BY <1>12, Zenon DEF LookupPeer, Holding
  <2>2. CASE job[w].dest \in peerNodes
    BY <1>6, <1>12, <2>1, <2>2, Zenon DEF LookupPeer
  <2>3. CASE job[w].dest \notin peerNodes
    BY <1>0, <1>5, <1>12, <2>3, Zenon DEF LookupPeer, JobNotFound, DropJob
  <2> QED
    BY <2>2, <2>3, Zenon
<1>13. CASE FlushOne(w)
  <2>1. b # <<>> /\ msgs'[w] = Tail(b) /\ job'[w] = j /\ relayChs'[w] = q
    BY <1>0, <1>13 DEF FlushOne
  <2> QED
    BY <1>1, <2>1, OrderFlush, Zenon
<1> QED
  BY <1>7, <1>8, <1>9, <1>10, <1>11, <1>12, <1>13, Zenon DEF WorkerStep

(* What the readers and the rest of the server do to the queues.            *)
LEMMA RestQueues ==
  ASSUME SharedOK,
         dispatchRelay \/ RouteChange \/ CloseCompatWSS \/ Close \/ UNCHANGED vars
  PROVE  \/ UNCHANGED relayChs /\ arrived' \in {arrived, arrived + 1}
         \/ \E d \in NodeId : LET e == [n |-> arrived + 1, dest |-> d]
                                   w == relayQueueFor(d) IN
              /\ e \in Job /\ arrived' = arrived + 1
              /\ relayChs' = [relayChs EXCEPT ![w] = Append(relayChs[w], e)]
<1>1. CASE RouteChange \/ Close \/ UNCHANGED vars
  BY <1>1 DEF RouteChange, Close, others, vars
<1>2. CASE CloseCompatWSS
  BY <1>2 DEF CloseCompatWSS, Arrive
<1>3. CASE RelayBreakerOpen \/ \E d \in NodeId : RelayNoRoute(d) \/ RelayRefused(d)
  BY <1>3 DEF RelayBreakerOpen, RelayNoRoute, RelayRefused, Arrive
<1>4. ASSUME NEW d \in NodeId, RelayEnqueue(d), Len(relayChs[relayQueueFor(d)]) < QueueCap
      PROVE  /\ [n |-> arrived + 1, dest |-> d] \in Job /\ arrived' = arrived + 1
             /\ relayChs' = [relayChs EXCEPT ![relayQueueFor(d)] =
                             Append(relayChs[relayQueueFor(d)], [n |-> arrived + 1, dest |-> d])]
  <2>1. /\ Arrive("queued")
        /\ relayChs' = [relayChs EXCEPT ![relayQueueFor(d)] =
                        Append(relayChs[relayQueueFor(d)], [n |-> arrived + 1, dest |-> d])]
    BY <1>4 DEF RelayEnqueue
  <2>2. [n |-> arrived + 1, dest |-> d] \in Job
    BY <2>1, Arrival DEF Job, Fate
  <2> QED
    BY <2>1, <2>2 DEF Arrive
<1>5. ASSUME NEW d \in NodeId, RelayEnqueue(d), ~ Len(relayChs[relayQueueFor(d)]) < QueueCap
      PROVE  UNCHANGED relayChs /\ arrived' = arrived + 1
  BY <1>5, Zenon DEF RelayEnqueue, Arrive
<1> QED
  BY <1>1, <1>2, <1>3, <1>4, <1>5, Zenon DEF dispatchRelay

LEMMA OrderNext ==
  ASSUME TypeInv, NEW w \in Worker, OrderInv(w), [Next]_vars
  PROVE  OrderInv(w)'
<1>0. SharedOK /\ WorkerOK /\ arrived \in Nat
  <2>1. SharedOK /\ WorkerOK /\ arrived \in 0 .. MaxPackets
    BY Zenon DEF TypeInv, SharedOK
  <2>2. 0 .. MaxPackets \subseteq Nat
    BY ONLY RelayAssumption
  <2> QED
    BY ONLY <2>1, <2>2, Zenon
<1>1. ASSUME NEW v \in Worker, v # w, WorkerStep(v) PROVE OrderInv(w)'
  BY <1>0, <1>1, OtherWorker, WorkerArrived DEF OrderInv
<1>2. ASSUME NEW v \in Worker, TimerFires(v) PROVE OrderInv(w)'
  BY <1>2 DEF TimerFires, OrderInv
<1>3. CASE dispatchRelay \/ RouteChange \/ CloseCompatWSS \/ Close \/ UNCHANGED vars
  <2>0. msgs' = msgs /\ job' = job
    BY ONLY <1>3, RestLocal, Zenon DEF local
  <2>1. CASE UNCHANGED relayChs /\ arrived' \in {arrived, arrived + 1}
    BY <1>0, <2>0, <2>1, OrderLater DEF OrderInv
  <2>2. ASSUME NEW d \in NodeId, NEW e, e = [n |-> arrived + 1, dest |-> d],
               e \in Job, arrived' = arrived + 1,
               relayChs' = [relayChs EXCEPT ![relayQueueFor(d)] = Append(relayChs[relayQueueFor(d)], e)]
        PROVE  OrderInv(w)'
    <3>0. relayChs \in [Worker -> Seq(Job)] /\ relayQueueFor(d) \in Worker
      BY <1>0, Hash, Zenon DEF WorkerOK, FieldsOK
    <3>1. CASE w = relayQueueFor(d)
      <4>1. e.n = arrived + 1 /\ relayQueueFor(e.dest) = w
        BY <2>2, <3>1
      <4>2. relayChs[w] \in Seq(Job) /\ relayChs'[w] = Append(relayChs[w], e)
        BY <2>2, <3>0, <3>1, Zenon
      <4>3. Ordered(w, msgs[w], job[w], Append(relayChs[w], e), arrived + 1)
        BY <1>0, <2>2, <4>1, <4>2, OrderArrive, Zenon DEF OrderInv
      <4> QED
        BY <2>0, <2>2, <4>2, <4>3 DEF OrderInv
    <3>2. CASE w # relayQueueFor(d)
      <4>1. relayChs'[w] = relayChs[w]
        BY <2>2, <3>0, <3>2
      <4> QED
        BY <1>0, <2>0, <2>2, <4>1, OrderLater, Zenon DEF OrderInv
    <3> QED
      BY <3>1, <3>2
  <2> QED
    BY <1>0, <1>3, <2>1, <2>2, RestQueues, Zenon
<1> QED
  BY <1>0, <1>1, <1>2, <1>3, OrderStep, Zenon DEF Next

Increasing(p) == \A i, j \in DOMAIN p : i < j => p[i] < p[j]

LEMMA IncreasingConcat ==
  ASSUME NEW s \in Seq(Nat), NEW t \in Seq(Nat), Increasing(s), Increasing(t),
         \A i \in DOMAIN s, j \in DOMAIN t : s[i] < t[j]
  PROVE  /\ s \o t \in Seq(Nat) /\ Increasing(s \o t)
         /\ \A i \in DOMAIN (s \o t) :
              (\E k \in DOMAIN s : (s \o t)[i] = s[k]) \/ (\E k \in DOMAIN t : (s \o t)[i] = t[k])
<1> DEFINE p == s \o t
<1>1. /\ p \in Seq(Nat) /\ DOMAIN p = 1 .. Len(s) + Len(t)
      /\ DOMAIN s = 1 .. Len(s) /\ DOMAIN t = 1 .. Len(t) /\ Len(s) \in Nat /\ Len(t) \in Nat
      /\ \A i \in DOMAIN p : p[i] = IF i <= Len(s) THEN s[i] ELSE t[i - Len(s)]
  OBVIOUS
<1> HIDE DEF p
<1>2. ASSUME NEW i \in DOMAIN p
      PROVE  \/ i <= Len(s) /\ i \in DOMAIN s /\ p[i] = s[i]
             \/ i > Len(s) /\ i - Len(s) \in DOMAIN t /\ p[i] = t[i - Len(s)]
  <2>1. i \in Nat /\ i >= 1 /\ i <= Len(s) + Len(t)
    BY <1>1
  <2>2. CASE i <= Len(s)
    BY <1>1, <2>1, <2>2
  <2>3. CASE i > Len(s)
    <3>1. i - Len(s) \in DOMAIN t /\ ~ i <= Len(s)
      BY <1>1, <2>1, <2>3
    <3> QED
      BY <1>1, <2>3, <3>1
  <2> QED
    BY <1>1, <2>1, <2>2, <2>3
<1>3. Increasing(p)
  <2> SUFFICES ASSUME NEW i \in DOMAIN p, NEW j \in DOMAIN p, i < j PROVE p[i] < p[j]
    BY DEF Increasing
  <2>0. i \in Nat /\ j \in Nat
    BY <1>1
  <2>1. CASE j <= Len(s)
    <3>1. i <= Len(s)
      BY <1>1, <2>0, <2>1
    <3> QED
      BY <1>1, <1>2, <2>0, <2>1, <3>1 DEF Increasing
  <2>2. CASE i <= Len(s) /\ j > Len(s)
    BY <1>1, <1>2, <2>0, <2>2
  <2>3. CASE i > Len(s) /\ j > Len(s)
    <3>1. /\ i - Len(s) \in DOMAIN t /\ p[i] = t[i - Len(s)]
          /\ j - Len(s) \in DOMAIN t /\ p[j] = t[j - Len(s)]
      BY <1>1, <1>2, <2>0, <2>3
    <3>2. i - Len(s) < j - Len(s)
      BY <1>1, <2>0
    <3> QED
      BY <3>1, <3>2 DEF Increasing
  <2> QED
    BY <1>1, <2>0, <2>1, <2>2, <2>3
<1> QED
  BY <1>1, <1>2, <1>3 DEF p

LEMMA NumbersFacts ==
  ASSUME NEW S, NEW s \in Seq(S), \A n \in Nums(s) : n \in Nat, Sorted(s)
  PROVE  /\ Numbers(s) \in Seq(Nat) /\ Increasing(Numbers(s))
         /\ \A i \in DOMAIN Numbers(s) : Numbers(s)[i] \in Nums(s)
<1>1. DOMAIN s = 1 .. Len(s) /\ Len(s) \in Nat
  OBVIOUS
<1>2. \A i \in DOMAIN s : s[i].n \in Nat /\ s[i].n \in Nums(s)
  BY DEF Nums
<1>3. Numbers(s) \in [1 .. Len(s) -> Nat]
  BY <1>1, <1>2 DEF Numbers
<1>4. Numbers(s) \in Seq(Nat)
  BY <1>1, <1>3
<1> QED
  BY <1>2, <1>4 DEF Numbers, Increasing, Sorted

LEMMA OrderedInFlight ==
  ASSUME TypeInv, NEW w \in Worker, OrderInv(w)
  PROVE  Increasing(InFlight(w))
<1> DEFINE A == Numbers(msgs[w])
           B == IF job[w] = NoJob THEN <<>> ELSE <<job[w].n>>
           C == Numbers(relayChs[w])
<1>0. /\ msgs[w] \in Seq(Msg) /\ relayChs[w] \in Seq(Job) /\ job[w] \in Job \cup {NoJob}
      /\ Ordered(w, msgs[w], job[w], relayChs[w], arrived)
  BY WorkerTypes DEF TypeInv, OrderInv
<1>1. /\ A \in Seq(Nat) /\ Increasing(A)
      /\ \A i \in DOMAIN A : A[i] \in Nums(msgs[w])
  <2>1. Sorted(msgs[w]) /\ \A n \in Nums(msgs[w]) : n \in Nat
    BY ONLY <1>0, Zenon DEF Ordered
  <2> QED
    BY <1>0, <2>1, NumbersFacts, Zenon
<1>2. /\ C \in Seq(Nat) /\ Increasing(C)
      /\ \A i \in DOMAIN C : C[i] \in Nums(relayChs[w])
  <2>1. Sorted(relayChs[w]) /\ \A n \in Nums(relayChs[w]) : n \in Nat
    BY ONLY <1>0, Zenon DEF Ordered
  <2> QED
    BY <1>0, <2>1, NumbersFacts, Zenon
<1>3. /\ B \in Seq(Nat) /\ Increasing(B)
      /\ \A i \in DOMAIN B : B[i] \in Held(job[w])
  <2>1. CASE job[w] = NoJob
    BY <2>1 DEF Increasing
  <2>2. CASE job[w] # NoJob
    <3>1. job[w].n \in Nat /\ job[w].n \in Held(job[w])
      BY <1>0, <2>2, JobFacts DEF Held
    <3>2. B = <<job[w].n>>
      BY ONLY <2>2, Zenon
    <3> QED
      BY ONLY <3>1, <3>2 DEF Increasing
  <2> QED
    BY <2>1, <2>2
<1> HIDE DEF A, B, C
<1>4. /\ A \o B \in Seq(Nat) /\ Increasing(A \o B)
      /\ \A i \in DOMAIN (A \o B) : (A \o B)[i] \in Nums(msgs[w]) \cup Held(job[w])
  <2>1. \A i \in DOMAIN A, j \in DOMAIN B : A[i] < B[j]
    BY <1>0, <1>1, <1>3, Zenon DEF Ordered, Below
  <2>2. /\ A \o B \in Seq(Nat) /\ Increasing(A \o B)
        /\ \A i \in DOMAIN (A \o B) :
             (\E k \in DOMAIN A : (A \o B)[i] = A[k]) \/ (\E k \in DOMAIN B : (A \o B)[i] = B[k])
    BY <1>1, <1>3, <2>1, IncreasingConcat, Zenon
  <2> QED
    BY ONLY <1>1, <1>3, <2>2
<1>5. Increasing((A \o B) \o C)
  <2>1. \A i \in DOMAIN (A \o B), j \in DOMAIN C : (A \o B)[i] < C[j]
    BY <1>0, <1>2, <1>4, Zenon DEF Ordered, Below
  <2> QED
    BY <1>2, <1>4, <2>1, IncreasingConcat, Zenon
<1> QED
  BY <1>5, Zenon DEF InFlight, A, B, C

-----------------------------------------------------------------------------
(* What each step does to the packets: worker w is left with batch b, job j *)
(* and queue q, ...                                                         *)
Hands(w, b, j, q) ==
  /\ msgs' = [msgs EXCEPT ![w] = b]
  /\ job' = [job EXCEPT ![w] = j]
  /\ relayChs' = [relayChs EXCEPT ![w] = q]

Keeps == UNCHANGED <<msgs, job, relayChs, fate, sent, counters, flushing>>

Takes(w) ==
  /\ job[w] = NoJob /\ relayChs[w] # <<>>
  /\ Hands(w, msgs[w], Head(relayChs[w]), Tail(relayChs[w]))
  /\ UNCHANGED <<fate, sent, counters, flushing>>

Batches(w, e) ==
  /\ job[w] \in Job /\ e.n = job[w].n /\ e.dest = job[w].dest
  /\ Hands(w, Append(msgs[w], e), NoJob, relayChs[w])
  /\ UNCHANGED <<fate, sent, counters, flushing>>

Writes(w) ==
  /\ job[w] \in Job /\ job[w].dest \in WssNodes
  /\ Hands(w, msgs[w], NoJob, relayChs[w])
  /\ fate' = [fate EXCEPT ![job[w].n] = "sent"]
  /\ Departs(job[w].n, job[w].dest, "wss")
  /\ forwarded' = forwarded + 1
  /\ UNCHANGED <<dropped, notFound, flushing>>

Misses(w) ==
  /\ job[w] \in Job
  /\ Hands(w, msgs[w], NoJob, relayChs[w])
  /\ fate' = [fate EXCEPT ![job[w].n] = "notFound"]
  /\ notFound' = notFound + 1
  /\ UNCHANGED <<forwarded, dropped, sent, flushing>>

Panics(w) ==
  /\ job[w] \in Job
  /\ Hands(w, <<>>, NoJob, relayChs[w])
  /\ fate' = [n \in Packet |-> IF n \in Nums(msgs[w]) \cup {job[w].n} THEN "lost" ELSE fate[n]]
  /\ UNCHANGED <<sent, counters, flushing>>

Sends(w) ==
  /\ msgs[w] # <<>>
  /\ Hands(w, Tail(msgs[w]), job[w], relayChs[w])
  /\ Sent(w, Head(msgs[w]))
  /\ UNCHANGED counters

Fails(w) ==
  /\ msgs[w] # <<>>
  /\ Hands(w, Tail(msgs[w]), job[w], relayChs[w])
  /\ fate' = [fate EXCEPT ![Head(msgs[w]).n] = "failed"]
  /\ UNCHANGED <<sent, counters, flushing>>

Counts(w) ==
  /\ forwarded' = forwarded + flushed[w]
  /\ flushed' = [flushed EXCEPT ![w] = 0]
  /\ written' = [written EXCEPT ![w] = {}]
  /\ UNCHANGED <<msgs, job, relayChs, fate, sent, dropped, notFound>>

Effect(w) ==
  \/ Keeps \/ Takes(w) \/ (\E e \in Msg : Batches(w, e)) \/ Writes(w) \/ Misses(w) \/ Panics(w)
  \/ Sends(w) \/ Fails(w) \/ Counts(w)

LEMMA StayHands ==
  ASSUME WorkerOK, NEW w \in Worker
  PROVE  /\ msgs = [msgs EXCEPT ![w] = msgs[w]] /\ job = [job EXCEPT ![w] = job[w]]
         /\ relayChs = [relayChs EXCEPT ![w] = relayChs[w]]
         /\ IF pc[w] \in Holding THEN job[w] \in Job ELSE job[w] = NoJob
  BY WorkerTypes DEF WorkerOK, PlaceOK, FieldsOK

LEMMA Effects ==
  ASSUME TypeInv, NEW w \in Worker, WorkerStep(w)
  PROVE  Effect(w)
<1>0. WorkerOK /\ wssPeers \subseteq WssNodes
  BY DEF TypeInv, SharedOK
<1>1. /\ msgs = [msgs EXCEPT ![w] = msgs[w]] /\ job = [job EXCEPT ![w] = job[w]]
      /\ relayChs = [relayChs EXCEPT ![w] = relayChs[w]]
      /\ IF pc[w] \in Holding THEN job[w] \in Job ELSE job[w] = NoJob
  BY <1>0, StayHands, Zenon
<1>2. ASSUME NEW t \in {"local", "peer"}, AppendMsg(w, t), pc[w] \in Holding PROVE Effect(w)
  <2> DEFINE e == [n |-> job[w].n, dest |-> job[w].dest, tier |-> t]
  <2>1. e \in Msg /\ e.n = job[w].n /\ e.dest = job[w].dest
    BY <1>1, <1>2, MsgTypes, Zenon
  <2>2. Hands(w, Append(msgs[w], e), NoJob, relayChs[w]) /\ UNCHANGED <<fate, sent, counters, flushing>>
    BY <1>1, <1>2 DEF AppendMsg, Hands
  <2> HIDE DEF e
  <2>3. Batches(w, e)
    BY <1>1, <1>2, <2>1, <2>2 DEF Batches
  <2> QED
    BY <2>1, <2>3 DEF Effect
<1>3. ASSUME JobNotFound(w), pc[w] \in Holding, UNCHANGED <<msgs, relayChs, flushing>> PROVE Effect(w)
  <2>1. Misses(w)
    BY <1>1, <1>3 DEF JobNotFound, DropJob, Hands, Misses
  <2> QED
    BY <2>1 DEF Effect
<1>4. CASE TakeDone(w) \/ TakeTimer(w) \/ AskWss(w)
  <2>1. Keeps
    BY <1>4 DEF TakeDone, TakeTimer, AskWss, Keeps
  <2> QED
    BY <2>1, Zenon DEF Effect
<1>5. CASE TakeJob(w)
  <2>1. Takes(w)
    BY <1>1, <1>5 DEF TakeJob, Takes, Hands, Holding
  <2> QED
    BY <2>1 DEF Effect
<1>6. CASE WriteWss(w)
  <2>0. pc[w] \in Holding /\ UNCHANGED <<msgs, relayChs, flushing>>
    BY <1>6, Zenon DEF WriteWss, Holding
  <2>1. CASE JobNotFound(w)
    BY <1>3, <2>0, <2>1
  <2>2. CASE ~ JobNotFound(w)
    <3>1. Writes(w)
      BY <1>0, <1>1, <1>6, <2>0, <2>2 DEF WriteWss, DropJob, Hands, Writes, Departs
    <3> QED
      BY <3>1, Zenon DEF Effect
  <2> QED
    BY <2>1, <2>2
<1>7. CASE WorkerPanic(w)
  <2>1. Panics(w)
    BY <1>1, <1>7 DEF WorkerPanic, Panics, Hands, Holding, Nums
  <2> QED
    BY <2>1 DEF Effect
<1>8. CASE LookupLocal(w)
  <2>1. pc[w] \in Holding
    BY <1>8, Zenon DEF LookupLocal, Holding
  <2>2. CASE job[w].dest \in nodes
    BY <1>2, <1>8, <2>1, <2>2, Zenon DEF LookupLocal
  <2>3. CASE job[w].dest \notin nodes
    BY <1>8, <2>3, Zenon DEF LookupLocal, Keeps, Effect
  <2> QED
    BY <2>2, <2>3
<1>9. CASE LookupPeer(w)
  <2>1. pc[w] \in Holding
    BY <1>9, Zenon DEF LookupPeer, Holding
  <2> QED
    BY <1>2, <1>3, <1>9, <2>1, Zenon DEF LookupPeer
<1>10. CASE FlushOne(w)
  <2>1. Sends(w) \/ Fails(w)
    BY <1>1, <1>10 DEF FlushOne, Sends, Fails, Hands
  <2> QED
    BY <2>1 DEF Effect
<1>11. CASE FlushEnd(w)
  <2>1. Counts(w)
    BY <1>11, Zenon DEF FlushEnd, Counts
  <2> QED
    BY <2>1 DEF Effect
<1> QED
  BY <1>4, <1>5, <1>6, <1>7, <1>8, <1>9, <1>10, <1>11 DEF WorkerStep

(* ... and what the readers do: a packet is queued, or it is not.           *)
Accepts(d) ==
  /\ Arrive("queued")
  /\ relayChs' = [relayChs EXCEPT ![relayQueueFor(d)] = Append(@, [n |-> arrived + 1, dest |-> d])]
  /\ UNCHANGED <<local, counters, sent>>

Declines(v) ==
  /\ Arrive(v)
  /\ dropped' = (IF v = "dropped" THEN dropped + 1 ELSE dropped)
  /\ notFound' = (IF v = "notFound" THEN notFound + 1 ELSE notFound)
  /\ UNCHANGED <<relayChs, local, forwarded, sent>>

LEMMA ReaderEffects ==
  ASSUME dispatchRelay \/ CloseCompatWSS
  PROVE  \/ UNCHANGED others
         \/ \E d \in NodeId : Accepts(d)
         \/ \E v \in {"dropped", "notFound", "refused", "lost"} : Declines(v)
<1>1. CASE RelayBreakerOpen
  BY <1>1 DEF RelayBreakerOpen, Declines
<1>2. ASSUME NEW d \in NodeId, RelayNoRoute(d) PROVE Declines("notFound")
  BY <1>2 DEF RelayNoRoute, Declines
<1>3. ASSUME NEW d \in NodeId, RelayRefused(d) PROVE Declines("refused")
  BY <1>3 DEF RelayRefused, Declines, counters
<1>4. ASSUME NEW d \in NodeId, RelayEnqueue(d) PROVE Accepts(d) \/ Declines("dropped")
  BY <1>4 DEF RelayEnqueue, Accepts, Declines, counters
<1>5. CASE CloseCompatWSS
  BY <1>5 DEF CloseCompatWSS, Declines, others, counters
<1> QED
  BY <1>1, <1>2, <1>3, <1>4, <1>5 DEF dispatchRelay

-----------------------------------------------------------------------------
(* The pipeline as a channel.  All that a worker holds, ...                 *)
All(b, j, q) == Nums(b) \cup Held(j) \cup Nums(q)

(* ... which no other worker holds.                                         *)
Apart ==
  \A v, w \in Worker :
    v # w => All(msgs[v], job[v], relayChs[v]) \cap All(msgs[w], job[w], relayChs[w]) = {}

PacketInv == TypeInv /\ (\A w \in Worker : OrderInv(w)) /\ Apart

LEMMA HandsFacts ==
  ASSUME WorkerOK, NEW w \in Worker, NEW b, NEW j, NEW q, Hands(w, b, j, q)
  PROVE  /\ msgs'[w] = b /\ job'[w] = j /\ relayChs'[w] = q
         /\ \A v \in Worker \ {w} : msgs'[v] = msgs[v] /\ job'[v] = job[v] /\ relayChs'[v] = relayChs[v]
  BY DEF WorkerOK, PlaceOK, FieldsOK, Hands

LEMMA AllShrinks ==
  ASSUME NEW b, NEW j, NEW q, NEW b2, NEW j2, NEW q2, Forward(b, j, q, b2, j2, q2)
  PROVE  All(b2, j2, q2) \subseteq All(b, j, q)
  BY DEF Forward, All

LEMMA ApartStep ==
  ASSUME PacketInv, [Next]_vars
  PROVE  Apart'
<1> DEFINE H(w) == All(msgs[w], job[w], relayChs[w])
           K(w) == All(msgs'[w], job'[w], relayChs'[w])
<1>0. /\ TypeInv /\ WorkerOK /\ SharedOK /\ arrived \in Nat
      /\ \A w \in Worker : OrderInv(w)
  BY RelayAssumption DEF PacketInv, TypeInv, SharedOK
<1>a. \A v, w \in Worker : v # w => H(v) \cap H(w) = {}
  BY Zenon DEF PacketInv, Apart
<1>1. SUFFICES \A v, w \in Worker : v # w => K(v) \cap K(w) = {}
  BY Zenon DEF Apart
<1>2. ASSUME \A w \in Worker : K(w) \subseteq H(w) PROVE \A v, w \in Worker : v # w => K(v) \cap K(w) = {}
  <2> HIDE DEF H, K
  <2> QED
    BY <1>a, <1>2
<1>3. ASSUME NEW w \in Worker, WorkerStep(w) PROVE \A v \in Worker : K(v) \subseteq H(v)
  <2>1. K(w) \subseteq H(w)
    BY <1>0, <1>3, OrderStep, AllShrinks, Zenon
  <2>2. ASSUME NEW v \in Worker, v # w PROVE K(v) = H(v)
    BY <1>0, <1>3, <2>2, OtherWorker
  <2> HIDE DEF H, K
  <2> QED
    BY <2>1, <2>2
<1>4. ASSUME UNCHANGED <<msgs, job, relayChs>> PROVE \A v \in Worker : K(v) \subseteq H(v)
  BY <1>4
<1>5. ASSUME NEW w \in Worker, TimerFires(w) PROVE UNCHANGED <<msgs, job, relayChs>>
  BY <1>5 DEF TimerFires
<1>6. CASE dispatchRelay \/ RouteChange \/ CloseCompatWSS \/ Close \/ UNCHANGED vars
  <2>0. msgs' = msgs /\ job' = job
    BY <1>6, RestLocal, Zenon DEF local
  <2>1. CASE UNCHANGED relayChs
    BY <1>2, <1>4, <2>0, <2>1
  <2>2. ASSUME NEW d \in NodeId, NEW e, e = [n |-> arrived + 1, dest |-> d], e \in Job,
               relayChs' = [relayChs EXCEPT ![relayQueueFor(d)] = Append(relayChs[relayQueueFor(d)], e)]
        PROVE  \A v, w \in Worker : v # w => K(v) \cap K(w) = {}
    <3> DEFINE u == relayQueueFor(d)
    <3>1. u \in Worker /\ relayChs \in [Worker -> Seq(Job)]
      BY <1>0, Hash DEF WorkerOK, FieldsOK
    <3>2. \A v \in Worker : arrived + 1 \notin H(v)
      <4> SUFFICES ASSUME NEW v \in Worker PROVE arrived + 1 \notin H(v)
        BY Zenon
      <4>1. \A n \in H(v) : n <= arrived
        BY <1>0, Zenon DEF OrderInv, Ordered, All
      <4>2. ~ arrived + 1 <= arrived
        BY <1>0
      <4> QED
        BY <4>1, <4>2, Zenon
    <3>3. Nums(relayChs'[u]) = Nums(relayChs[u]) \cup {arrived + 1}
      <4>1. relayChs[u] \in Seq(Job) /\ relayChs'[u] = Append(relayChs[u], e) /\ e.n = arrived + 1
        BY <2>2, <3>1
      <4> QED
        BY <2>2, <4>1, NumsAppend
    <3>4. K(u) = H(u) \cup {arrived + 1}
      BY <2>0, <3>3, Zenon DEF All
    <3>5. \A v \in Worker \ {u} : K(v) = H(v)
      BY <2>0, <2>2, <3>1
    <3> HIDE DEF H, K, u
    <3> QED
      BY <1>a, <3>1, <3>2, <3>4, <3>5
  <2> QED
    BY <1>0, <1>6, <2>1, <2>2, RestQueues, Zenon
<1> HIDE DEF H, K
<1> QED
  BY <1>2, <1>3, <1>4, <1>5, <1>6 DEF Next

LEMMA PacketInit == Init => PacketInv
<1> SUFFICES ASSUME Init PROVE PacketInv
  OBVIOUS
<1>1. Nums(<<>>) = {} /\ Held(NoJob) = {}
  BY ONLY EmptyHands, Zenon
<1>2. ASSUME NEW w \in Worker PROVE Ordered(w, <<>>, NoJob, <<>>, 0)
  BY <1>1 DEF Ordered, Sorted, Below, On
<1>3. \A w \in Worker : OrderInv(w)
  BY <1>2 DEF Init, OrderInv
<1>4. Apart
  BY <1>1 DEF Init, Apart, All
<1> QED
  BY <1>3, <1>4, TypeInit DEF PacketInv

LEMMA PacketStep == PacketInv /\ [Next]_vars => PacketInv'
<1> SUFFICES ASSUME PacketInv, [Next]_vars PROVE PacketInv'
  OBVIOUS
<1>1. TypeInv' /\ Apart'
  BY ApartStep, TypeStep DEF PacketInv
<1>2. \A w \in Worker : OrderInv(w)'
  BY OrderNext DEF PacketInv
<1> QED
  BY <1>1, <1>2 DEF PacketInv

-----------------------------------------------------------------------------
(* Types and bounds of the pipeline: a queue never holds more than its      *)
(* capacity and a batch never more than relayBatchCap, and a worker holds a *)
(* job exactly between taking it and disposing of it.                       *)
THEOREM Typing == Spec => []TypeOK
BY TypeInit, TypeStep, TypeImplies, PTL DEF Spec

(* No batch of relayWorkerLoop waits without its flush timer, for any       *)
(* number of workers, destinations and packets.                             *)
THEOREM BatchesAreTimed == Spec => []TimerGuardsBatch
<1> DEFINE Inv == \A w \in Worker : TimerInv(w)
<1>1. Init => Inv
  BY DEF Init, TimerInv
<1>2. TypeInv /\ Inv /\ [Next]_vars => Inv'
  BY TimerNext DEF TypeInv
<1>3. Inv => TimerGuardsBatch
  BY DEF TimerInv, TimerGuardsBatch
<1> QED
  BY <1>1, <1>2, <1>3, TypeInit, TypeStep, PTL DEF Spec

(* A worker holds its packets in the order of arrival: batch, job in hand   *)
(* and queue of relayWorkerLoop, read in this order, are increasing.        *)
THEOREM WorkersKeepOrder == Spec => []PipelineOrdered
<1>1. PacketInv => PipelineOrdered
  BY OrderedInFlight DEF PacketInv, PipelineOrdered, Increasing
<1> QED
  BY <1>1, PacketInit, PacketStep, PTL DEF Spec

-----------------------------------------------------------------------------
(* Accounting.  What a step takes from a worker's hands, ...                *)
LEMMA NumsTail ==
  ASSUME NEW S, NEW s \in Seq(S), s # <<>>
  PROVE  Nums(s) = Nums(Tail(s)) \cup {Head(s).n}
<1> DEFINE t == Tail(s)
<1>1. /\ Head(s) = s[1] /\ 1 \in DOMAIN s
      /\ \A i \in DOMAIN t : i + 1 \in DOMAIN s /\ t[i] = s[i + 1]
      /\ \A i \in DOMAIN s : i = 1 \/ (i - 1 \in DOMAIN t /\ t[i - 1] = s[i])
  BY TailFacts
<1> HIDE DEF t
<1>2. Nums(s) = Nums(t) \cup {s[1].n}
  BY ONLY <1>1 DEF Nums
<1> QED
  BY <1>1, <1>2 DEF t

LEMMA AllTake ==
  ASSUME NEW b, NEW q \in Seq(Job), q # <<>>
  PROVE  All(b, Head(q), Tail(q)) = All(b, NoJob, q)
<1>1. Head(q) \in Job /\ Nums(q) = Nums(Tail(q)) \cup {Head(q).n}
  BY TailFacts, NumsTail
<1>2. Held(NoJob) = {} /\ Held(Head(q)) = {Head(q).n}
  BY <1>1, JobFacts DEF Held
<1> QED
  BY <1>1, <1>2 DEF All

LEMMA AllBatch ==
  ASSUME NEW b \in Seq(Msg), NEW j \in Job, NEW q, NEW e \in Msg, e.n = j.n
  PROVE  All(Append(b, e), NoJob, q) = All(b, j, q)
<1>1. Held(NoJob) = {} /\ Held(j) = {j.n} /\ Nums(Append(b, e)) = Nums(b) \cup {j.n}
  BY NumsAppend, JobFacts DEF Held
<1> QED
  BY <1>1 DEF All

LEMMA AllApart ==
  ASSUME NEW w, NEW b, NEW j, NEW q, NEW a, Ordered(w, b, j, q, a)
  PROVE  /\ \A n \in Held(j) \cup Nums(q) : n \notin Nums(b)
         /\ \A n \in Nums(q) : n \notin Held(j)
<1>1. /\ Below(Nums(b), Held(j) \cup Nums(q)) /\ Below(Held(j), Nums(q))
      /\ \A n \in Nums(b) \cup Held(j) \cup Nums(q) : n \in Nat
  BY Zenon DEF Ordered
<1> QED
  BY ONLY <1>1 DEF Below

(* Disposing of the job in hand takes its packet, a panic also the batch.   *)
TakesJob(b, j, q) ==
  /\ j.n \in All(b, j, q) /\ All(b, NoJob, q) = All(b, j, q) \ {j.n}
  /\ Nums(b) \cup {j.n} \subseteq All(b, j, q)
  /\ All(<<>>, NoJob, q) = All(b, j, q) \ (Nums(b) \cup {j.n})

LEMMA AllDrop ==
  ASSUME NEW w, NEW b, NEW j \in Job, NEW q, NEW a, Ordered(w, b, j, q, a)
  PROVE  TakesJob(b, j, q)
<1>1. Held(NoJob) = {} /\ Nums(<<>>) = {} /\ Held(j) = {j.n}
  BY JobFacts DEF Held, Nums
<1>2. /\ \A n \in Held(j) \cup Nums(q) : n \notin Nums(b)
      /\ \A n \in Nums(q) : n \notin Held(j)
  BY AllApart, Zenon
<1> QED
  BY ONLY <1>1, <1>2 DEF All, TakesJob

(* Sending the head of the batch takes its packet.                          *)
TakesHead(b, j, q) ==
  Head(b).n \in All(b, j, q) /\ All(Tail(b), j, q) = All(b, j, q) \ {Head(b).n}

LEMMA AllFlush ==
  ASSUME NEW w, NEW b \in Seq(Msg), b # <<>>, NEW j, NEW q, NEW a, Ordered(w, b, j, q, a)
  PROVE  TakesHead(b, j, q)
<1>1. Nums(b) = Nums(Tail(b)) \cup {Head(b).n}
  BY NumsTail
<1>2. Head(b).n \notin Nums(Tail(b))
  <2>1. Sorted(b) /\ \A n \in Nums(b) : n \in Nat
    BY Zenon DEF Ordered
  <2>2. Below({Head(b).n}, Nums(Tail(b)))
    BY <2>1, TailOrder, Zenon
  <2> QED
    BY ONLY <1>1, <2>1, <2>2 DEF Below
<1>3. \A n \in Held(j) \cup Nums(q) : n \notin Nums(b)
  BY AllApart, Zenon
<1> QED
  BY ONLY <1>1, <1>2, <1>3 DEF All, TakesHead

(* ... it takes from all the hands together.                                *)
Hold == UNION {All(msgs[w], job[w], relayChs[w]) : w \in Worker}

LEMMA HoldSame ==
  ASSUME PacketInv, NEW w \in Worker, NEW b, NEW j, NEW q, Hands(w, b, j, q),
         All(b, j, q) = All(msgs[w], job[w], relayChs[w])
  PROVE  Hold' = Hold
<1> DEFINE H(v) == All(msgs[v], job[v], relayChs[v])
           K(v) == All(msgs'[v], job'[v], relayChs'[v])
<1>1. \A v \in Worker : K(v) = H(v)
  BY HandsFacts, Zenon DEF PacketInv, TypeInv
<1>2. Hold = UNION {H(v) : v \in Worker} /\ Hold' = UNION {K(v) : v \in Worker}
  BY Zenon DEF Hold
<1> HIDE DEF H, K
<1> QED
  BY ONLY <1>1, <1>2

Yields(w, b, j, q, lost) ==
  /\ Hands(w, b, j, q)
  /\ lost \subseteq All(msgs[w], job[w], relayChs[w])
  /\ All(b, j, q) = All(msgs[w], job[w], relayChs[w]) \ lost

LEMMA HoldMoves ==
  ASSUME PacketInv, NEW w \in Worker, NEW b, NEW j, NEW q, NEW lost, Yields(w, b, j, q, lost)
  PROVE  Hold' = Hold \ lost /\ lost \subseteq Hold
<1> DEFINE H(v) == All(msgs[v], job[v], relayChs[v])
           K(v) == All(msgs'[v], job'[v], relayChs'[v])
<1>a. WorkerOK /\ Hands(w, b, j, q)
  BY Zenon DEF PacketInv, TypeInv, Yields
<1>1. \A v \in Worker : v # w => K(v) = H(v) /\ H(v) \cap H(w) = {}
  <2>1. \A v \in Worker \ {w} : msgs'[v] = msgs[v] /\ job'[v] = job[v] /\ relayChs'[v] = relayChs[v]
    BY <1>a, HandsFacts, Zenon
  <2>2. \A v \in Worker : v # w => K(v) = H(v)
    BY <2>1, Zenon
  <2> QED
    BY <2>2, Zenon DEF PacketInv, Apart
<1>2. K(w) = H(w) \ lost
  <2>1. msgs'[w] = b /\ job'[w] = j /\ relayChs'[w] = q
    BY ONLY <1>a, w \in Worker, HandsFacts
  <2> QED
    BY <2>1, Zenon DEF Yields
<1>3. Hold = UNION {H(v) : v \in Worker} /\ Hold' = UNION {K(v) : v \in Worker} /\ lost \subseteq H(w)
  BY Zenon DEF Hold, Yields
<1> HIDE DEF H, K
<1> QED
  BY ONLY w \in Worker, <1>1, <1>2, <1>3

(* The packets that have not arrived have no fate, and the queued ones are  *)
(* those in the workers' hands.                                             *)
Custody ==
  /\ \A n \in Packet : fate[n] = "new" <=> n > arrived
  /\ FateIs("queued") = Hold

Counted == {"sent", "dropped", "notFound"}

Same(g) == FateIs(g)' = FateIs(g)

Joins(n, g) == n \in Packet /\ n \notin FateIs(g) /\ FateIs(g)' = FateIs(g) \cup {n}

LEMMA FateMoves ==
  ASSUME SharedOK, NEW n \in Packet, NEW f, fate' = [fate EXCEPT ![n] = f], fate[n] # f
  PROVE  /\ Joins(n, f)
         /\ \A g : g # f => FateIs(g)' = FateIs(g) \ {n}
         /\ \A m \in Packet : fate'[m] = IF m = n THEN f ELSE fate[m]
<1>1. \A m \in Packet : fate'[m] = IF m = n THEN f ELSE fate[m]
  BY DEF SharedOK
<1>2. Joins(n, f)
  BY <1>1 DEF Joins, FateIs
<1>3. ASSUME NEW g, g # f PROVE FateIs(g)' = FateIs(g) \ {n}
  BY <1>1, <1>3 DEF FateIs
<1> QED
  BY <1>1, <1>2, <1>3

Verdicts == {"sent", "failed", "notFound"}

LEMMA Settles ==
  ASSUME PacketInv, Custody, arrived' = arrived, NEW w \in Worker, NEW b, NEW j, NEW q,
         NEW n, Yields(w, b, j, q, {n}), NEW f \in Verdicts, fate' = [fate EXCEPT ![n] = f]
  PROVE  Custody' /\ Joins(n, f) /\ \A g \in Counted \ {f} : Same(g)
<1>a. Hold' = Hold \ {n} /\ {n} \subseteq Hold
  BY HoldMoves
<1>0. Hold' = Hold \ {n} /\ n \in Hold
  BY ONLY <1>a, Zenon
<1>1. n \in Packet /\ fate[n] = "queued" /\ fate[n] # f /\ f # "queued" /\ f # "new" /\ SharedOK
  BY <1>0 DEF Custody, FateIs, PacketInv, TypeInv, Verdicts
<1>2. /\ Joins(n, f)
      /\ \A g : g # f => FateIs(g)' = FateIs(g) \ {n}
      /\ \A m \in Packet : fate'[m] = IF m = n THEN f ELSE fate[m]
  BY <1>1, FateMoves, Zenon
<1>3. \A g \in Counted \ {f} : n \notin FateIs(g)
  BY ONLY <1>1, Zenon DEF Counted, FateIs
<1>4. FateIs("queued")' = Hold'
  BY <1>0, <1>1, <1>2 DEF Custody
<1>5. \A m \in Packet : fate'[m] = "new" <=> m > arrived'
  BY <1>1, <1>2, Zenon DEF Custody
<1>6. Custody'
  BY <1>4, <1>5 DEF Custody
<1>7. \A g \in Counted \ {f} : Same(g)
  BY <1>2, <1>3, Zenon DEF Same
<1> QED
  BY <1>2, <1>6, <1>7

LEMMA CustodyArrives ==
  ASSUME PacketInv, Custody, NEW v \in {"queued", "dropped", "notFound", "refused", "lost"}, Arrive(v),
         Hold' = IF v = "queued" THEN Hold \cup {arrived + 1} ELSE Hold
  PROVE  Custody' /\ Joins(arrived + 1, v) /\ \A g \in Counted \ {v} : Same(g)
<1> DEFINE n == arrived + 1
<1>0. /\ SharedOK /\ arrived \in Nat /\ arrived' = arrived + 1 /\ n \in Packet /\ Packet \subseteq Nat
      /\ fate' = [fate EXCEPT ![n] = v]
  <2>1. SharedOK /\ arrived \in Nat /\ Packet \subseteq Nat
    BY RelayAssumption DEF PacketInv, TypeInv, SharedOK, Packet
  <2>2. v \in Fate
    BY DEF Fate
  <2> QED
    BY <2>1, <2>2, Arrival, Zenon DEF Arrive
<1>1. fate[n] = "new" /\ fate[n] # v
  BY <1>0 DEF Custody
<1> HIDE DEF n
<1>2. /\ Joins(n, v)
      /\ \A g : g # v => FateIs(g)' = FateIs(g) \ {n}
      /\ \A m \in Packet : fate'[m] = IF m = n THEN v ELSE fate[m]
  BY <1>0, <1>1, FateMoves, Zenon
<1>3. \A g : g # "new" => n \notin FateIs(g)
  BY <1>1 DEF FateIs
<1>4. \A g : g # v /\ g # "new" => Same(g)
  BY <1>2, <1>3 DEF Same
<1>5. FateIs("queued")' = Hold'
  <2>1. CASE v = "queued"
    BY <1>2, <2>1 DEF Joins, Custody, n
  <2>2. CASE v # "queued"
    BY <1>4, <2>2 DEF Same, Custody
  <2> QED
    BY <2>1, <2>2
<1>6. ASSUME NEW m \in Packet PROVE fate'[m] = "new" <=> m > arrived'
  <2>1. m > arrived' <=> m > arrived /\ m # n
    BY <1>0 DEF n
  <2> QED
    BY <1>2, <2>1 DEF Custody
<1>7. Custody'
  BY <1>5, <1>6 DEF Custody
<1> QED
  BY <1>2, <1>4, <1>7 DEF Counted, n

(* What a step writes in the books: it counts nothing, a flush is counted,  *)
(* a packet leaves over WSS or in a flush, or is not found or dropped.      *)
Books ==
  \/ /\ \A g \in Counted : Same(g)
     /\ UNCHANGED <<sent, counters, flushing>>
  \/ \E w \in Worker : Counts(w)
  \/ \E n \in Packet, d \in NodeId :
       /\ Joins(n, "sent") /\ Same("dropped") /\ Same("notFound")
       /\ Departs(n, d, "wss")
       /\ forwarded' = forwarded + 1 /\ UNCHANGED <<dropped, notFound, flushing>>
  \/ \E w \in Worker, n \in Packet, d \in NodeId :
       /\ Joins(n, "sent") /\ Same("dropped") /\ Same("notFound")
       /\ Departs(n, d, "udp")
       /\ flushed' = [flushed EXCEPT ![w] = @ + 1]
       /\ written' = [written EXCEPT ![w] = @ \cup {n}]
       /\ UNCHANGED counters
  \/ \E n \in Packet :
       /\ Joins(n, "notFound") /\ Same("sent") /\ Same("dropped")
       /\ notFound' = notFound + 1 /\ UNCHANGED <<forwarded, dropped, sent, flushing>>
  \/ \E n \in Packet :
       /\ Joins(n, "dropped") /\ Same("sent") /\ Same("notFound")
       /\ dropped' = dropped + 1 /\ UNCHANGED <<forwarded, notFound, sent, flushing>>

LEMMA WorkerBooks ==
  ASSUME PacketInv, Custody, arrived' = arrived, NEW w \in Worker, Effect(w)
  PROVE  Custody' /\ Books
<1> DEFINE b == msgs[w]
           j == job[w]
           q == relayChs[w]
           H == All(b, j, q)
<1>0. /\ b \in Seq(Msg) /\ q \in Seq(Job) /\ j \in Job \cup {NoJob} /\ Ordered(w, b, j, q, arrived)
  BY WorkerTypes, Zenon DEF PacketInv, TypeInv, OrderInv
<1>1. j \in Job => /\ j.n \in H /\ All(b, NoJob, q) = H \ {j.n}
                  /\ Nums(b) \cup {j.n} \subseteq H /\ All(<<>>, NoJob, q) = H \ (Nums(b) \cup {j.n})
  <2>1. j \in Job => TakesJob(b, j, q)
    BY ONLY <1>0, AllDrop, Zenon
  <2> QED
    BY ONLY <2>1, Zenon DEF TakesJob
<1>b. b # <<>> => Head(b).n \in H /\ All(Tail(b), j, q) = H \ {Head(b).n}
  <2>1. b # <<>> => TakesHead(b, j, q)
    BY ONLY <1>0, AllFlush, Zenon
  <2> QED
    BY ONLY <2>1, Zenon DEF TakesHead
<1>2. Counted \ {"sent"} = {"dropped", "notFound"} /\ Counted \ {"notFound"} = {"sent", "dropped"}
      /\ Counted \ {"failed"} = Counted
  BY DEF Counted
<1>a. "sent" \in Verdicts /\ "failed" \in Verdicts /\ "notFound" \in Verdicts
  BY DEF Verdicts
<1>3. ASSUME fate' = fate, Hold' = Hold PROVE Custody' /\ \A g \in Counted : Same(g)
  BY <1>3 DEF Custody, Same, FateIs
<1>4. ASSUME NEW c, NEW i, NEW r, Hands(w, c, i, r), All(c, i, r) = H PROVE Hold' = Hold
  BY <1>4, HoldSame, Zenon
<1>5. CASE Keeps
  <2>1. Hold' = Hold /\ fate' = fate /\ UNCHANGED <<sent, counters, flushing>>
    BY <1>5 DEF Keeps, Hold
  <2> QED
    BY <1>3, <2>1, Zenon DEF Books
<1>6. CASE Counts(w)
  <2>1. Hold' = Hold /\ fate' = fate
    BY <1>6, Zenon DEF Counts, Hold
  <2> QED
    BY <1>3, <1>6, <2>1, Zenon DEF Books
<1>7. CASE Takes(w)
  <2>1. /\ Hands(w, b, Head(q), Tail(q)) /\ All(b, Head(q), Tail(q)) = H
        /\ fate' = fate /\ UNCHANGED <<sent, counters, flushing>>
    BY <1>0, <1>7, AllTake, Zenon DEF Takes
  <2>2. Hold' = Hold
    BY <1>4, <2>1, Zenon
  <2> QED
    BY <1>3, <2>1, <2>2, Zenon DEF Books
<1>8. ASSUME NEW e \in Msg, Batches(w, e) PROVE Custody' /\ Books
  <2>1. /\ Hands(w, Append(b, e), NoJob, q) /\ All(Append(b, e), NoJob, q) = H
        /\ fate' = fate /\ UNCHANGED <<sent, counters, flushing>>
    BY <1>0, <1>8, AllBatch, Zenon DEF Batches
  <2>2. Hold' = Hold
    BY <1>4, <2>1, Zenon
  <2> QED
    BY <1>3, <2>1, <2>2, Zenon DEF Books
<1>9. j \in Job => j.n \in Packet /\ j.dest \in NodeId
  BY ONLY JobFacts
<1>10. b # <<>> => Head(b).n \in Packet /\ Head(b).dest \in NodeId
  BY <1>0, TailFacts, MsgTypes, Zenon
<1>11. CASE Writes(w)
  <2>1. /\ j \in Job /\ Hands(w, b, NoJob, q) /\ fate' = [fate EXCEPT ![j.n] = "sent"]
        /\ Departs(j.n, j.dest, "wss") /\ forwarded' = forwarded + 1 /\ UNCHANGED <<dropped, notFound, flushing>>
    BY <1>11, Zenon DEF Writes
  <2>a. Yields(w, b, NoJob, q, {j.n})
    BY <1>1, <2>1, Zenon DEF Yields
  <2>2. Custody' /\ Joins(j.n, "sent") /\ \A g \in Counted \ {"sent"} : Same(g)
    BY <1>a, <2>1, <2>a, Settles, Zenon
  <2> QED
    BY <1>2, <1>9, <2>1, <2>2, Zenon DEF Books
<1>12. CASE Misses(w)
  <2>1. /\ j \in Job /\ Hands(w, b, NoJob, q) /\ fate' = [fate EXCEPT ![j.n] = "notFound"]
        /\ notFound' = notFound + 1 /\ UNCHANGED <<forwarded, dropped, sent, flushing>>
    BY <1>12, Zenon DEF Misses
  <2>a. Yields(w, b, NoJob, q, {j.n})
    BY <1>1, <2>1, Zenon DEF Yields
  <2>2. Custody' /\ Joins(j.n, "notFound") /\ \A g \in Counted \ {"notFound"} : Same(g)
    <3>1. "notFound" \in Verdicts /\ fate' = [fate EXCEPT ![j.n] = "notFound"]
      BY <1>a, <2>1, Zenon
    <3> QED
      BY <2>a, <3>1, Settles, Zenon
  <2> QED
    BY <1>2, <1>9, <2>1, <2>2, Zenon DEF Books
<1>13. CASE Panics(w)
  <2> DEFINE lost == Nums(b) \cup {j.n}
  <2>1. /\ j \in Job /\ Hands(w, <<>>, NoJob, q) /\ UNCHANGED <<sent, counters, flushing>>
        /\ fate' = [n \in Packet |-> IF n \in lost THEN "lost" ELSE fate[n]]
    BY ONLY <1>13, Zenon DEF Panics
  <2>2. Yields(w, <<>>, NoJob, q, lost)
    BY <1>1, <2>1, Zenon DEF Yields
  <2> HIDE DEF lost
  <2>3. Hold' = Hold \ lost /\ lost \subseteq Hold
    BY <2>2, HoldMoves, Zenon
  <2>4. \A n \in lost : fate[n] = "queued"
    BY <2>3 DEF Custody, FateIs
  <2>5. \A n \in Packet : fate'[n] = IF n \in lost THEN "lost" ELSE fate[n]
    BY <2>1, Zenon
  <2>6. \A g \in Counted : Same(g)
    BY <2>4, <2>5 DEF Counted, Same, FateIs
  <2>7. FateIs("queued")' = FateIs("queued") \ lost
    BY <2>5 DEF FateIs
  <2>8. \A n \in Packet : fate'[n] = "new" <=> n > arrived'
    BY <2>4, <2>5 DEF Custody
  <2>9. Custody'
    BY <2>3, <2>7, <2>8 DEF Custody
  <2> QED
    BY <2>1, <2>6, <2>9, Zenon DEF Books
<1>14. CASE Sends(w)
  <2> DEFINE h == Head(b)
  <2>1. /\ b # <<>> /\ Hands(w, Tail(b), j, q) /\ fate' = [fate EXCEPT ![h.n] = "sent"]
        /\ Departs(h.n, h.dest, "udp") /\ UNCHANGED counters
        /\ flushed' = [flushed EXCEPT ![w] = @ + 1] /\ written' = [written EXCEPT ![w] = @ \cup {h.n}]
    BY <1>14, Zenon DEF Sends, Sent, Departs
  <2>a. Yields(w, Tail(b), j, q, {h.n})
    BY <1>b, <2>1, Zenon DEF Yields
  <2>2. Custody' /\ Joins(h.n, "sent") /\ \A g \in Counted \ {"sent"} : Same(g)
    BY <1>a, <2>1, <2>a, Settles, Zenon
  <2>3. h.n \in Packet /\ h.dest \in NodeId
    BY ONLY <1>10, <2>1, Zenon
  <2> HIDE DEF h
  <2> QED
    BY <1>2, <2>1, <2>2, <2>3, Zenon DEF Books
<1>15. CASE Fails(w)
  <2>1. /\ b # <<>> /\ Hands(w, Tail(b), j, q) /\ fate' = [fate EXCEPT ![Head(b).n] = "failed"]
        /\ UNCHANGED <<sent, counters, flushing>>
    BY ONLY <1>15, Zenon DEF Fails
  <2>a. Yields(w, Tail(b), j, q, {Head(b).n})
    BY <1>b, <2>1, Zenon DEF Yields
  <2>2. Custody' /\ \A g \in Counted \ {"failed"} : Same(g)
    BY <1>a, <2>1, <2>a, Settles, Zenon
  <2> QED
    BY <1>2, <2>1, <2>2, Zenon DEF Books
<1> QED
  BY <1>5, <1>6, <1>7, <1>8, <1>11, <1>12, <1>13, <1>14, <1>15 DEF Effect

LEMMA AcceptHold ==
  ASSUME PacketInv, NEW d \in NodeId, Accepts(d)
  PROVE  Hold' = Hold \cup {arrived + 1}
<1> DEFINE H(w) == All(msgs[w], job[w], relayChs[w])
           K(w) == All(msgs'[w], job'[w], relayChs'[w])
           e == [n |-> arrived + 1, dest |-> d]
           u == relayQueueFor(d)
<1>1. u \in Worker /\ relayChs \in [Worker -> Seq(Job)] /\ SharedOK
  BY Hash DEF PacketInv, TypeInv, WorkerOK, FieldsOK
<1>2. arrived + 1 \in Packet
  BY <1>1, Arrival DEF Accepts, Fate
<1>3. e \in Job /\ e.n = arrived + 1
  BY <1>2 DEF Job
<1>4. /\ relayChs' = [relayChs EXCEPT ![u] = Append(relayChs[u], e)]
      /\ msgs' = msgs /\ job' = job
  BY DEF Accepts, local
<1> HIDE DEF e, u
<1>5. relayChs[u] \in Seq(Job) /\ relayChs'[u] = Append(relayChs[u], e)
  BY <1>1, <1>4
<1>6. Nums(relayChs'[u]) = Nums(relayChs[u]) \cup {arrived + 1}
  BY <1>3, <1>5, NumsAppend
<1>7. K(u) = H(u) \cup {arrived + 1}
  BY ONLY <1>4, <1>6, Zenon DEF All
<1>8. \A v \in Worker \ {u} : K(v) = H(v)
  BY ONLY <1>1, <1>4, Zenon
<1>9. Hold = UNION {H(v) : v \in Worker} /\ Hold' = UNION {K(v) : v \in Worker}
  BY Zenon DEF Hold
<1> HIDE DEF H, K
<1> QED
  BY <1>1, <1>7, <1>8, <1>9

LEMMA ReaderBooks ==
  ASSUME PacketInv, Custody, dispatchRelay \/ CloseCompatWSS
  PROVE  Custody' /\ Books
<1>1. CASE UNCHANGED others
  BY <1>1, Zenon DEF others, local, Custody, Hold, FateIs, Books, Same
<1>2. Counted \ {"queued"} = Counted /\ Counted \ {"refused"} = Counted /\ Counted \ {"lost"} = Counted
      /\ Counted \ {"dropped"} = {"sent", "notFound"} /\ Counted \ {"notFound"} = {"sent", "dropped"}
  BY DEF Counted
<1>3. ASSUME NEW d \in NodeId, Accepts(d) PROVE Custody' /\ Books
  <2>1. Arrive("queued") /\ UNCHANGED <<sent, counters, flushing>>
    BY <1>3 DEF Accepts, local
  <2>2. Hold' = Hold \cup {arrived + 1}
    BY <1>3, AcceptHold
  <2>3. Custody' /\ \A g \in Counted \ {"queued"} : Same(g)
    BY <2>1, <2>2, CustodyArrives
  <2> QED
    BY <1>2, <2>1, <2>3, Zenon DEF Books
<1>4. ASSUME NEW v \in {"dropped", "notFound", "refused", "lost"}, Declines(v) PROVE Custody' /\ Books
  <2>1. /\ Arrive(v) /\ v # "queued" /\ UNCHANGED <<forwarded, sent, flushing>>
        /\ dropped' = (IF v = "dropped" THEN dropped + 1 ELSE dropped)
        /\ notFound' = (IF v = "notFound" THEN notFound + 1 ELSE notFound)
    BY ONLY <1>4, Zenon DEF Declines, local
  <2>2. Hold' = Hold
    BY <1>4 DEF Declines, local, Hold
  <2>3. Custody' /\ Joins(arrived + 1, v) /\ \A g \in Counted \ {v} : Same(g)
    BY <2>1, <2>2, CustodyArrives
  <2>4. arrived + 1 \in Packet
    BY ONLY <2>3, Zenon DEF Joins
  <2>5. CASE v = "dropped"
    BY ONLY <1>2, <2>1, <2>3, <2>4, <2>5, Zenon DEF Books
  <2>6. CASE v = "notFound"
    BY ONLY <1>2, <2>1, <2>3, <2>4, <2>6, Zenon DEF Books
  <2>7. CASE v \in {"refused", "lost"}
    BY <1>2, <2>1, <2>3, <2>7 DEF Books, counters
  <2> QED
    BY <2>3, <2>5, <2>6, <2>7
<1> QED
  BY <1>1, <1>3, <1>4, ReaderEffects

LEMMA BooksStep == PacketInv /\ Custody /\ [Next]_vars => Custody' /\ Books
<1> SUFFICES ASSUME PacketInv, Custody, [Next]_vars PROVE Custody' /\ Books
  OBVIOUS
<1>1. ASSUME NEW w \in Worker, WorkerStep(w) PROVE Custody' /\ Books
  BY <1>1, Effects, WorkerArrived, WorkerBooks DEF PacketInv
<1>2. ASSUME UNCHANGED <<arrived, relayChs, job, msgs, flushing, counters, fate, sent>>
      PROVE  Custody' /\ Books
  <2>1. Hold' = Hold /\ fate' = fate /\ arrived' = arrived
    BY <1>2 DEF Hold
  <2> QED
    BY <1>2, <2>1, Zenon DEF Custody, FateIs, Books, Same
<1>3. ASSUME NEW w \in Worker, TimerFires(w) PROVE Custody' /\ Books
  BY ONLY <1>2, <1>3, Zenon DEF TimerFires
<1>4. CASE RouteChange \/ Close \/ UNCHANGED vars
  BY ONLY <1>2, <1>4, Zenon DEF RouteChange, Close, others, vars, local
<1> QED
  BY <1>1, <1>3, <1>4, ReaderBooks DEF Next

LEMMA CustodyInit == Init => Custody
<1> SUFFICES ASSUME Init PROVE Custody
  OBVIOUS
<1>1. \A n \in Packet : fate[n] = "new" /\ n > arrived
  <2>1. arrived = 0 /\ fate = [n \in Packet |-> "new"]
    BY Zenon DEF Init
  <2>2. \A n \in Packet : n > 0
    BY ONLY RelayAssumption DEF Packet
  <2> QED
    BY ONLY <2>1, <2>2
<1>2. \A w \in Worker : All(msgs[w], job[w], relayChs[w]) = {}
  BY EmptyHands, Zenon DEF Init, All
<1> QED
  BY <1>1, <1>2 DEF Custody, FateIs, Hold

(* A packet whose fate is to be sent left once, to one destination.         *)
Departed ==
  /\ FateIs("sent") = {n \in Packet : Left(n)}
  /\ \A d, e \in NodeId : \A k \in DOMAIN sent[d], l \in DOMAIN sent[e] :
       sent[d][k].n = sent[e][l].n => d = e /\ k = l

LEMMA Departure ==
  ASSUME SharedOK, Departed, NEW n, NEW d \in NodeId, NEW v \in {"udp", "wss"},
         Departs(n, d, v), Joins(n, "sent")
  PROVE  Departed'
<1> DEFINE e == [n |-> n, via |-> v]
           k1 == Len(sent[d]) + 1
<1>0. n \in Packet /\ n \notin FateIs("sent") /\ FateIs("sent")' = FateIs("sent") \cup {n}
  BY Zenon DEF Joins
<1>1. e \in Entry /\ e.n = n
  BY <1>0 DEF Entry
<1>2. /\ sent \in [NodeId -> Seq(Entry)] /\ sent' = [sent EXCEPT ![d] = Append(sent[d], e)]
  BY DEF SharedOK, Departs
<1> HIDE DEF e
<1>3. /\ \A c \in NodeId \ {d} : sent'[c] = sent[c]
      /\ DOMAIN sent'[d] = DOMAIN sent[d] \cup {k1} /\ k1 \notin DOMAIN sent[d]
      /\ \A k \in DOMAIN sent[d] : sent'[d][k] = sent[d][k]
      /\ sent'[d][k1].n = n
  <2> DEFINE s == sent[d]
             t == sent'[d]
  <2>1. s \in Seq(Entry) /\ t = Append(s, e) /\ \A c \in NodeId \ {d} : sent'[c] = sent[c]
    BY ONLY <1>2, Zenon
  <2> HIDE DEF s, t
  <2>2. /\ DOMAIN t = DOMAIN s \cup {Len(s) + 1} /\ Len(s) + 1 \notin DOMAIN s
        /\ \A k \in DOMAIN s : t[k] = s[k]
        /\ t[Len(s) + 1] = e
    BY ONLY <1>1, <2>1, AppendFacts
  <2> QED
    BY <1>1, <2>1, <2>2, Zenon DEF s, t
<1> HIDE DEF k1
<1>4. \A c \in NodeId : \A k \in DOMAIN sent[c] : sent[c][k].n # n
  BY <1>0, Zenon DEF Departed, Left
<1>a. \A c \in NodeId : \A i \in DOMAIN sent'[c] :
        \/ c = d /\ i = k1 /\ sent'[c][i].n = n
        \/ i \in DOMAIN sent[c] /\ sent'[c][i] = sent[c][i]
  BY ONLY <1>3, Zenon
<1>b. \A c \in NodeId : \A i \in DOMAIN sent[c] : i \in DOMAIN sent'[c] /\ sent'[c][i] = sent[c][i]
  BY ONLY <1>3, Zenon
<1>5. ASSUME NEW m PROVE Left(m)' <=> Left(m) \/ m = n
  <2>1. Left(m)' => Left(m) \/ m = n
    BY ONLY <1>a, Zenon DEF Left
  <2>2. Left(m) => Left(m)'
    BY ONLY <1>b, Zenon DEF Left
  <2>3. k1 \in DOMAIN sent'[d] /\ sent'[d][k1].n = n
    BY ONLY <1>3, Zenon
  <2>4. Left(n)'
    BY ONLY <2>3, Zenon DEF Left
  <2> QED
    BY ONLY <2>1, <2>2, <2>4, Zenon
<1>6. FateIs("sent")' = {m \in Packet : Left(m)'}
  BY <1>0, <1>5, Zenon DEF Departed
<1>7. ASSUME NEW a \in NodeId, NEW b \in NodeId, NEW k \in DOMAIN sent'[a], NEW l \in DOMAIN sent'[b],
             sent'[a][k].n = sent'[b][l].n
      PROVE  a = b /\ k = l
  <2>2. \A c \in NodeId : \A i \in DOMAIN sent'[c] :
          IF sent'[c][i].n = n THEN c = d /\ i = k1
                               ELSE i \in DOMAIN sent[c] /\ sent'[c][i].n = sent[c][i].n
    BY ONLY <1>4, <1>a, Zenon
  <2>3. CASE sent'[a][k].n = n
    BY ONLY <1>7, <2>2, <2>3, Zenon
  <2>4. CASE sent'[a][k].n # n
    <3>1. k \in DOMAIN sent[a] /\ l \in DOMAIN sent[b] /\ sent[a][k].n = sent[b][l].n
      BY ONLY <1>7, <2>2, <2>4, Zenon
    <3>2. \A c, o \in NodeId : \A i \in DOMAIN sent[c], h \in DOMAIN sent[o] :
            sent[c][i].n = sent[o][h].n => c = o /\ i = h
      BY Zenon DEF Departed
    <3> QED
      BY ONLY <1>7, <3>1, <3>2
  <2> QED
    BY ONLY <2>3, <2>4, Zenon
<1> QED
  BY <1>6, <1>7, Zenon DEF Departed

LEMMA DepartedStep == PacketInv /\ Departed /\ Books => Departed'
<1> SUFFICES ASSUME PacketInv, Departed, Books PROVE Departed'
  OBVIOUS
<1>1. SharedOK
  BY Zenon DEF PacketInv, TypeInv
<1>2. ASSUME Same("sent"), sent' = sent PROVE Departed'
  BY <1>2 DEF Same, Departed, Left
<1>3. ASSUME NEW w \in Worker, Counts(w) PROVE Departed'
  BY <1>2, <1>3, Zenon DEF Counts, Same, FateIs
<1>4. ASSUME NEW n, NEW d \in NodeId, NEW v \in {"udp", "wss"}, Departs(n, d, v), Joins(n, "sent")
      PROVE  Departed'
  BY <1>1, <1>4, Departure
<1>5. "sent" \in Counted
  BY Zenon DEF Counted
<1> QED
  BY <1>2, <1>3, <1>4, <1>5 DEF Books

LEMMA InFlightAll ==
  ASSUME PacketInv, NEW w \in Worker
  PROVE  Range(InFlight(w)) = All(msgs[w], job[w], relayChs[w])
<1> DEFINE A == Numbers(msgs[w])
           B == IF job[w] = NoJob THEN <<>> ELSE <<job[w].n>>
           C == Numbers(relayChs[w])
<1>0. /\ msgs[w] \in Seq(Msg) /\ relayChs[w] \in Seq(Job) /\ job[w] \in Job \cup {NoJob}
      /\ Ordered(w, msgs[w], job[w], relayChs[w], arrived)
  BY WorkerTypes, Zenon DEF PacketInv, TypeInv, OrderInv
<1>1. A \in Seq(Nat) /\ Range(A) = Nums(msgs[w])
  <2>1. Sorted(msgs[w]) /\ \A n \in Nums(msgs[w]) : n \in Nat
    BY <1>0, Zenon DEF Ordered
  <2>2. A \in Seq(Nat)
    BY <1>0, <2>1, NumbersFacts, Zenon
  <2> QED
    BY <2>2 DEF Numbers, Nums, Range
<1>2. C \in Seq(Nat) /\ Range(C) = Nums(relayChs[w])
  <2>1. Sorted(relayChs[w]) /\ \A n \in Nums(relayChs[w]) : n \in Nat
    BY <1>0, Zenon DEF Ordered
  <2>2. C \in Seq(Nat)
    BY <1>0, <2>1, NumbersFacts, Zenon
  <2> QED
    BY <2>2 DEF Numbers, Nums, Range
<1>3. B \in Seq(Nat) /\ Range(B) = Held(job[w])
  <2>1. CASE job[w] = NoJob
    <3>1. Held(job[w]) = {} /\ B = <<>>
      BY <2>1, Zenon DEF Held
    <3> QED
      BY ONLY <3>1, ShortRanges, Zenon
  <2>2. CASE job[w] # NoJob
    <3>1. job[w].n \in Nat /\ Held(job[w]) = {job[w].n} /\ B = <<job[w].n>>
      BY <1>0, <2>2, JobFacts, Zenon DEF Held
    <3> QED
      BY ONLY <3>1, ShortRanges, Zenon
  <2> QED
    BY <2>1, <2>2
<1>4. InFlight(w) = (A \o B) \o C
  BY Zenon DEF InFlight
<1> HIDE DEF A, B, C
<1>5. A \o B \in Seq(Nat) /\ Range(A \o B) = Range(A) \cup Range(B)
  BY <1>1, <1>3, ConcatRange
<1>6. Range((A \o B) \o C) = Range(A \o B) \cup Range(C)
  <2> DEFINE D == A \o B
  <2>1. D \in Seq(Nat)
    BY <1>5
  <2> HIDE DEF D
  <2>2. Range(D \o C) = Range(D) \cup Range(C)
    BY <1>2, <2>1, ConcatRange
  <2> QED
    BY <2>2 DEF D
<1> QED
  BY <1>1, <1>2, <1>3, <1>4, <1>5, <1>6, Zenon DEF All

-----------------------------------------------------------------------------
(* The counters, from these facts about the sizes of sets of packets.       *)
CountingLaws ==
  /\ Cardinality({}) = 0
  /\ \A S \in SUBSET Packet :
       /\ Cardinality(S) \in Nat
       /\ \A n : n \notin S => Cardinality(S \cup {n}) = Cardinality(S) + 1
       /\ \A T \in SUBSET Packet :
            S \cap T = {} => Cardinality(S \cup T) = Cardinality(S) + Cardinality(T)

(* What flushes in progress have sent and not yet added to relayForwarded.  *)
Uncounted == UNION {written[w] : w \in Worker}

Tallied ==
  /\ forwarded = Cardinality(FateIs("sent") \ Uncounted)
  /\ dropped = Cardinality(FateIs("dropped"))
  /\ notFound = Cardinality(FateIs("notFound"))
  /\ \A w \in Worker : flushed[w] = Cardinality(written[w]) /\ written[w] \subseteq FateIs("sent")
  /\ \A v, w \in Worker : v # w => written[v] \cap written[w] = {}

LEMMA TallyCounts ==
  ASSUME CountingLaws, TypeInv, Tallied, NEW w \in Worker, Counts(w)
  PROVE  Tallied'
<1> DEFINE S == FateIs("sent")
<1>1. /\ written \in [Worker -> SUBSET Packet] /\ flushed \in [Worker -> Nat]
      /\ S \subseteq Packet /\ fate' = fate
      /\ written' = [written EXCEPT ![w] = {}] /\ flushed' = [flushed EXCEPT ![w] = 0]
  BY DEF TypeInv, WorkerOK, FieldsOK, Counts, FateIs
<1>2. /\ \A g : FateIs(g)' = FateIs(g)
      /\ dropped' = dropped /\ notFound' = notFound /\ forwarded' = forwarded + flushed[w]
  BY DEF Counts, FateIs
<1> HIDE DEF S
<1>3. \A v \in Worker : IF v = w THEN written'[v] = {} /\ flushed'[v] = 0
                        ELSE written'[v] = written[v] /\ flushed'[v] = flushed[v]
  BY <1>1
<1>4. /\ \A v \in Worker : flushed[v] = Cardinality(written[v]) /\ written[v] \subseteq S
      /\ \A u, v \in Worker : u # v => written[u] \cap written[v] = {}
      /\ forwarded = Cardinality(S \ Uncounted)
  BY Zenon DEF Tallied, S
<1>5. S \ Uncounted' = (S \ Uncounted) \cup written[w] /\ (S \ Uncounted) \cap written[w] = {}
  <2>1. written[w] \subseteq Uncounted /\ written[w] \subseteq S
    BY ONLY <1>4, Zenon DEF Uncounted
  <2>2. \A n : n \in Uncounted' => n \in Uncounted /\ n \notin written[w]
    BY ONLY <1>3, <1>4 DEF Uncounted
  <2>3. \A n : n \in Uncounted /\ n \notin written[w] => n \in Uncounted'
    BY ONLY <1>3, Zenon DEF Uncounted
  <2> QED
    BY ONLY <2>1, <2>2, <2>3, Zenon
<1>6. Cardinality(S \ Uncounted') = Cardinality(S \ Uncounted) + Cardinality(written[w])
  <2> DEFINE T == S \ Uncounted
  <2>1. T \in SUBSET Packet /\ written[w] \in SUBSET Packet
    BY <1>1
  <2>2. S \ Uncounted' = T \cup written[w] /\ T \cap written[w] = {}
    BY <1>5
  <2> HIDE DEF T
  <2>3. Cardinality(T \cup written[w]) = Cardinality(T) + Cardinality(written[w])
    BY <2>1, <2>2, Zenon DEF CountingLaws
  <2> QED
    BY ONLY <2>2, <2>3, Zenon DEF T
<1>7. forwarded' = Cardinality(S \ Uncounted')
  BY <1>2, <1>4, <1>6, Zenon
<1>8. \A v \in Worker : flushed'[v] = Cardinality(written'[v]) /\ written'[v] \subseteq S
  <2>1. Cardinality({}) = 0
    BY Zenon DEF CountingLaws
  <2> QED
    BY <1>3, <1>4, <2>1
<1>9. \A u, v \in Worker : u # v => written'[u] \cap written'[v] = {}
  BY <1>3, <1>4, Zenon
<1> QED
  BY <1>2, <1>7, <1>8, <1>9, Zenon DEF Tallied, S

LEMMA TallyFlush ==
  ASSUME CountingLaws, TypeInv, Tallied, NEW w \in Worker, NEW n, Joins(n, "sent"),
         Same("dropped"), Same("notFound"),
         flushed' = [flushed EXCEPT ![w] = @ + 1], written' = [written EXCEPT ![w] = @ \cup {n}],
         UNCHANGED counters
  PROVE  Tallied'
<1> DEFINE S == FateIs("sent")
           S2 == FateIs("sent")'
<1>1. /\ written \in [Worker -> SUBSET Packet] /\ flushed \in [Worker -> Nat] /\ S \subseteq Packet
  BY DEF TypeInv, WorkerOK, FieldsOK, FateIs
<1>2. n \notin S /\ S2 = S \cup {n}
  BY Zenon DEF Joins
<1> HIDE DEF S, S2
<1>3. \A v \in Worker : IF v = w THEN written'[v] = written[w] \cup {n} /\ flushed'[v] = flushed[w] + 1
                        ELSE written'[v] = written[v] /\ flushed'[v] = flushed[v]
  BY <1>1
<1>4. /\ \A v \in Worker : flushed[v] = Cardinality(written[v]) /\ written[v] \subseteq S
      /\ \A u, v \in Worker : u # v => written[u] \cap written[v] = {}
      /\ forwarded = Cardinality(S \ Uncounted)
  BY Zenon DEF Tallied, S
<1>5. S2 \ Uncounted' = S \ Uncounted
  BY ONLY <1>2, <1>3, <1>4 DEF Uncounted
<1>6. Cardinality(written[w] \cup {n}) = Cardinality(written[w]) + 1
  BY <1>1, <1>2, <1>4 DEF CountingLaws
<1>7. \A v \in Worker : flushed'[v] = Cardinality(written'[v]) /\ written'[v] \subseteq S2
  BY ONLY <1>2, <1>3, <1>4, <1>6, Zenon
<1>8. \A u, v \in Worker : u # v => written'[u] \cap written'[v] = {}
  BY <1>2, <1>3, <1>4
<1>9. forwarded' = Cardinality(S2 \ Uncounted')
  BY <1>4, <1>5, Zenon DEF counters
<1> QED
  BY <1>7, <1>8, <1>9, Zenon DEF Tallied, Same, counters, S2

LEMMA TallyOne ==
  ASSUME CountingLaws, TypeInv, NEW n, NEW f, Joins(n, f)
  PROVE  Cardinality(FateIs(f)') = Cardinality(FateIs(f)) + 1
<1>1. FateIs(f) \in SUBSET Packet
  BY DEF FateIs
<1>2. n \notin FateIs(f) /\ FateIs(f)' = FateIs(f) \cup {n}
  BY Zenon DEF Joins
<1> QED
  BY <1>1, <1>2 DEF CountingLaws

LEMMA TalliedStep == CountingLaws /\ TypeInv /\ Tallied /\ Books => Tallied'
<1> SUFFICES ASSUME CountingLaws, TypeInv, Tallied, Books PROVE Tallied'
  OBVIOUS
<1>1. ASSUME Same("sent"), UNCHANGED flushing
      PROVE  /\ Cardinality(FateIs("sent")' \ Uncounted') = Cardinality(FateIs("sent") \ Uncounted)
             /\ \A w \in Worker : flushed'[w] = Cardinality(written'[w]) /\ written'[w] \subseteq FateIs("sent")'
             /\ \A v, w \in Worker : v # w => written'[v] \cap written'[w] = {}
  <2>1. FateIs("sent")' = FateIs("sent") /\ flushed' = flushed /\ written' = written /\ Uncounted' = Uncounted
    BY ONLY <1>1, Zenon DEF Same, flushing, Uncounted
  <2>2. /\ \A w \in Worker : flushed[w] = Cardinality(written[w]) /\ written[w] \subseteq FateIs("sent")
        /\ \A v, w \in Worker : v # w => written[v] \cap written[w] = {}
    BY Zenon DEF Tallied
  <2> QED
    BY ONLY <2>1, <2>2, Zenon
<1>2. CASE (\A g \in Counted : Same(g)) /\ UNCHANGED <<sent, counters, flushing>>
  <2>1. Same("sent") /\ Same("dropped") /\ Same("notFound") /\ UNCHANGED flushing
        /\ forwarded' = forwarded /\ dropped' = dropped /\ notFound' = notFound
    BY <1>2, Zenon DEF Counted, counters
  <2> QED
    BY <1>1, <2>1, Zenon DEF Tallied, Same
<1>3. ASSUME NEW n, Joins(n, "sent"), Same("dropped"), Same("notFound"),
             forwarded' = forwarded + 1, UNCHANGED <<dropped, notFound, flushing>>
      PROVE  Tallied'
  <2> DEFINE S == FateIs("sent")
             T == S \ Uncounted
             S2 == FateIs("sent")'
  <2>1. n \notin S /\ S2 = S \cup {n} /\ S \subseteq Packet
    BY <1>3, Zenon DEF Joins, FateIs
  <2>2. /\ \A w \in Worker : flushed[w] = Cardinality(written[w]) /\ written[w] \subseteq S
        /\ forwarded = Cardinality(T) /\ Uncounted' = Uncounted
        /\ flushed' = flushed /\ written' = written
    BY <1>3, Zenon DEF Tallied, Uncounted, flushing
  <2> HIDE DEF S, S2
  <2>3. n \notin T /\ T \in SUBSET Packet /\ S2 \ Uncounted' = T \cup {n}
    <3>1. Uncounted \subseteq S
      BY ONLY <2>2, Zenon DEF Uncounted
    <3> QED
      BY ONLY <2>1, <2>2, <3>1
  <2> HIDE DEF T
  <2>4. forwarded' = Cardinality(S2 \ Uncounted')
    <3>1. Cardinality(T \cup {n}) = Cardinality(T) + 1
      BY <2>3, Zenon DEF CountingLaws
    <3> QED
      BY ONLY <1>3, <2>2, <2>3, <3>1, Zenon
  <2>5. \A w \in Worker : flushed'[w] = Cardinality(written'[w]) /\ written'[w] \subseteq S2
    BY ONLY <2>1, <2>2, Zenon
  <2>6. \A v, w \in Worker : v # w => written'[v] \cap written'[w] = {}
    BY <2>2 DEF Tallied
  <2> QED
    <3>1. dropped' = Cardinality(FateIs("dropped")') /\ notFound' = Cardinality(FateIs("notFound")')
      BY <1>3, Zenon DEF Tallied, Same
    <3> QED
      BY ONLY <2>4, <2>5, <2>6, <3>1, Zenon DEF Tallied, S2
<1>4. ASSUME NEW n, Joins(n, "notFound"), Same("sent"), Same("dropped"),
             notFound' = notFound + 1, UNCHANGED <<forwarded, dropped, flushing>>
      PROVE  Tallied'
  <2>1. notFound' = Cardinality(FateIs("notFound")')
    BY <1>4, TallyOne, Zenon DEF Tallied
  <2> QED
    BY <1>1, <1>4, <2>1, Zenon DEF Tallied, Same
<1>5. ASSUME NEW n, Joins(n, "dropped"), Same("sent"), Same("notFound"),
             dropped' = dropped + 1, UNCHANGED <<forwarded, notFound, flushing>>
      PROVE  Tallied'
  <2>1. dropped' = Cardinality(FateIs("dropped")')
    BY <1>5, TallyOne, Zenon DEF Tallied
  <2> QED
    BY <1>1, <1>5, <2>1, Zenon DEF Tallied, Same
<1> QED
  BY <1>2, <1>3, <1>4, <1>5, TallyCounts, TallyFlush, Zenon DEF Books

LEMMA Accounted == PacketInv /\ Custody /\ Departed /\ Tallied => Accounting
<1> SUFFICES ASSUME PacketInv, Custody, Departed, Tallied PROVE Accounting
  BY Zenon
<1>1. Hold = UNION {Range(InFlight(w)) : w \in Worker}
  BY InFlightAll DEF Hold
<1>2. FateIs("queued") = UNION {Range(InFlight(w)) : w \in Worker}
  BY <1>1, Zenon DEF Custody
<1>3. forwarded = Cardinality(FateIs("sent") \ UNION {written[w] : w \in Worker})
  BY DEF Tallied, Uncounted
<1> QED
  BY <1>2, <1>3, Zenon DEF Departed, Tallied, Accounting

LEMMA TallyInit == CountingLaws /\ Init => Departed /\ Tallied
<1> SUFFICES ASSUME CountingLaws, Init PROVE Departed /\ Tallied
  OBVIOUS
<1>1. \A g \in {"sent", "dropped", "notFound"} : FateIs(g) = {}
  BY DEF Init, FateIs
<1>2. Cardinality({}) = 0
  BY DEF CountingLaws
<1>3. Uncounted = {} /\ \A w \in Worker : flushed[w] = 0 /\ written[w] = {}
  BY DEF Init, Uncounted
<1>4. Tallied
  BY <1>1, <1>2, <1>3, Zenon DEF Init, Tallied
<1>5. \A d \in NodeId : DOMAIN sent[d] = {}
  BY DEF Init
<1> QED
  BY <1>1, <1>4, <1>5 DEF Departed, Left
=============================================================================
