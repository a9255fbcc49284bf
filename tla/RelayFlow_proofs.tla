-------------------------- MODULE RelayFlow_proofs --------------------------
(***************************************************************************)
(* The relay pipeline implements the channel of FlowChannel, and what      *)
(* follows for the order in which packets leave; for any destinations,     *)
(* workers, queue and batch sizes and number of packets.                   *)
(***************************************************************************)
EXTENDS RelayFlow, Relay_proofs

(* The packets to d that a worker with job j and queue q has not batched.   *)
Waits(j, q, d) == HeldTo(j, d) \cup NumbersTo(q, d)

LEMMA ToFacts ==
  /\ \A s, d : NumbersTo(s, d) \subseteq Nums(s)
  /\ \A j, d : HeldTo(j, d) \subseteq Held(j)
  /\ \A d : HeldTo(NoJob, d) = {} /\ NumbersTo(<<>>, d) = {}
  BY DEF NumbersTo, Nums, HeldTo, Held

LEMMA ToAppend ==
  ASSUME NEW S, NEW s \in Seq(S), NEW e \in S, NEW d
  PROVE  NumbersTo(Append(s, e), d) = NumbersTo(s, d) \cup (IF e.dest = d THEN {e.n} ELSE {})
<1> DEFINE t == Append(s, e)
<1>1. /\ DOMAIN t = 1 .. Len(s) + 1 /\ DOMAIN s = 1 .. Len(s) /\ Len(s) \in Nat
      /\ \A i \in DOMAIN s : t[i] = s[i]
      /\ t[Len(s) + 1] = e
  BY AppendFacts
<1> HIDE DEF t
<1>2. /\ \A i \in DOMAIN t : i \in DOMAIN s \/ i = Len(s) + 1
      /\ DOMAIN s \subseteq DOMAIN t /\ Len(s) + 1 \in DOMAIN t
  BY <1>1
<1>3. NumbersTo(t, d) = NumbersTo(s, d) \cup (IF e.dest = d THEN {e.n} ELSE {})
  BY ONLY <1>1, <1>2 DEF NumbersTo
<1> QED
  BY <1>3 DEF t

LEMMA ToTail ==
  ASSUME NEW S, NEW s \in Seq(S), s # <<>>, NEW d
  PROVE  NumbersTo(s, d) = NumbersTo(Tail(s), d) \cup (IF Head(s).dest = d THEN {Head(s).n} ELSE {})
<1> DEFINE t == Tail(s)
<1>1. /\ Head(s) = s[1] /\ 1 \in DOMAIN s
      /\ \A i \in DOMAIN t : i + 1 \in DOMAIN s /\ t[i] = s[i + 1]
      /\ \A i \in DOMAIN s : i = 1 \/ (i - 1 \in DOMAIN t /\ t[i - 1] = s[i])
  BY TailFacts
<1> HIDE DEF t
<1>2. NumbersTo(s, d) = NumbersTo(t, d) \cup (IF s[1].dest = d THEN {s[1].n} ELSE {})
  BY ONLY <1>1 DEF NumbersTo
<1> QED
  BY <1>1, <1>2 DEF t

LEMMA TakeTo ==
  ASSUME NEW q \in Seq(Job), q # <<>>, NEW d
  PROVE  Waits(Head(q), Tail(q), d) = Waits(NoJob, q, d)
<1>1. Head(q) \in Job /\ Head(q) # NoJob
  BY TailFacts, JobFacts
<1>2. HeldTo(Head(q), d) = IF Head(q).dest = d THEN {Head(q).n} ELSE {}
  BY <1>1 DEF HeldTo
<1> QED
  BY <1>2, ToTail, ToFacts DEF Waits

(* The job in hand is the oldest that waits, ...                            *)
LEMMA HandTo ==
  ASSUME NEW w, NEW b, NEW j \in Job, NEW q, NEW a, NEW d, Ordered(w, b, j, q, a)
  PROVE  /\ Waits(NoJob, q, d) = Waits(j, q, d) \ {j.n}
         /\ j.dest = d => j.n \in Waits(j, q, d)
         /\ j.dest # d => Waits(NoJob, q, d) = Waits(j, q, d)
         /\ \A m \in Waits(j, q, d) : j.n <= m
         /\ j.n \notin NumbersTo(b, d)
<1>1. /\ Held(j) = {j.n} /\ HeldTo(NoJob, d) = {}
      /\ HeldTo(j, d) = (IF j.dest = d THEN {j.n} ELSE {}) /\ j.n \in Nat
  BY JobFacts DEF Held, HeldTo
<1>2. /\ \A m \in NumbersTo(q, d) : m \in Nat /\ j.n < m
      /\ \A m \in NumbersTo(b, d) : m \in Nat /\ m < j.n
  BY <1>1, ToFacts DEF Ordered, Below
<1>3. /\ \A m \in NumbersTo(q, d) : m # j.n /\ j.n <= m
      /\ j.n \notin NumbersTo(b, d) /\ j.n <= j.n
  BY <1>1, <1>2
<1> QED
  BY ONLY <1>1, <1>3 DEF Waits

(* ... and the first of the batch the oldest there.                         *)
LEMMA FlushTo ==
  ASSUME NEW w, NEW b \in Seq(Msg), NEW j, NEW q, NEW a, NEW d, b # <<>>, Ordered(w, b, j, q, a)
  PROVE  /\ NumbersTo(Tail(b), d) = NumbersTo(b, d) \ {Head(b).n}
         /\ Head(b).dest = d => Head(b).n \in NumbersTo(b, d)
         /\ Head(b).dest # d => NumbersTo(Tail(b), d) = NumbersTo(b, d)
         /\ \A m \in NumbersTo(b, d) : Head(b).n <= m
         /\ Head(b).n \notin Waits(j, q, d)
<1> DEFINE h == Head(b)
           t == Tail(b)
<1>1. NumbersTo(b, d) = NumbersTo(t, d) \cup (IF h.dest = d THEN {h.n} ELSE {})
  BY ToTail
<1>2. /\ h.n \in Nums(b) /\ Below({h.n}, Nums(t)) /\ Nums(t) \subseteq Nums(b)
  BY TailOrder, Zenon DEF Ordered
<1> HIDE DEF h, t
<1>3. /\ h.n \in Nat /\ \A m \in NumbersTo(t, d) : m \in Nat /\ h.n < m
      /\ \A m \in Waits(j, q, d) : m \in Nat /\ h.n < m
  <2>1. Waits(j, q, d) \subseteq Held(j) \cup Nums(q) /\ NumbersTo(t, d) \subseteq Nums(t)
    BY ToFacts DEF Waits
  <2> QED
    BY <1>2, <2>1 DEF Ordered, Below
<1>4. /\ h.n <= h.n /\ \A m \in NumbersTo(t, d) : m # h.n /\ h.n <= m
      /\ h.n \notin Waits(j, q, d)
  BY <1>3
<1> QED
  BY <1>1, <1>4 DEF h, t

LEMMA PanicTo ==
  ASSUME NEW w, NEW b, NEW j \in Job, NEW q, NEW a, NEW d, Ordered(w, b, j, q, a)
  PROVE  Waits(NoJob, q, d) = Waits(j, q, d) \ (Nums(b) \cup {j.n})
<1>1. Held(j) = {j.n} /\ HeldTo(j, d) \subseteq {j.n} /\ HeldTo(NoJob, d) = {}
  BY JobFacts DEF Held, HeldTo
<1>2. \A m \in NumbersTo(q, d) : m \in Nat /\ j.n < m /\ \A n \in Nums(b) : n < m /\ n \in Nat
  BY <1>1, ToFacts DEF Ordered, Below
<1>3. \A m \in NumbersTo(q, d) : m \notin Nums(b) \cup {j.n}
  BY <1>2, JobFacts
<1> QED
  BY <1>1, <1>3, ToFacts DEF Waits

(* Only the worker that relayQueueFor names holds packets to d.             *)
Places ==
  \A d \in NodeId : LET w == relayQueueFor(d) IN
    /\ WaitingTo[d] = Waits(job[w], relayChs[w], d)
    /\ BatchedTo[d] = NumbersTo(msgs[w], d)

LEMMA OneWorker == PacketInv => Places
<1> SUFFICES ASSUME PacketInv, NEW d \in NodeId, NEW w, w = relayQueueFor(d)
             PROVE  /\ WaitingTo[d] = Waits(job[w], relayChs[w], d)
                    /\ BatchedTo[d] = NumbersTo(msgs[w], d)
  BY DEF Places
<1>1. w \in Worker
  BY Hash
<1>2. ASSUME NEW v \in Worker, v # w
      PROVE  Waits(job[v], relayChs[v], d) = {} /\ NumbersTo(msgs[v], d) = {}
  <2>1. Ordered(v, msgs[v], job[v], relayChs[v], arrived)
    BY DEF PacketInv, OrderInv
  <2> QED
    BY <1>2, <2>1 DEF Ordered, On, Waits, HeldTo, NumbersTo
<1>3. /\ WaitingTo[d] = UNION {Waits(job[v], relayChs[v], d) : v \in Worker}
      /\ BatchedTo[d] = UNION {NumbersTo(msgs[v], d) : v \in Worker}
  BY DEF WaitingTo, BatchedTo, Waits
<1> QED
  BY <1>1, <1>2, <1>3

LEMMA Shapes ==
  /\ WaitingTo = [d \in NodeId |-> WaitingTo[d]] /\ BatchedTo = [d \in NodeId |-> BatchedTo[d]]
  /\ WaitingTo' = [d \in NodeId |-> WaitingTo'[d]] /\ BatchedTo' = [d \in NodeId |-> BatchedTo'[d]]
  BY DEF WaitingTo, BatchedTo

(* A step of worker w, seen from one destination.                           *)
LEMMA Elsewhere ==
  ASSUME PacketInv, PacketInv', NEW w \in Worker, NEW b, NEW j, NEW q, Hands(w, b, j, q),
         NEW d \in NodeId
  PROVE  IF relayQueueFor(d) = w
         THEN /\ WaitingTo[d] = Waits(job[w], relayChs[w], d) /\ BatchedTo[d] = NumbersTo(msgs[w], d)
              /\ WaitingTo'[d] = Waits(j, q, d) /\ BatchedTo'[d] = NumbersTo(b, d)
         ELSE /\ WaitingTo'[d] = WaitingTo[d] /\ BatchedTo'[d] = BatchedTo[d]
              /\ (WaitingTo[d] \cup BatchedTo[d]) \cap All(msgs[w], job[w], relayChs[w]) = {}
<1> DEFINE v == relayQueueFor(d)
<1>1. v \in Worker
  BY Hash
<1>2. PacketInv' => Places'
  BY OneWorker, PTL
<1>3. /\ WaitingTo[d] = Waits(job[v], relayChs[v], d) /\ BatchedTo[d] = NumbersTo(msgs[v], d)
      /\ WaitingTo'[d] = Waits(job'[v], relayChs'[v], d) /\ BatchedTo'[d] = NumbersTo(msgs'[v], d)
  BY <1>2, OneWorker DEF Places
<1>4. /\ msgs'[w] = b /\ job'[w] = j /\ relayChs'[w] = q
      /\ v # w => msgs'[v] = msgs[v] /\ job'[v] = job[v] /\ relayChs'[v] = relayChs[v]
  <2>1. WorkerOK
    BY DEF PacketInv, TypeInv
  <2> QED
    BY <1>1, <2>1, HandsFacts
<1>5. ASSUME v # w
      PROVE  (WaitingTo[d] \cup BatchedTo[d]) \cap All(msgs[w], job[w], relayChs[w]) = {}
  <2>1. WaitingTo[d] \cup BatchedTo[d] \subseteq All(msgs[v], job[v], relayChs[v])
    BY <1>3, ToFacts DEF Waits, All
  <2>2. All(msgs[v], job[v], relayChs[v]) \cap All(msgs[w], job[w], relayChs[w]) = {}
    BY <1>1, <1>5 DEF PacketInv, Apart
  <2> QED
    BY <2>1, <2>2
<1> QED
  BY <1>3, <1>4, <1>5

LEMMA FlowWorker ==
  ASSUME PacketInv, PacketInv', NEW w \in Worker, arrived' = arrived, Effect(w)
  PROVE  Flow!Next \/ UNCHANGED Flow!channel
<1> DEFINE b == msgs[w]
           j == job[w]
           q == relayChs[w]
<1>0. /\ b \in Seq(Msg) /\ q \in Seq(Job) /\ Ordered(w, b, j, q, arrived)
  BY WorkerTypes DEF PacketInv, TypeInv, OrderInv
<1>1. \A m \in Msg : m.n \in Flow!Number /\ m.dest \in NodeId
  BY MsgTypes DEF Flow!Number, Packet
<1>2. j \in Job => j.n \in Flow!Number /\ j.dest \in NodeId /\ j.n \in All(b, j, q)
  BY JobFacts DEF Flow!Number, Packet, All, Held
<1>a. ASSUME NEW c, NEW i, NEW r, Hands(w, c, i, r), NEW d \in NodeId, relayQueueFor(d) = w
      PROVE  /\ WaitingTo[d] = Waits(j, q, d) /\ BatchedTo[d] = NumbersTo(b, d)
             /\ WaitingTo'[d] = Waits(i, r, d) /\ BatchedTo'[d] = NumbersTo(c, d)
  BY <1>a, Elsewhere
<1>b. ASSUME NEW c, NEW i, NEW r, Hands(w, c, i, r), NEW d \in NodeId, relayQueueFor(d) # w
      PROVE  /\ WaitingTo'[d] = WaitingTo[d] /\ BatchedTo'[d] = BatchedTo[d]
             /\ (WaitingTo[d] \cup BatchedTo[d]) \cap All(b, j, q) = {}
  BY <1>b, Elsewhere, Zenon
<1>c. ASSUME j \in Job, NEW d
      PROVE  /\ Waits(NoJob, q, d) = Waits(j, q, d) \ {j.n}
             /\ j.dest = d => j.n \in Waits(j, q, d)
             /\ j.dest # d => Waits(NoJob, q, d) = Waits(j, q, d)
             /\ \A m \in Waits(j, q, d) : j.n <= m
             /\ j.n \notin NumbersTo(b, d)
  BY <1>0, <1>c, HandTo, Zenon
<1>d. j \in Job => relayQueueFor(j.dest) = w
  BY <1>0, JobFacts, Zenon DEF Ordered
<1>3. CASE Keeps \/ Counts(w)
  BY <1>3 DEF Keeps, Counts, Flow!channel, WaitingTo, BatchedTo
<1>4. CASE Takes(w)
  <2>0. j = NoJob /\ q # <<>> /\ Hands(w, b, Head(q), Tail(q))
    BY <1>4 DEF Takes
  <2>1. ASSUME NEW d \in NodeId PROVE WaitingTo'[d] = WaitingTo[d] /\ BatchedTo'[d] = BatchedTo[d]
    <3>1. Waits(Head(q), Tail(q), d) = Waits(NoJob, q, d)
      BY <1>0, <2>0, TakeTo
    <3>2. CASE relayQueueFor(d) = w
      BY <1>a, <2>0, <3>1, <3>2
    <3>3. CASE relayQueueFor(d) # w
      BY <1>b, <2>0, <3>3
    <3> QED
      BY <3>2, <3>3
  <2>2. WaitingTo' = WaitingTo /\ BatchedTo' = BatchedTo
    BY ONLY <2>1, Shapes
  <2> QED
    BY <1>4, <2>2 DEF Takes, Flow!channel
<1>5. ASSUME NEW e \in Msg, Batches(w, e) PROVE Flow!Next
  <2>1. j \in Job /\ e.n = j.n /\ e.dest = j.dest /\ Hands(w, Append(b, e), NoJob, q) /\ sent' = sent
    BY <1>5 DEF Batches
  <2>2. ASSUME NEW d \in NodeId
        PROVE  /\ WaitingTo'[d] = IF d = j.dest THEN WaitingTo[d] \ {j.n} ELSE WaitingTo[d]
               /\ BatchedTo'[d] = IF d = j.dest THEN BatchedTo[d] \cup {j.n} ELSE BatchedTo[d]
    <3>1. CASE relayQueueFor(d) = w
      <4>1. NumbersTo(Append(b, e), d) = NumbersTo(b, d) \cup (IF j.dest = d THEN {j.n} ELSE {})
        BY <1>0, <2>1, ToAppend
      <4>2. /\ WaitingTo[d] = Waits(j, q, d) /\ BatchedTo[d] = NumbersTo(b, d)
            /\ WaitingTo'[d] = Waits(NoJob, q, d) /\ BatchedTo'[d] = NumbersTo(Append(b, e), d)
        BY <1>a, <2>1, <3>1, Zenon
      <4>3. /\ Waits(NoJob, q, d) = Waits(j, q, d) \ {j.n}
            /\ j.dest # d => Waits(NoJob, q, d) = Waits(j, q, d)
        BY <1>c, <2>1, Zenon
      <4> QED
        BY ONLY <4>1, <4>2, <4>3
    <3>2. CASE relayQueueFor(d) # w
      BY <1>b, <1>d, <2>1, <3>2
    <3> QED
      BY <3>1, <3>2
  <2>3. Flow!Oldest(j.n, WaitingTo[j.dest])
    BY <1>2, <1>a, <1>c, <1>d, <2>1 DEF Flow!Oldest
  <2>4. /\ WaitingTo' = [WaitingTo EXCEPT ![j.dest] = @ \ {j.n}]
        /\ BatchedTo' = [BatchedTo EXCEPT ![j.dest] = @ \cup {j.n}]
    BY ONLY <2>2, Shapes
  <2>5. Flow!Batch(j.dest, j.n)
    BY <2>1, <2>3, <2>4 DEF Flow!Batch
  <2> QED
    BY <1>2, <2>1, <2>5 DEF Flow!Next
<1>6. CASE Writes(w)
  <2>1. j \in Job /\ j.dest \in WssNodes /\ Hands(w, b, NoJob, q) /\ Departs(j.n, j.dest, "wss")
    BY <1>6 DEF Writes
  <2>2. ASSUME NEW d \in NodeId
        PROVE  /\ WaitingTo'[d] = IF d = j.dest THEN WaitingTo[d] \ {j.n} ELSE WaitingTo[d]
               /\ BatchedTo'[d] = BatchedTo[d]
    <3>1. CASE relayQueueFor(d) = w
      <4>1. /\ WaitingTo[d] = Waits(j, q, d) /\ BatchedTo[d] = NumbersTo(b, d)
            /\ WaitingTo'[d] = Waits(NoJob, q, d) /\ BatchedTo'[d] = NumbersTo(b, d)
        BY <1>a, <2>1, <3>1, Zenon
      <4>2. /\ Waits(NoJob, q, d) = Waits(j, q, d) \ {j.n}
            /\ j.dest # d => Waits(NoJob, q, d) = Waits(j, q, d)
        BY <1>c, <2>1, Zenon
      <4> QED
        BY ONLY <4>1, <4>2
    <3>2. CASE relayQueueFor(d) # w
      BY <1>b, <1>d, <2>1, <3>2
    <3> QED
      BY <3>1, <3>2
  <2>3. Flow!Oldest(j.n, WaitingTo[j.dest])
    BY <1>2, <1>a, <1>c, <1>d, <2>1 DEF Flow!Oldest
  <2>4. WaitingTo' = [WaitingTo EXCEPT ![j.dest] = @ \ {j.n}] /\ BatchedTo' = BatchedTo
    BY ONLY <2>2, Shapes
  <2>5. Flow!DeliverDirect(j.dest, j.n)
    BY <2>1, <2>3, <2>4 DEF Flow!DeliverDirect, Flow!Deliver, Departs
  <2> QED
    BY <1>2, <2>1, <2>5 DEF Flow!Next
<1>7. ASSUME NEW lost \in SUBSET Flow!Number, sent' = sent,
             \A d \in NodeId : WaitingTo'[d] = WaitingTo[d] \ lost /\ BatchedTo'[d] = BatchedTo[d] \ lost
      PROVE  Flow!Next
  <2>1. /\ WaitingTo' = [d \in NodeId |-> WaitingTo[d] \ lost]
        /\ BatchedTo' = [d \in NodeId |-> BatchedTo[d] \ lost]
    BY ONLY <1>7, Shapes
  <2>2. Flow!Lose(lost)
    BY <1>7, <2>1 DEF Flow!Lose
  <2> QED
    BY <2>2 DEF Flow!Next
<1>8. CASE Misses(w)
  <2>1. j \in Job /\ Hands(w, b, NoJob, q) /\ sent' = sent
    BY <1>8 DEF Misses
  <2>2. ASSUME NEW d \in NodeId
        PROVE  WaitingTo'[d] = WaitingTo[d] \ {j.n} /\ BatchedTo'[d] = BatchedTo[d] \ {j.n}
    <3>1. CASE relayQueueFor(d) = w
      <4>1. /\ WaitingTo[d] = Waits(j, q, d) /\ BatchedTo[d] = NumbersTo(b, d)
            /\ WaitingTo'[d] = Waits(NoJob, q, d) /\ BatchedTo'[d] = NumbersTo(b, d)
        BY <1>a, <2>1, <3>1, Zenon
      <4>2. Waits(NoJob, q, d) = Waits(j, q, d) \ {j.n} /\ j.n \notin NumbersTo(b, d)
        BY <1>c, <2>1, Zenon
      <4> QED
        BY ONLY <4>1, <4>2
    <3>2. CASE relayQueueFor(d) # w
      BY <1>2, <1>b, <2>1, <3>2
    <3> QED
      BY <3>1, <3>2
  <2>3. {j.n} \in SUBSET Flow!Number
    BY <1>2, <2>1
  <2> QED
    BY <1>7, <2>1, <2>2, <2>3, Zenon
<1>9. CASE Panics(w)
  <2> DEFINE lost == Nums(b) \cup {j.n}
  <2>1. j \in Job /\ Hands(w, <<>>, NoJob, q) /\ sent' = sent
    BY <1>9 DEF Panics
  <2>2. lost \in SUBSET Flow!Number /\ lost \subseteq All(b, j, q)
    <3>1. \A n \in Nums(b) : n \in Flow!Number
      BY <1>0, <1>1 DEF Nums
    <3> QED
      BY <1>2, <2>1, <3>1 DEF All
  <2>3. ASSUME NEW d \in NodeId
        PROVE  WaitingTo'[d] = WaitingTo[d] \ lost /\ BatchedTo'[d] = BatchedTo[d] \ lost
    <3>1. CASE relayQueueFor(d) = w
      <4>1. Waits(NoJob, q, d) = Waits(j, q, d) \ lost
        BY <1>0, <2>1, PanicTo
      <4>2. NumbersTo(<<>>, d) = {} /\ NumbersTo(b, d) \subseteq lost
        BY ToFacts
      <4>3. /\ WaitingTo[d] = Waits(j, q, d) /\ BatchedTo[d] = NumbersTo(b, d)
            /\ WaitingTo'[d] = Waits(NoJob, q, d) /\ BatchedTo'[d] = NumbersTo(<<>>, d)
        BY <1>a, <2>1, <3>1
      <4> HIDE DEF lost
      <4> QED
        BY ONLY <4>1, <4>2, <4>3
    <3> HIDE DEF lost
    <3>2. CASE relayQueueFor(d) # w
      BY <1>b, <2>1, <2>2, <3>2
    <3> QED
      BY <3>1, <3>2
  <2> HIDE DEF lost
  <2> QED
    BY <1>7, <2>1, <2>2, <2>3, Zenon
<1>10. ASSUME b # <<>>, Hands(w, Tail(b), j, q), NEW d \in NodeId
       PROVE  /\ WaitingTo'[d] = WaitingTo[d] /\ WaitingTo[d] = WaitingTo[d] \ {Head(b).n}
              /\ BatchedTo'[d] = BatchedTo[d] \ {Head(b).n}
              /\ Head(b).dest = d => Head(b).n \in BatchedTo[d] /\ \A m \in BatchedTo[d] : Head(b).n <= m
              /\ Head(b).dest # d => BatchedTo'[d] = BatchedTo[d]
  <2>1. CASE relayQueueFor(d) = w
    <3>1. /\ NumbersTo(Tail(b), d) = NumbersTo(b, d) \ {Head(b).n}
          /\ Head(b).dest = d => Head(b).n \in NumbersTo(b, d)
          /\ Head(b).dest # d => NumbersTo(Tail(b), d) = NumbersTo(b, d)
          /\ \A m \in NumbersTo(b, d) : Head(b).n <= m
          /\ Head(b).n \notin Waits(j, q, d)
      BY <1>0, <1>10, FlushTo, Zenon
    <3> QED
      BY <1>10, <1>a, <2>1, <3>1
  <2>2. CASE relayQueueFor(d) # w
    <3>1. Head(b).n \in All(b, j, q) /\ Head(b).dest # d
      <4>1. Head(b).n \in Nums(b) /\ relayQueueFor(Head(b).dest) = w
        <5>1. Sorted(b) /\ On(w, b)
          BY <1>0 DEF Ordered
        <5>2. Head(b).n \in Nums(b)
          BY <1>0, <1>10, <5>1, TailOrder, Zenon
        <5> QED
          BY <1>0, <1>10, <5>1, <5>2, OnKept, Zenon
      <4> QED
        BY <2>2, <4>1 DEF All
    <3> QED
      BY <1>10, <1>b, <2>2, <3>1
  <2> QED
    BY ONLY <2>1, <2>2, Zenon
<1>11. b # <<>> => Head(b).n \in Flow!Number /\ Head(b).dest \in NodeId
  BY <1>0, <1>1, TailFacts
<1>12. CASE Sends(w)
  <2>1. b # <<>> /\ Hands(w, Tail(b), j, q) /\ Departs(Head(b).n, Head(b).dest, "udp")
    BY <1>12 DEF Sends, Sent, Departs
  <2> DEFINE h == Head(b)
  <2>2. h.dest \in NodeId /\ h.n \in Flow!Number
    BY <1>11, <2>1
  <2>a. \A d \in NodeId : /\ WaitingTo'[d] = WaitingTo[d]
                          /\ BatchedTo'[d] = BatchedTo[d] \ {h.n}
                          /\ h.dest = d => h.n \in BatchedTo[d] /\ \A m \in BatchedTo[d] : h.n <= m
                          /\ h.dest # d => BatchedTo'[d] = BatchedTo[d]
    BY <1>10, <2>1, Zenon
  <2> HIDE DEF h
  <2>3. /\ \A d \in NodeId : /\ WaitingTo'[d] = WaitingTo[d]
                             /\ BatchedTo'[d] = IF d = h.dest THEN BatchedTo[d] \ {h.n} ELSE BatchedTo[d]
        /\ Flow!Oldest(h.n, BatchedTo[h.dest])
    BY ONLY <2>2, <2>a, Zenon DEF Flow!Oldest
  <2>4. WaitingTo' = WaitingTo /\ BatchedTo' = [BatchedTo EXCEPT ![h.dest] = @ \ {h.n}]
    BY ONLY <2>3, Shapes, Zenon
  <2>5. Flow!DeliverBatched(h.dest, h.n)
    BY <2>1, <2>3, <2>4 DEF Flow!DeliverBatched, Flow!Deliver, Departs, h
  <2> QED
    BY <2>2, <2>5 DEF Flow!Next
<1>13. CASE Fails(w)
  <2>1. b # <<>> /\ Hands(w, Tail(b), j, q) /\ sent' = sent
    BY <1>13 DEF Fails
  <2>2. {Head(b).n} \in SUBSET Flow!Number
    BY ONLY <1>11, <2>1, Zenon
  <2>3. \A d \in NodeId : /\ WaitingTo'[d] = WaitingTo[d] \ {Head(b).n}
                          /\ BatchedTo'[d] = BatchedTo[d] \ {Head(b).n}
    BY <1>10, <2>1
  <2> QED
    BY <1>7, <2>1, <2>2, <2>3, Zenon
<1> QED
  BY <1>3, <1>4, <1>5, <1>6, <1>8, <1>9, <1>12, <1>13 DEF Effect

LEMMA FlowReaders ==
  ASSUME PacketInv, dispatchRelay \/ CloseCompatWSS
  PROVE  Flow!Next \/ UNCHANGED Flow!channel
<1>0. relayChs \in [Worker -> Seq(Job)] /\ SharedOK
  BY DEF PacketInv, TypeInv, WorkerOK, FieldsOK
<1>1. CASE UNCHANGED others
  BY <1>1 DEF others, local, Flow!channel, WaitingTo, BatchedTo
<1>2. ASSUME NEW d \in NodeId, Accepts(d) PROVE Flow!Next
  <2> DEFINE e == [n |-> arrived + 1, dest |-> d]
             u == relayQueueFor(d)
  <2>1. /\ arrived < MaxPackets /\ arrived' = arrived + 1
        /\ relayChs' = [relayChs EXCEPT ![u] = Append(relayChs[u], e)]
        /\ msgs' = msgs /\ job' = job /\ sent' = sent
    BY <1>2 DEF Accepts, Arrive, local
  <2>2. e \in Job /\ e.n = arrived + 1 /\ e.dest = d
    BY <1>0, <1>2, Arrival DEF Accepts, Job, Fate
  <2>3. u \in Worker
    BY Hash
  <2> HIDE DEF e, u
  <2>4. ASSUME NEW c \in NodeId
        PROVE  /\ NumbersTo(relayChs'[u], c) = NumbersTo(relayChs[u], c) \cup (IF c = d THEN {arrived + 1} ELSE {})
               /\ \A v \in Worker \ {u} : relayChs'[v] = relayChs[v]
    <3>1. /\ relayChs[u] \in Seq(Job) /\ relayChs'[u] = Append(relayChs[u], e)
          /\ \A v \in Worker \ {u} : relayChs'[v] = relayChs[v]
      BY <1>0, <2>1, <2>3
    <3> QED
      BY <2>2, <3>1, ToAppend
  <2>5. ASSUME NEW c \in NodeId
        PROVE  WaitingTo'[c] = IF c = d THEN WaitingTo[c] \cup {arrived + 1} ELSE WaitingTo[c]
    <3> DEFINE F(v) == HeldTo(job[v], c) \cup NumbersTo(relayChs[v], c)
               G(v) == HeldTo(job[v], c) \cup NumbersTo(relayChs'[v], c)
    <3>1. WaitingTo[c] = UNION {F(v) : v \in Worker} /\ WaitingTo'[c] = UNION {G(v) : v \in Worker}
      BY <2>1 DEF WaitingTo
    <3>2. G(u) = F(u) \cup (IF c = d THEN {arrived + 1} ELSE {}) /\ \A v \in Worker \ {u} : G(v) = F(v)
      BY <2>4
    <3> HIDE DEF F, G
    <3> QED
      BY ONLY <2>3, <3>1, <3>2
  <2>6. /\ WaitingTo' = [WaitingTo EXCEPT ![d] = @ \cup {arrived + 1}]
        /\ BatchedTo' = BatchedTo
    <3>1. BatchedTo' = BatchedTo
      BY <2>1 DEF BatchedTo
    <3> QED
      BY ONLY <2>5, <3>1, Shapes
  <2>7. Flow!Accept(d)
    BY <2>1, <2>6 DEF Flow!Accept, Flow!Arrive
  <2> QED
    BY <2>7 DEF Flow!Next
<1>3. ASSUME NEW v, Declines(v) PROVE Flow!Next
  <2>1. arrived < MaxPackets /\ arrived' = arrived + 1 /\ UNCHANGED <<msgs, job, relayChs, sent>>
    BY <1>3 DEF Declines, Arrive, local
  <2>2. WaitingTo' = WaitingTo /\ BatchedTo' = BatchedTo
    BY <2>1 DEF WaitingTo, BatchedTo
  <2>3. Flow!Refuse
    BY <2>1, <2>2 DEF Flow!Refuse, Flow!Arrive
  <2> QED
    BY <2>3 DEF Flow!Next
<1> QED
  BY <1>1, <1>2, <1>3, ReaderEffects

(* Every step of the pipeline is a step of the channel or changes nothing   *)
(* in it.                                                                   *)
LEMMA FlowStep == PacketInv /\ PacketInv' /\ [Next]_vars => [Flow!Next]_(Flow!channel)
<1> SUFFICES ASSUME PacketInv, PacketInv', [Next]_vars
             PROVE  Flow!Next \/ UNCHANGED Flow!channel
  OBVIOUS
<1>1. ASSUME NEW w \in Worker, WorkerStep(w) PROVE Flow!Next \/ UNCHANGED Flow!channel
  BY <1>1, Effects, WorkerArrived, FlowWorker DEF PacketInv
<1>2. ASSUME NEW w \in Worker, TimerFires(w) PROVE UNCHANGED Flow!channel
  BY <1>2 DEF TimerFires, Flow!channel, WaitingTo, BatchedTo
<1>3. CASE RouteChange \/ Close \/ UNCHANGED vars
  BY <1>3 DEF RouteChange, Close, others, vars, local, Flow!channel, WaitingTo, BatchedTo
<1> QED
  BY <1>1, <1>2, <1>3, FlowReaders DEF Next

LEMMA FlowInit == Init => Flow!Init
<1> SUFFICES ASSUME Init PROVE Flow!Init
  OBVIOUS
<1>1. WaitingTo = [d \in NodeId |-> {}] /\ BatchedTo = [d \in NodeId |-> {}]
  BY ToFacts DEF Init, WaitingTo, BatchedTo
<1> QED
  BY <1>1 DEF Init, Flow!Init

(* The order in the channel to one destination, when o packets were         *)
(* offered, W wait, B are batched and s came out: nothing that waits is     *)
(* older than anything batched or delivered, and nothing batched older than *)
(* what left the batch.                                                     *)
Lane(o, W, B, s) ==
  /\ \A n \in W \cup B : n \in Nat /\ n <= o
  /\ Below(B, W)
  /\ \A k \in DOMAIN s :
       /\ s[k].n \in Nat /\ s[k].n <= o /\ Below({s[k].n}, W)
       /\ s[k].via = "udp" => Below({s[k].n}, B)
  /\ \A i, k \in DOMAIN s : i < k /\ s[i].via = s[k].via => s[i].n < s[k].n

LEMMA LaneGrows ==
  ASSUME NEW o \in Nat, NEW W, NEW B, NEW s, Lane(o, W, B, s)
  PROVE  Lane(o + 1, W, B, s) /\ Lane(o + 1, W \cup {o + 1}, B, s)
<1>0. /\ \A n \in W \cup B : n \in Nat /\ n <= o
      /\ \A k \in DOMAIN s : s[k].n \in Nat /\ s[k].n <= o
  BY Zenon DEF Lane
<1>1. /\ \A n \in W \cup B : n \in Nat /\ n <= o + 1 /\ n < o + 1
      /\ \A k \in DOMAIN s : s[k].n \in Nat /\ s[k].n <= o + 1 /\ s[k].n < o + 1
  BY ONLY <1>0, o \in Nat
<1>2. Lane(o + 1, W, B, s)
  BY <1>1, Zenon DEF Lane
<1>3. /\ Below(B, W \cup {o + 1}) /\ o + 1 \in Nat /\ o + 1 <= o + 1
      /\ \A k \in DOMAIN s : Below({s[k].n}, W \cup {o + 1})
  BY <1>1 DEF Lane, Below
<1>4. Lane(o + 1, W \cup {o + 1}, B, s)
  BY <1>2, <1>3, Zenon DEF Lane
<1> QED
  BY <1>2, <1>4

LEMMA LaneShrinks ==
  ASSUME NEW o, NEW W, NEW B, NEW s, NEW V \in SUBSET W, NEW A \in SUBSET B, Lane(o, W, B, s)
  PROVE  Lane(o, V, A, s)
  BY DEF Lane, Below

LEMMA OldestFirst ==
  ASSUME NEW W, NEW n \in W, W \subseteq Nat, \A m \in W : n <= m
  PROVE  Below({n}, W \ {n})
  BY DEF Below

LEMMA LaneBatches ==
  ASSUME NEW o, NEW W, NEW B, NEW s, NEW n \in W, \A m \in W : n <= m, Lane(o, W, B, s)
  PROVE  Lane(o, W \ {n}, B \cup {n}, s)
<1>1. Below({n}, W \ {n})
  BY OldestFirst DEF Lane
<1>2. Below(B \cup {n}, W \ {n})
  BY <1>1 DEF Lane, Below
<1>3. \A k \in DOMAIN s : /\ Below({s[k].n}, W \ {n})
                          /\ s[k].via = "udp" => Below({s[k].n}, B \cup {n})
  BY DEF Lane, Below
<1> QED
  BY <1>2, <1>3, Zenon DEF Lane

(* n leaves as the oldest of what it leaves.                                *)
LEMMA LaneDelivers ==
  ASSUME NEW o, NEW W, NEW B, NEW s \in Seq(Entry), NEW V, NEW A, NEW n \in W \cup B,
         NEW via \in {"udp", "wss"}, [n |-> n, via |-> via] \in Entry,
         V \subseteq W, A \subseteq B, Lane(o, W, B, s), Below({n}, V),
         via = "udp" => n \in B /\ Below({n}, A),
         via = "wss" => n \in W
  PROVE  Lane(o, V, A, Append(s, [n |-> n, via |-> via]))
<1> DEFINE e == [n |-> n, via |-> via]
           t == Append(s, e)
<1>1. /\ DOMAIN t = 1 .. Len(s) + 1 /\ DOMAIN s = 1 .. Len(s) /\ Len(s) \in Nat
      /\ \A i \in DOMAIN s : t[i] = s[i]
      /\ t[Len(s) + 1] = e
  BY AppendFacts
<1>2. e.n = n /\ e.via = via
  OBVIOUS
<1> HIDE DEF e, t
<1>3. \A k \in DOMAIN t : (k \in DOMAIN s /\ t[k] = s[k]) \/ (k = Len(s) + 1 /\ t[k] = e)
  BY ONLY <1>1
<1>4. Lane(o, V, A, s)
  BY LaneShrinks
<1>5. \A k \in DOMAIN s : s[k].via = via => s[k].n < n
  BY DEF Lane, Below
<1>6. \A i, k \in DOMAIN t : i < k /\ t[i].via = t[k].via => t[i].n < t[k].n
  <2> SUFFICES ASSUME NEW i \in DOMAIN t, NEW k \in DOMAIN t, i < k, t[i].via = t[k].via
               PROVE  t[i].n < t[k].n
    OBVIOUS
  <2>1. i \in DOMAIN s /\ t[i] = s[i]
    BY <1>1
  <2>2. CASE k \in DOMAIN s
    BY <1>1, <1>4, <2>1, <2>2, Zenon DEF Lane
  <2>3. CASE k = Len(s) + 1
    BY <1>1, <1>2, <1>5, <2>1, <2>3
  <2> QED
    BY <1>3, <2>2, <2>3
<1>7. n \in Nat /\ n <= o
  BY DEF Lane
<1>8. \A k \in DOMAIN t :
        /\ t[k].n \in Nat /\ t[k].n <= o /\ Below({t[k].n}, V)
        /\ t[k].via = "udp" => Below({t[k].n}, A)
  BY <1>2, <1>3, <1>4, <1>7, Zenon DEF Lane
<1>9. Lane(o, V, A, t)
  BY <1>4, <1>6, <1>8 DEF Lane
<1> QED
  BY <1>9 DEF e, t

LaneInv == \A d \in NodeId : Lane(arrived, WaitingTo[d], BatchedTo[d], sent[d])

LEMMA LaneInit == Init => LaneInv
<1> SUFFICES ASSUME Init, NEW d \in NodeId
             PROVE  Lane(arrived, WaitingTo[d], BatchedTo[d], sent[d])
  BY Zenon DEF LaneInv
<1>1. arrived = 0 /\ sent[d] = <<>>
  BY DEF Init
<1>2. WaitingTo[d] = {} /\ BatchedTo[d] = {}
  BY ToFacts DEF Init, WaitingTo, BatchedTo
<1> QED
  BY ONLY <1>1, <1>2 DEF Lane, Below

LEMMA LaneStep == TypeInv /\ LaneInv /\ [Flow!Next]_(Flow!channel) => LaneInv'
<1> SUFFICES ASSUME TypeInv, LaneInv, [Flow!Next]_(Flow!channel), NEW d \in NodeId
             PROVE  Lane(arrived', WaitingTo'[d], BatchedTo'[d], sent'[d])
  BY Zenon DEF LaneInv
<1> DEFINE W == WaitingTo[d]
           B == BatchedTo[d]
           s == sent[d]
<1>0. /\ arrived \in Nat /\ sent \in [NodeId -> Seq(Entry)] /\ s \in Seq(Entry)
      /\ Lane(arrived, W, B, s)
  BY RelayAssumption DEF TypeInv, SharedOK, LaneInv
<1>1. DOMAIN WaitingTo = NodeId /\ DOMAIN BatchedTo = NodeId
  BY DEF WaitingTo, BatchedTo
<1>2. ASSUME NEW c \in NodeId, NEW n, NEW via, Flow!Deliver(c, n, via)
      PROVE  sent'[d] = IF c = d THEN Append(s, [n |-> n, via |-> via]) ELSE s
  BY <1>0, <1>2 DEF Flow!Deliver
<1>3. \A n \in Flow!Number, v \in {"udp", "wss"} : [n |-> n, via |-> v] \in Entry
  BY DEF Flow!Number, Entry, Packet
<1>4. CASE UNCHANGED Flow!channel
  BY <1>0, <1>4 DEF Flow!channel
<1>5. CASE Flow!Refuse
  <2>1. arrived' = arrived + 1 /\ WaitingTo'[d] = W /\ BatchedTo'[d] = B /\ sent'[d] = s
    BY <1>5 DEF Flow!Refuse, Flow!Arrive
  <2> QED
    BY <1>0, <2>1, LaneGrows, Zenon
<1>6. ASSUME NEW lost, Flow!Lose(lost) PROVE Lane(arrived', WaitingTo'[d], BatchedTo'[d], sent'[d])
  <2>1. arrived' = arrived /\ WaitingTo'[d] = W \ lost /\ BatchedTo'[d] = B \ lost /\ sent'[d] = s
    BY <1>6 DEF Flow!Lose
  <2>2. Lane(arrived, W \ lost, B \ lost, s)
    BY <1>0, LaneShrinks
  <2> QED
    BY <2>1, <2>2
<1>7. ASSUME NEW c \in NodeId, Flow!Accept(c) PROVE Lane(arrived', WaitingTo'[d], BatchedTo'[d], sent'[d])
  <2>1. /\ arrived' = arrived + 1 /\ BatchedTo'[d] = B /\ sent'[d] = s
        /\ WaitingTo'[d] = IF c = d THEN W \cup {arrived + 1} ELSE W
    BY <1>1, <1>7 DEF Flow!Accept, Flow!Arrive
  <2>2. Lane(arrived + 1, W, B, s) /\ Lane(arrived + 1, W \cup {arrived + 1}, B, s)
    BY <1>0, LaneGrows, Zenon
  <2> QED
    BY <2>1, <2>2
<1>8. ASSUME NEW c \in NodeId, NEW n \in Flow!Number, Flow!Batch(c, n)
      PROVE  Lane(arrived', WaitingTo'[d], BatchedTo'[d], sent'[d])
  <2>1. /\ arrived' = arrived /\ sent'[d] = s
        /\ WaitingTo'[d] = (IF c = d THEN W \ {n} ELSE W)
        /\ BatchedTo'[d] = (IF c = d THEN B \cup {n} ELSE B)
        /\ c = d => n \in W /\ \A m \in W : n <= m
    BY <1>1, <1>8 DEF Flow!Batch, Flow!Oldest
  <2>2. c = d => Lane(arrived, W \ {n}, B \cup {n}, s)
    BY <1>0, <2>1, LaneBatches
  <2> QED
    BY <1>0, <2>1, <2>2
<1>9. W \subseteq Nat /\ B \subseteq Nat /\ Below(B, W)
  BY <1>0 DEF Lane
<1>10. ASSUME NEW c \in NodeId, NEW n \in Flow!Number, Flow!DeliverDirect(c, n)
       PROVE  Lane(arrived', WaitingTo'[d], BatchedTo'[d], sent'[d])
  <2>1. /\ arrived' = arrived /\ BatchedTo'[d] = B
        /\ WaitingTo'[d] = (IF c = d THEN W \ {n} ELSE W)
        /\ c = d => n \in W /\ \A m \in W : n <= m
    BY <1>1, <1>10 DEF Flow!DeliverDirect, Flow!Oldest
  <2>2. sent'[d] = IF c = d THEN Append(s, [n |-> n, via |-> "wss"]) ELSE s
    BY <1>2, <1>10 DEF Flow!DeliverDirect
  <2>3. ASSUME c = d PROVE Lane(arrived, W \ {n}, B, Append(s, [n |-> n, via |-> "wss"]))
    <3>1. n \in W /\ Below({n}, W \ {n})
      BY <1>9, <2>1, <2>3, OldestFirst
    <3>2. [n |-> n, via |-> "wss"] \in Entry
      BY <1>3, Zenon
    <3> QED
      BY <1>0, <3>1, <3>2, LaneDelivers, Zenon
  <2> QED
    BY <1>0, <2>1, <2>2, <2>3
<1>11. ASSUME NEW c \in NodeId, NEW n \in Flow!Number, Flow!DeliverBatched(c, n)
       PROVE  Lane(arrived', WaitingTo'[d], BatchedTo'[d], sent'[d])
  <2>1. /\ arrived' = arrived /\ WaitingTo'[d] = W
        /\ BatchedTo'[d] = (IF c = d THEN B \ {n} ELSE B)
        /\ c = d => n \in B /\ \A m \in B : n <= m
    BY ONLY <1>1, <1>11 DEF Flow!DeliverBatched, Flow!Oldest
  <2>2. sent'[d] = IF c = d THEN Append(s, [n |-> n, via |-> "udp"]) ELSE s
    BY <1>2, <1>11 DEF Flow!DeliverBatched
  <2>3. ASSUME c = d PROVE Lane(arrived, W, B \ {n}, Append(s, [n |-> n, via |-> "udp"]))
    <3>1. n \in B /\ Below({n}, B \ {n})
      BY <1>9, <2>1, <2>3, OldestFirst
    <3>2. Below({n}, W)
      BY <1>9, <3>1 DEF Below
    <3>3. [n |-> n, via |-> "udp"] \in Entry
      BY <1>3, Zenon
    <3> QED
      BY <1>0, <3>1, <3>2, <3>3, LaneDelivers, Zenon
  <2> QED
    BY <1>0, <2>1, <2>2, <2>3
<1> QED
  BY <1>4, <1>5, <1>6, <1>7, <1>8, <1>10, <1>11, Zenon DEF Flow!Next

(* The pipeline implements the channel of FlowChannel: seen from any one    *)
(* destination, dispatchRelay, the queues, relayWorkerLoop, its flushes and *)
(* its panics do nothing but accept, batch, deliver oldest first and lose.  *)
THEOREM FlowsAreChannels == Spec => RefinesFlowChannel
<1>1. Spec => Flow!Init /\ [][Flow!Next]_(Flow!channel)
  BY FlowInit, FlowStep, PacketInit, PacketStep, PTL DEF Spec
<1> QED
  BY <1>1 DEF RefinesFlowChannel, Flow!Spec

(* Packets to one destination that leave over one transport leave in the    *)
(* order they arrived.  This is a property of the channel, so it holds of   *)
(* the pipeline that implements it.                                         *)
THEOREM FlowsKeepOrder == Spec => []FlowOrderPerTransport
<1>2. Spec => []TypeInv /\ [][Flow!Next]_(Flow!channel)
  BY FlowStep, PacketInit, PacketStep, TypeInit, TypeStep, PTL DEF Spec
<1>3. LaneInv => FlowOrderPerTransport
  BY Zenon DEF LaneInv, Lane, FlowOrderPerTransport
<1> QED
  BY <1>2, <1>3, LaneInit, LaneStep, PTL DEF Spec

-----------------------------------------------------------------------------
(* How far a WSS write overtakes.  The numbers of the packets that left     *)
(* after the k-th one of s although they arrived before it, ...             *)
Passes(s, k) == {s[l].n : l \in {i \in DOMAIN s : i > k /\ s[i].n < s[k].n}}

(* ... and with them those that still may, since they are in the batch B.   *)
Risk(s, B, k) == Passes(s, k) \cup {m \in B : m < s[k].n}

(* No packet to a destination leaves ahead of a batch of earlier ones: a    *)
(* WSS write of relayWorkerLoop passes what is in msgs, and msgs is flushed *)
(* when it is full.                                                         *)
OvertakesFew ==
  \A d \in NodeId : \A k \in DOMAIN sent[d] : Cardinality(Passes(sent[d], k)) < BatchCap

(* What was sent to a destination that is never on WSS is in the order of   *)
(* arrival, the order that relayQueueFor keeps by choosing one worker.      *)
UdpFlowOrder ==
  \A d \in NodeId \ WssNodes : \A i, k \in DOMAIN sent[d] : i < k => sent[d][i].n < sent[d][k].n

Few(S) == Cardinality(S) < BatchCap

FewLaws ==
  /\ Few({})
  /\ \A S \in SUBSET Packet : \A T \in SUBSET S : Few(S) => Few(T)
  /\ \A s \in Seq(Msg) : \A d : Len(s) < BatchCap => Few(NumbersTo(s, d))

LEMMA RiskShrinks ==
  ASSUME NEW s, NEW k, NEW B, NEW B2, \A m \in B2 : m < s[k].n => m \in B
  PROVE  Risk(s, B2, k) \subseteq Risk(s, B, k)
  BY DEF Risk

LEMMA RiskDelivers ==
  ASSUME NEW s \in Seq(Entry), NEW e \in Entry, NEW B, NEW B2, B2 \subseteq B
  PROVE  /\ \A k \in DOMAIN s : (e.n < s[k].n => e.n \in B) =>
              Risk(Append(s, e), B2, k) \subseteq Risk(s, B, k)
         /\ Risk(Append(s, e), B2, Len(s) + 1) \subseteq {m \in B2 : m < e.n}
<1> DEFINE t == Append(s, e)
           z == Len(s) + 1
<1>1. /\ DOMAIN t = DOMAIN s \cup {z} /\ z \notin DOMAIN s
      /\ \A i \in DOMAIN s : t[i] = s[i]
      /\ t[z] = e /\ \A i \in DOMAIN t : ~ i > z
  BY AppendFacts
<1> HIDE DEF t, z
<1>2. ASSUME NEW k \in DOMAIN s, e.n < s[k].n => e.n \in B PROVE Risk(t, B2, k) \subseteq Risk(s, B, k)
  <2>1. \A i \in DOMAIN t : i > k /\ t[i].n < t[k].n => t[i].n \in Risk(s, B, k)
    BY <1>1, <1>2 DEF Risk, Passes
  <2>2. \A m \in B2 : m < t[k].n => m \in Risk(s, B, k)
    BY <1>1, <1>2 DEF Risk
  <2> QED
    BY <2>1, <2>2 DEF Risk, Passes
<1>3. Risk(t, B2, z) \subseteq {m \in B2 : m < e.n}
  BY <1>1 DEF Risk, Passes
<1> QED
  BY <1>2, <1>3 DEF t, z

(* A WSS write happens between two flushes, when the batch has room.        *)
LEMMA DirectRoom ==
  ASSUME PacketInv, [Next]_vars, NEW d \in NodeId, NEW n, Flow!DeliverDirect(d, n)
  PROVE  \E w \in Worker : BatchedTo[d] = NumbersTo(msgs[w], d) /\ Len(msgs[w]) < BatchCap
<1> DEFINE e == [n |-> n, via |-> "wss"]
<1>0. /\ TypeInv /\ SharedOK /\ sent \in [NodeId -> Seq(Entry)]
  BY DEF PacketInv, TypeInv, SharedOK
<1>1. sent'[d] = Append(sent[d], e) /\ e.via = "wss"
  BY <1>0 DEF Flow!DeliverDirect, Flow!Deliver
<1>2. /\ sent[d] \in Seq(Entry) /\ Len(sent'[d]) = Len(sent[d]) + 1 /\ Len(sent[d]) \in Nat
      /\ sent'[d][Len(sent[d]) + 1] = e
  BY <1>0, <1>1
<1>3. sent' # sent
  BY <1>2
<1>4. PICK w \in Worker : Effect(w)
  <2>1. ASSUME NEW w \in Worker, TimerFires(w) PROVE sent' = sent
    BY <2>1 DEF TimerFires
  <2>2. CASE RouteChange \/ Close \/ UNCHANGED vars
    BY <2>2, <1>3 DEF RouteChange, Close, others, vars
  <2>3. dispatchRelay \/ CloseCompatWSS => sent' = sent
    BY ReaderEffects, Zenon DEF others, Accepts, Declines
  <2> QED
    BY <1>0, <1>3, <2>1, <2>2, <2>3, Effects DEF Next
<1>5. CASE Writes(w)
  <2>1. /\ job[w] \in Job /\ Departs(job[w].n, job[w].dest, "wss")
    BY <1>5, Zenon DEF Writes
  <2>2. job[w].dest = d
    BY <1>0, <1>2, <2>1 DEF Departs
  <2>3. relayQueueFor(d) = w
    BY <2>1, <2>2, JobFacts, Zenon DEF PacketInv, OrderInv, Ordered
  <2>4. BatchedTo[d] = NumbersTo(msgs[w], d)
    BY <2>3, OneWorker DEF Places
  <2>5. Len(msgs[w]) < BatchCap
    BY <1>0, <2>1, JobFacts, WorkerTypes, Zenon DEF TypeInv, Holding
  <2> QED
    BY <2>4, <2>5
<1>6. CASE Sends(w)
  <2> DEFINE h == Head(msgs[w])
             f == [n |-> h.n, via |-> "udp"]
  <2>1. msgs[w] # <<>> /\ sent' = [sent EXCEPT ![h.dest] = Append(sent[h.dest], f)] /\ f.via = "udp"
    BY <1>6 DEF Sends, Sent
  <2> HIDE DEF h, f, e
  <2>2. h.dest = d
    BY <1>0, <1>2, <2>1
  <2>3. sent'[d] = Append(sent[d], f)
    BY <1>0, <2>1, <2>2
  <2>4. Append(sent[d], f)[Len(sent[d]) + 1] = f
    BY <1>2
  <2> QED
    BY <1>1, <1>2, <2>1, <2>3, <2>4, Zenon
<1> QED
  BY <1>3, <1>4, <1>5, <1>6, Zenon
     DEF Effect, Keeps, Takes, Batches, Misses, Panics, Fails, Counts

RiskInv == \A d \in NodeId : \A k \in DOMAIN sent[d] : Few(Risk(sent[d], BatchedTo[d], k))

LEMMA RiskTypes ==
  ASSUME PacketInv, NEW d \in NodeId
  PROVE  /\ sent[d] \in Seq(Entry) /\ BatchedTo[d] \subseteq Packet
         /\ \A k : Risk(sent[d], BatchedTo[d], k) \subseteq Packet
<1>1. sent[d] \in Seq(Entry)
  BY DEF PacketInv, TypeInv, SharedOK
<1>2. ASSUME NEW l \in DOMAIN sent[d] PROVE sent[d][l].n \in Packet
  <2>1. sent[d][l] \in Entry
    BY <1>1
  <2> QED
    BY <2>1 DEF Entry
<1>3. BatchedTo[d] \subseteq Packet
  <2>1. BatchedTo[d] = UNION {NumbersTo(msgs[v], d) : v \in Worker}
    BY Zenon DEF BatchedTo
  <2>2. ASSUME NEW v \in Worker PROVE NumbersTo(msgs[v], d) \subseteq Packet
    <3>1. msgs[v] \in Seq(Msg)
      BY WorkerTypes DEF PacketInv, TypeInv
    <3> QED
      BY ONLY <3>1, MsgTypes DEF NumbersTo
  <2> QED
    BY <2>1, <2>2
<1> QED
  BY <1>1, <1>2, <1>3 DEF Risk, Passes

LEMMA NotBelow == \A a, b \in Nat : a < b => ~ b < a
  OBVIOUS

LEMMA RiskStep ==
  ASSUME FewLaws, PacketInv, LaneInv, RiskInv, [Next]_vars, [Flow!Next]_(Flow!channel)
  PROVE  RiskInv'
<1> SUFFICES ASSUME NEW d \in NodeId
             PROVE  \A k \in DOMAIN sent'[d] : Few(Risk(sent'[d], BatchedTo'[d], k))
  BY Zenon DEF RiskInv
<1> DEFINE W == WaitingTo[d]
           B == BatchedTo[d]
           s == sent[d]
           R(k) == Risk(s, B, k)
<1>0. /\ sent \in [NodeId -> Seq(Entry)] /\ s \in Seq(Entry) /\ Lane(arrived, W, B, s)
      /\ \A k : R(k) \subseteq Packet
      /\ \A k \in DOMAIN s : Few(R(k))
      /\ DOMAIN WaitingTo = NodeId /\ DOMAIN BatchedTo = NodeId
  BY RiskTypes, Zenon DEF PacketInv, TypeInv, SharedOK, LaneInv, RiskInv, WaitingTo, BatchedTo
<1>1. ASSUME NEW k \in DOMAIN s, NEW T, T \subseteq R(k) PROVE Few(T)
  <2> HIDE DEF R
  <2> QED
    BY <1>0, <1>1 DEF FewLaws
<1>2. ASSUME sent'[d] = s, \A k \in DOMAIN s : \A m \in BatchedTo'[d] : m < s[k].n => m \in B
      PROVE  \A k \in DOMAIN sent'[d] : Few(Risk(sent'[d], BatchedTo'[d], k))
  BY <1>1, <1>2, RiskShrinks
<1>3. ASSUME NEW e \in Entry, sent'[d] = Append(s, e), BatchedTo'[d] \subseteq B,
             \A k \in DOMAIN s : e.n < s[k].n => e.n \in B,
             Few({m \in BatchedTo'[d] : m < e.n}), {m \in BatchedTo'[d] : m < e.n} \subseteq Packet
      PROVE  \A k \in DOMAIN sent'[d] : Few(Risk(sent'[d], BatchedTo'[d], k))
  <2>1. DOMAIN sent'[d] = DOMAIN s \cup {Len(s) + 1}
    BY <1>0, <1>3, AppendFacts
  <2>2. /\ \A k \in DOMAIN s : Risk(sent'[d], BatchedTo'[d], k) \subseteq R(k)
        /\ Risk(sent'[d], BatchedTo'[d], Len(s) + 1) \subseteq {m \in BatchedTo'[d] : m < e.n}
    BY <1>0, <1>3, RiskDelivers, Zenon
  <2>3. Few(Risk(sent'[d], BatchedTo'[d], Len(s) + 1))
    BY <1>3, <2>2 DEF FewLaws
  <2> QED
    BY <1>1, <2>1, <2>2, <2>3, Zenon
<1>4. ASSUME NEW c \in NodeId, NEW n, NEW via, Flow!Deliver(c, n, via)
      PROVE  sent'[d] = IF c = d THEN Append(s, [n |-> n, via |-> via]) ELSE s
  BY <1>0, <1>4, Zenon DEF Flow!Deliver
<1>5. \A n \in Flow!Number, v \in {"udp", "wss"} : [n |-> n, via |-> v] \in Entry
  BY DEF Flow!Number, Entry, Packet
<1>6. /\ \A k \in DOMAIN s : s[k].n \in Nat /\ Below({s[k].n}, W)
      /\ B \subseteq Nat /\ W \subseteq Nat /\ B \subseteq Packet
  BY <1>0, RiskTypes, Zenon DEF Lane
<1>7. CASE UNCHANGED Flow!channel \/ Flow!Refuse
  BY ONLY <1>2, <1>7, Zenon DEF Flow!channel, Flow!Refuse
<1>8. ASSUME NEW lost, Flow!Lose(lost)
      PROVE  sent'[d] = s /\ BatchedTo'[d] \subseteq B
  BY <1>8 DEF Flow!Lose
<1>9. ASSUME NEW c \in NodeId, Flow!Accept(c) PROVE sent'[d] = s /\ BatchedTo'[d] = B
  BY <1>9 DEF Flow!Accept
<1>10. ASSUME NEW c \in NodeId, NEW n \in Flow!Number, Flow!Batch(c, n)
       PROVE  sent'[d] = s /\ \A k \in DOMAIN s : \A m \in BatchedTo'[d] : m < s[k].n => m \in B
  <2>1. /\ sent'[d] = s /\ BatchedTo'[d] = (IF c = d THEN B \cup {n} ELSE B)
        /\ c = d => n \in W
    BY <1>0, <1>10, Zenon DEF Flow!Batch, Flow!Oldest
  <2>2. c = d => n \in Nat /\ \A k \in DOMAIN s : s[k].n < n
    BY <1>6, <2>1 DEF Below
  <2>3. c = d => \A k \in DOMAIN s : ~ n < s[k].n
    BY <1>6, <2>2, NotBelow, Zenon
  <2> QED
    BY <2>1, <2>3
<1>11. ASSUME NEW c \in NodeId, NEW n \in Flow!Number, Flow!DeliverDirect(c, n)
       PROVE  \A k \in DOMAIN sent'[d] : Few(Risk(sent'[d], BatchedTo'[d], k))
  <2> DEFINE e == [n |-> n, via |-> "wss"]
  <2>1. /\ BatchedTo'[d] = B /\ (c = d => n \in W)
        /\ sent'[d] = (IF c = d THEN Append(s, e) ELSE s) /\ e \in Entry /\ e.n = n
    BY <1>4, <1>5, <1>11, Zenon DEF Flow!DeliverDirect, Flow!Oldest
  <2> HIDE DEF e
  <2>2. CASE c # d
    BY <1>2, <2>1, <2>2, Zenon
  <2>3. CASE c = d
    <3>1. n \in Nat /\ \A k \in DOMAIN s : s[k].n < n
      BY <1>6, <2>1, <2>3 DEF Below
    <3>2. \A k \in DOMAIN s : ~ e.n < s[k].n
      BY <1>6, <2>1, <3>1, NotBelow, Zenon
    <3>3. Few(B)
      <4>1. PICK w \in Worker : B = NumbersTo(msgs[w], d) /\ Len(msgs[w]) < BatchCap
        BY <1>11, <2>3, DirectRoom, Zenon
      <4>2. msgs[w] \in Seq(Msg)
        BY WorkerTypes, Zenon DEF PacketInv, TypeInv
      <4> QED
        BY <4>1, <4>2 DEF FewLaws
    <3> DEFINE T == {m \in BatchedTo'[d] : m < e.n}
    <3>4. T \subseteq B /\ T \subseteq Packet
      BY <1>6, <2>1
    <3> HIDE DEF T
    <3>5. Few(T)
      BY <1>6, <3>3, <3>4 DEF FewLaws
    <3> QED
      BY <1>3, <2>1, <2>3, <3>2, <3>4, <3>5 DEF T
  <2> QED
    BY <2>2, <2>3
<1>12. ASSUME NEW c \in NodeId, NEW n \in Flow!Number, Flow!DeliverBatched(c, n)
       PROVE  \A k \in DOMAIN sent'[d] : Few(Risk(sent'[d], BatchedTo'[d], k))
  <2> DEFINE e == [n |-> n, via |-> "udp"]
  <2>1. /\ BatchedTo'[d] = (IF c = d THEN B \ {n} ELSE B)
        /\ c = d => n \in B /\ \A m \in B : n <= m
        /\ sent'[d] = (IF c = d THEN Append(s, e) ELSE s) /\ e \in Entry /\ e.n = n
    BY <1>0, <1>4, <1>5, <1>12, Zenon DEF Flow!DeliverBatched, Flow!Oldest
  <2> HIDE DEF e
  <2>2. CASE c # d
    BY <1>2, <2>1, <2>2
  <2>3. CASE c = d
    <3>1. {m \in BatchedTo'[d] : m < e.n} = {}
      BY <1>6, <2>1, <2>3
    <3>2. Few({m \in BatchedTo'[d] : m < e.n}) /\ {m \in BatchedTo'[d] : m < e.n} \subseteq Packet
      BY ONLY <3>1, FewLaws DEF FewLaws
    <3> QED
      BY <1>3, <2>1, <2>3, <3>2, Zenon
  <2> QED
    BY <2>2, <2>3
<1> QED
  BY <1>2, <1>7, <1>8, <1>9, <1>10, <1>11, <1>12, Zenon DEF Flow!Next

LEMMA RiskedFew == FewLaws /\ PacketInv /\ RiskInv => OvertakesFew
<1> SUFFICES ASSUME FewLaws, PacketInv, RiskInv, NEW d \in NodeId, NEW k \in DOMAIN sent[d]
             PROVE  Few(Passes(sent[d], k))
  BY DEF OvertakesFew, Few
<1> DEFINE R == Risk(sent[d], BatchedTo[d], k)
<1>1. R \subseteq Packet /\ Few(R) /\ Passes(sent[d], k) \subseteq R
  BY RiskTypes, Zenon DEF RiskInv, Risk
<1> HIDE DEF R
<1> QED
  BY <1>1 DEF FewLaws

UdpOnly == \A d \in NodeId \ WssNodes : \A k \in DOMAIN sent[d] : sent[d][k].via = "udp"

LEMMA UdpOnlyStep == TypeInv /\ UdpOnly /\ [Flow!Next]_(Flow!channel) => UdpOnly'
<1> SUFFICES ASSUME TypeInv, UdpOnly, [Flow!Next]_(Flow!channel), NEW d \in NodeId \ WssNodes
             PROVE  \A k \in DOMAIN sent'[d] : sent'[d][k].via = "udp"
  BY Zenon DEF UdpOnly
<1>1. /\ sent \in [NodeId -> Seq(Entry)] /\ sent[d] \in Seq(Entry)
      /\ \A k \in DOMAIN sent[d] : sent[d][k].via = "udp"
  BY DEF TypeInv, SharedOK, UdpOnly
<1>2. ASSUME sent'[d] = sent[d] PROVE \A k \in DOMAIN sent'[d] : sent'[d][k].via = "udp"
  BY ONLY <1>1, <1>2, Zenon
<1>3. ASSUME NEW c \in NodeId, NEW n \in Flow!Number, Flow!DeliverDirect(c, n) PROVE sent'[d] = sent[d]
  BY ONLY <1>1, <1>3, Zenon DEF Flow!DeliverDirect, Flow!Deliver
<1>4. ASSUME NEW c \in NodeId, NEW n \in Flow!Number, Flow!DeliverBatched(c, n)
      PROVE  \A k \in DOMAIN sent'[d] : sent'[d][k].via = "udp"
  <2> DEFINE e == [n |-> n, via |-> "udp"]
  <2>1. /\ sent'[d] = (IF c = d THEN Append(sent[d], e) ELSE sent[d]) /\ e \in Entry /\ e.via = "udp"
    BY <1>1, <1>4 DEF Flow!DeliverBatched, Flow!Deliver, Flow!Number, Entry, Packet
  <2> HIDE DEF e
  <2> QED
    BY <1>1, <2>1, AppendFacts
<1>5. ASSUME UNCHANGED sent PROVE sent'[d] = sent[d]
  BY <1>5
<1>6. CASE UNCHANGED Flow!channel \/ Flow!Refuse
  BY <1>2, <1>6 DEF Flow!channel, Flow!Refuse
<1>7. ASSUME NEW c \in NodeId, NEW n \in Flow!Number, Flow!Batch(c, n) PROVE sent' = sent
  BY <1>7 DEF Flow!Batch
<1>8. ASSUME NEW c \in NodeId, Flow!Accept(c) PROVE sent' = sent
  BY <1>8 DEF Flow!Accept
<1>9. ASSUME NEW lost, Flow!Lose(lost) PROVE sent' = sent
  BY <1>9 DEF Flow!Lose
<1> QED
  BY <1>2, <1>3, <1>4, <1>5, <1>6, <1>7, <1>8, <1>9, Zenon DEF Flow!Next

(* The packets to a destination that does not connect over WSS all leave in *)
(* the order they arrived, as relayQueueFor promises of every flow.         *)
THEOREM UdpFlowsAreFifo == Spec => []UdpFlowOrder
<1>1. Init => UdpOnly
  BY DEF Init, UdpOnly
<1>2. Spec => []TypeInv /\ [][Flow!Next]_(Flow!channel)
  BY FlowStep, PacketInit, PacketStep, TypeInit, TypeStep, PTL DEF Spec
<1>3. FlowOrderPerTransport /\ UdpOnly => UdpFlowOrder
  BY Zenon DEF FlowOrderPerTransport, UdpOnly, UdpFlowOrder
<1> QED
  BY <1>1, <1>2, <1>3, UdpOnlyStep, FlowsKeepOrder, PTL DEF Spec

-----------------------------------------------------------------------------
(* Sizes.  FiniteSetTheorems has its own instance of FiniteSets; SizeOf is  *)
(* the definition of Cardinality that both share.                           *)
SizeOf(S) ==
  LET CS[T \in SUBSET S] == IF T = {} THEN 0 ELSE 1 + CS[T \ {CHOOSE x : x \in T}]
  IN  CS[S]

LEMMA CardinalityIs == \A S : Cardinality(S) = SizeOf(S)
  BY DEF Cardinality, SizeOf

LEMMA FewIs == \A S : Few(S) <=> SizeOf(S) < BatchCap
  BY DEF Few, Cardinality, SizeOf

LOCAL INSTANCE FiniteSetTheorems

LEMMA Counting == CountingLaws
<1>1. \A S : Cardinality(S) = SizeOf(S)
  BY Zenon DEF Cardinality, SizeOf
<1>2. \A T \in SUBSET Packet : IsFiniteSet(T) /\ Cardinality(T) \in Nat
  <2>1. IsFiniteSet(Packet)
    BY RelayAssumption, FS_Interval DEF Packet
  <2> QED
    BY <2>1, FS_Subset, FS_CardinalityType
<1>3. Cardinality({}) = 0
  BY FS_EmptySet
<1>4. ASSUME NEW S \in SUBSET Packet, NEW n, n \notin S
      PROVE  SizeOf(S \cup {n}) = SizeOf(S) + 1
  <2>1. Cardinality(S \cup {n}) = Cardinality(S) + 1
    BY <1>2, <1>4, FS_AddElement
  <2> QED
    BY ONLY <1>1, <2>1
<1>5. ASSUME NEW S \in SUBSET Packet, NEW T \in SUBSET Packet, S \cap T = {}
      PROVE  SizeOf(S \cup T) = SizeOf(S) + SizeOf(T)
  <2>1. Cardinality(S \cup T) = Cardinality(S) + Cardinality(T) - Cardinality(S \cap T)
    BY <1>2, FS_Union
  <2>2. Cardinality(S \cap T) = 0
    BY ONLY <1>3, <1>5
  <2>3. Cardinality(S) \in Nat /\ Cardinality(T) \in Nat
    BY <1>2
  <2>4. Cardinality(S \cup T) = Cardinality(S) + Cardinality(T)
    BY ONLY <2>1, <2>2, <2>3
  <2> QED
    BY ONLY <1>1, <2>4
<1>6. SizeOf({}) = 0 /\ \A S \in SUBSET Packet : SizeOf(S) \in Nat
  BY ONLY <1>1, <1>2, <1>3
<1> QED
  BY <1>4, <1>5, <1>6, CardinalityIs DEF CountingLaws

(* Every packet that dispatchRelay accepted is with exactly one worker until *)
(* its fate is decided, nothing is sent twice, and relayForwarded (with what *)
(* running flushes still have to add), relayDropped and relayNotFound count  *)
(* exactly the packets they are named for, whatever panics, failed sends and *)
(* routing changes happen on the way.                                        *)
THEOREM CountersAreExact == Spec => []Accounting
<1> DEFINE Inv == PacketInv /\ Custody /\ Departed /\ Tallied
<1>1. Init => Inv
  BY PacketInit, CustodyInit, TallyInit, Counting
<1>2. Inv /\ [Next]_vars => Inv'
  BY PacketStep, BooksStep, DepartedStep, TalliedStep, Counting DEF PacketInv
<1> QED
  BY <1>1, <1>2, Accounted, PTL DEF Spec

LEMMA FewCounting == FewLaws
<1>1. \A S : Cardinality(S) = SizeOf(S)
  BY Zenon DEF Cardinality, SizeOf
<1>2. BatchCap \in Nat \ {0} /\ IsFiniteSet(Packet)
  BY RelayAssumption, FS_Interval DEF Packet
<1>3. ASSUME NEW S \in SUBSET Packet, NEW T \in SUBSET S, SizeOf(S) < BatchCap
      PROVE  SizeOf(T) < BatchCap
  <2>1. IsFiniteSet(S) /\ IsFiniteSet(T)
    BY <1>2, FS_Subset
  <2>2. Cardinality(T) <= Cardinality(S)
    BY <2>1, FS_Subset
  <2>3. Cardinality(S) \in Nat /\ Cardinality(T) \in Nat
    BY <2>1, FS_CardinalityType
  <2>4. Cardinality(S) < BatchCap
    BY ONLY <1>1, <1>3
  <2>5. Cardinality(T) < BatchCap
    BY ONLY <1>2, <2>2, <2>3, <2>4
  <2> QED
    BY ONLY <1>1, <2>5
<1>4. ASSUME NEW s \in Seq(Msg), NEW d, Len(s) < BatchCap
      PROVE  SizeOf(NumbersTo(s, d)) < BatchCap
  <2> DEFINE J == 1 .. Len(s)
             I == {k \in J : s[k].dest = d}
             T == NumbersTo(s, d)
             f == [i \in I |-> s[i].n]
  <2>1. Len(s) \in Nat /\ 1 \in Int /\ Len(s) \in Int
    OBVIOUS
  <2>2. f \in Surjection(I, T)
    BY DEF NumbersTo, Surjection
  <2>3. IsFiniteSet(J) /\ Cardinality(J) = IF 1 > Len(s) THEN 0 ELSE Len(s) - 1 + 1
    BY ONLY <2>1, FS_Interval
  <2>4. I \subseteq J
    OBVIOUS
  <2> HIDE DEF I, J, T, f
  <2>5. Cardinality(J) = Len(s)
    BY ONLY <2>1, <2>3
  <2>6. IsFiniteSet(I) /\ Cardinality(I) <= Cardinality(J)
    BY ONLY <2>3, <2>4, FS_Subset
  <2>7. IsFiniteSet(T) /\ Cardinality(T) <= Cardinality(I)
    BY ONLY <2>2, <2>6, FS_Surjection, Zenon
  <2>8. Cardinality(T) \in Nat /\ Cardinality(I) \in Nat
    BY ONLY <2>6, <2>7, FS_CardinalityType
  <2>9. Cardinality(T) < BatchCap
    BY ONLY <1>2, <1>4, <2>1, <2>5, <2>6, <2>7, <2>8
  <2> QED
    BY ONLY <1>1, <2>9 DEF T
<1>5. SizeOf({}) < BatchCap
  <2>1. Cardinality({}) = 0
    BY FS_EmptySet
  <2> QED
    BY <1>1, <1>2, <2>1
<1> QED
  BY <1>3, <1>4, <1>5, FewIs, Zenon DEF FewLaws

(* Where a WSS write of relayWorkerLoop does break the order of a flow, it  *)
(* overtakes fewer packets than a batch holds.                              *)
THEOREM OvertakingIsBounded == Spec => []OvertakesFew
<1>1. Init => LaneInv /\ RiskInv
  BY LaneInit DEF Init, RiskInv
<1>2. PacketInv /\ LaneInv /\ RiskInv /\ [Next]_vars /\ PacketInv' => LaneInv' /\ RiskInv'
  BY FlowStep, LaneStep, RiskStep, FewCounting DEF PacketInv
<1>3. PacketInv /\ RiskInv => OvertakesFew
  BY FewCounting, RiskedFew
<1> QED
  BY <1>1, <1>2, <1>3, PacketInit, PacketStep, PTL DEF Spec
=============================================================================
