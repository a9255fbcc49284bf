------------------------ MODULE Registration_proofs -------------------------
(***************************************************************************)
(* For every set of node ids and readers, every shard count and cap, and   *)
(* all intervals with Heartbeat + MinInterval <= NodeTTL + 1.              *)
(***************************************************************************)
EXTENDS Registration, FiniteSetTheorems, TLAPS

-----------------------------------------------------------------------------
(* What the operations of nodeMap do. *)

LEMMA UpsertInserts ==
  ASSUME NEW m \in NodeTable, NEW id \in NodeId, NEW a \in Addr, NEW now \in Nat,
         ~ AtCapacity(m, id)
  PROVE  /\ Upsert(m, id, a, now) \in NodeTable
         /\ Has(Upsert(m, id, a, now), id)
         /\ Upsert(m, id, a, now)[id].lastSeen = now
         /\ \A k \in NodeId \ {id} : Upsert(m, id, a, now)[k] = m[k]
<1> USE NodeMapAssumption
<1>1. CASE Has(m, id)
  <2> DEFINE e == [m[id] EXCEPT !.addr = a, !.lastSeen = now]
  <2>1. e \in Entry /\ e.lastSeen = now
    BY <1>1, Zenon DEF Has, NodeTable, Entry
  <2>2. Upsert(m, id, a, now) = [m EXCEPT ![id] = e]
    BY <1>1 DEF Upsert
  <2> HIDE DEF e
  <2> QED
    BY <2>1, <2>2 DEF NodeTable, Has
<1>2. CASE ~ Has(m, id)
  <2> DEFINE e == [addr |-> a, lastSeen |-> now, lastNotify |-> Never]
  <2>1. e \in Entry /\ e.lastSeen = now
    BY DEF Entry
  <2>2. Upsert(m, id, a, now) = [m EXCEPT ![id] = e]
    BY <1>2 DEF Upsert
  <2> HIDE DEF e
  <2> QED
    BY <2>1, <2>2 DEF NodeTable, Has
<1> QED
  BY <1>1, <1>2

LEMMA UpsertRefuses ==
  ASSUME NEW m, NEW id, NEW a, NEW now, AtCapacity(m, id)
  PROVE  Upsert(m, id, a, now) = m
  BY DEF Upsert, AtCapacity

LEMMA ReapShardKeeps ==
  ASSUME NEW m \in NodeTable, NEW sh, NEW t \in Int
  PROVE  /\ ReapShardStale(m, sh, t) \in NodeTable
         /\ \A id \in NodeId : Has(m, id) /\ m[id].lastSeen >= t
                                 => ReapShardStale(m, sh, t)[id] = m[id]
         /\ \A id \in NodeId : Has(ReapShardStale(m, sh, t), id) => Has(m, id)
<1>1. \A id \in NodeId : Has(m, id) => m[id].lastSeen \in Nat
  BY DEF Has, NodeTable, Entry
<1> QED
  BY <1>1 DEF ReapShardStale, NodeTable, Has

LEMMA ClaimNotifyKeeps ==
  ASSUME NEW m \in NodeTable, NEW id \in NodeId, NEW now \in Nat, Has(m, id)
  PROVE  /\ ClaimNotify(m, id, now) \in NodeTable
         /\ \A k \in NodeId : /\ Has(ClaimNotify(m, id, now), k) <=> Has(m, k)
                              /\ Has(m, k) => ClaimNotify(m, id, now)[k].lastSeen = m[k].lastSeen
<1> DEFINE e == [m[id] EXCEPT !.lastNotify = now]
<1>1. e \in Entry /\ e.lastSeen = m[id].lastSeen
  BY DEF Has, NodeTable, Entry
<1>2. ClaimNotify(m, id, now) = [m EXCEPT ![id] = e]
  BY DEF ClaimNotify
<1> HIDE DEF e
<1> QED
  BY <1>1, <1>2, NodeMapAssumption DEF NodeTable, Has

LEMMA SweepKeeps ==
  ASSUME NEW rl \in [NodeId -> Nat \cup {Never}], NEW cutoff \in Int
  PROVE  /\ SweepInterval(rl, cutoff) \in [NodeId -> Nat \cup {Never}]
         /\ \A id \in NodeId : \/ SweepInterval(rl, cutoff)[id] = rl[id]
                               \/ SweepInterval(rl, cutoff)[id] = Never /\ rl[id] < cutoff
  BY DEF SweepInterval

-----------------------------------------------------------------------------
(* The shards' caps. *)

CapOK(m) ==
  MaxTotal > 0 =>
    \A sh \in Shard : Cardinality(ShardIds(m, sh)) <= MaxTotal \div ShardCount

LEMMA ShardIdsFinite ==
  ASSUME NEW m, NEW sh
  PROVE  IsFiniteSet(ShardIds(m, sh)) /\ Cardinality(ShardIds(m, sh)) \in Nat
<1>1. ShardIds(m, sh) \subseteq NodeId
  BY DEF ShardIds, Registered
<1> QED
  BY <1>1, FS_Subset, FS_CardinalityType, NodeMapAssumption

LEMMA CapShrink ==
  ASSUME NEW m, NEW k, CapOK(m), \A id \in NodeId : Has(k, id) => Has(m, id)
  PROVE  CapOK(k)
<1> SUFFICES ASSUME MaxTotal > 0, NEW sh \in Shard
             PROVE  Cardinality(ShardIds(k, sh)) <= MaxTotal \div ShardCount
  BY DEF CapOK
<1>1. ShardIds(k, sh) \subseteq ShardIds(m, sh)
  BY DEF ShardIds, Registered
<1>2. Cardinality(ShardIds(k, sh)) <= Cardinality(ShardIds(m, sh))
  BY <1>1, ShardIdsFinite, FS_Subset
<1>3. Cardinality(ShardIds(m, sh)) <= MaxTotal \div ShardCount
  BY DEF CapOK
<1>4. MaxTotal \div ShardCount \in Int
  BY NodeMapAssumption
<1> QED
  BY <1>2, <1>3, <1>4, ShardIdsFinite

LEMMA CapUpsert ==
  ASSUME NEW m \in NodeTable, NEW id \in NodeId, NEW a \in Addr, NEW now \in Nat, CapOK(m)
  PROVE  CapOK(Upsert(m, id, a, now))
<1> DEFINE k == Upsert(m, id, a, now)
<1> SUFFICES CapOK(k)
  OBVIOUS
<1>1. CASE AtCapacity(m, id)
  BY <1>1, UpsertRefuses
<1>2. CASE ~ AtCapacity(m, id)
  <2>1. Has(k, id) /\ \A j \in NodeId \ {id} : k[j] = m[j]
    BY <1>2, UpsertInserts
  <2> HIDE DEF k
  <2>2. CASE Has(m, id)
    <3>1. \A j \in NodeId : Has(k, j) => Has(m, j)
      BY <2>1, <2>2 DEF Has
    <3> QED
      BY <3>1, CapShrink
  <2>3. CASE ~ Has(m, id)
    <3> SUFFICES ASSUME MaxTotal > 0, NEW sh \in Shard
                 PROVE  Cardinality(ShardIds(k, sh)) <= MaxTotal \div ShardCount
      BY DEF CapOK
    <3> DEFINE S == ShardIds(m, sh)
    <3>1. MaxTotal \div ShardCount \in Int
      BY NodeMapAssumption
    <3>2. CASE shardFor(id) = sh
      <4>1. ShardIds(k, sh) = S \cup {id}
        BY <2>1, <2>3, <3>2 DEF ShardIds, Registered, Has
      <4>2. id \notin S
        BY <2>3 DEF ShardIds, Registered
      <4>3. IsFiniteSet(S) /\ Cardinality(S) \in Nat
        BY ShardIdsFinite
      <4>4. Cardinality(ShardIds(k, sh)) = Cardinality(S) + 1
        BY <4>1, <4>2, <4>3, FS_AddElement, Zenon
      <4>5. ~ (Cardinality(S) >= MaxTotal \div ShardCount)
        BY <1>2, <2>3, <3>2 DEF AtCapacity
      <4> HIDE DEF S
      <4> QED
        BY <3>1, <4>3, <4>4, <4>5
    <3>3. CASE shardFor(id) # sh
      <4>1. ShardIds(k, sh) = S
        BY <2>1, <3>3 DEF ShardIds, Registered, Has
      <4> QED
        BY <4>1 DEF CapOK
    <3> QED
      BY <3>2, <3>3
  <2> QED
    BY <2>2, <2>3
<1> QED
  BY <1>1, <1>2

-----------------------------------------------------------------------------
(* Typing. *)

Steps == {"pubkey", "limit", "upsert", "reply"}

LEMMA TaskType ==
  ASSUME TypeOK, NEW r \in Reader, task[r] # Idle
  PROVE  /\ task[r].step \in Steps /\ task[r].id \in NodeId
         /\ task[r].addr \in Addr /\ task[r].key \in Key \cup {NoKey}
  BY DEF TypeOK, Discover, Steps

LEMMA BusyReader ==
  ASSUME NEW r \in Reader, NEW s \in Steps, At(r, s)
  PROVE  task[r] # Idle
  BY DEF At, Idle, Steps

(* Goto changes a busy reader's step and nothing else.                      *)
LEMMA GotoStep ==
  ASSUME TypeOK, NEW r \in Reader, task[r] # Idle, NEW s \in Steps, Goto(r, s)
  PROVE  /\ task' \in [Reader -> {Idle} \cup Discover]
         /\ task'[r].step = s /\ task'[r].id = task[r].id
         /\ \A q \in Reader \ {r} : task'[q] = task[q]
<1> DEFINE t == [task[r] EXCEPT !.step = s]
<1>1. task[r] \in Discover
  BY DEF TypeOK
<1>2. t \in Discover /\ t.step = s /\ t.id = task[r].id
  BY <1>1 DEF Discover, Steps
<1>3. task' = [task EXCEPT ![r] = t]
  BY DEF Goto
<1> HIDE DEF t
<1> QED
  BY <1>2, <1>3 DEF TypeOK

LEMMA FinishStep ==
  ASSUME TypeOK, NEW r \in Reader, Finish(r)
  PROVE  /\ task' \in [Reader -> {Idle} \cup Discover]
         /\ task'[r] = Idle
         /\ \A q \in Reader \ {r} : task'[q] = task[q]
  BY DEF TypeOK, Finish

LEMMA BeatStep ==
  ASSUME TypeOK, NEW id, Beat(id)
  PROVE  /\ beat' \in [Live -> Nat]
         /\ \A l \in Live : beat'[l] = IF l = id THEN clock ELSE beat[l]
  BY DEF TypeOK, Beat

(* The reaper's locals while it scans the shards.                           *)
LEMMA ScanType ==
  ASSUME TypeOK, reaper.step = "shards"
  PROVE  reaper \in [step : {"shards"}, threshold : Int, shard : Shard]
<1>1. reaper \in {ReaperIdle} \cup Reaping
  BY DEF TypeOK
<1> QED
  BY <1>1 DEF Reaping, ReaperIdle

LEMMA DiscoverTyping ==
  ASSUME TypeOK, NEW r \in Reader, DiscoverStep(r)
  PROVE  TypeOK'
<1> USE NodeMapAssumption, RegistrationAssumption
<1>1. ASSUME NEW id \in NodeId, NEW a \in Addr, NEW k \in Key \cup {NoKey},
             HandleDiscover(r, id, a, k)
      PROVE  TypeOK'
  <2> DEFINE t == [step |-> IF k = NoKey THEN "limit" ELSE "pubkey",
                   id |-> id, addr |-> a, key |-> k]
  <2>1. t \in Discover
    BY DEF Discover
  <2>2. task' = [task EXCEPT ![r] = t]
    BY <1>1 DEF HandleDiscover
  <2> HIDE DEF t
  <2>3. task' \in [Reader -> {Idle} \cup Discover]
    BY <2>1, <2>2 DEF TypeOK
  <2> QED
    BY <1>1, <2>3 DEF HandleDiscover, TypeOK, history
<1>2. CASE StorePubKey(r)
  <2>1. task[r] # Idle /\ Goto(r, "limit")
    BY <1>2, BusyReader DEF StorePubKey, Steps
  <2>2. task' \in [Reader -> {Idle} \cup Discover]
    BY <2>1, GotoStep, Zenon DEF Steps
  <2>3. task[r].id \in NodeId /\ task[r].key \in Key \cup {NoKey}
    BY <2>1, TaskType
  <2> QED
    BY <1>2, <2>2, <2>3, Zenon DEF StorePubKey, TypeOK, history
<1>3. CASE CheckLimit(r)
  <2>1. task[r] # Idle /\ (Goto(r, "upsert") \/ Goto(r, "reply"))
    BY <1>3, BusyReader DEF CheckLimit, Steps
  <2>2. task' \in [Reader -> {Idle} \cup Discover]
    BY <2>1, GotoStep, Zenon DEF Steps
  <2>3. task[r].id \in NodeId
    BY <2>1, TaskType
  <2> QED
    BY <1>3, <2>2, <2>3 DEF CheckLimit, TypeOK
<1>4. CASE UpsertNode(r)
  <2>1. task[r] # Idle
    BY <1>4, BusyReader DEF UpsertNode, Steps
  <2>2. task[r].id \in NodeId /\ task[r].addr \in Addr
    BY <2>1, TaskType
  <2>3. nodes \in NodeTable /\ clock \in Nat
    BY DEF TypeOK
  <2>4. CASE AtCapacity(nodes, task[r].id)
    <3>1. Finish(r) /\ Beat(task[r].id) /\ UNCHANGED <<nodes, joined>>
      BY <1>4, <2>4 DEF UpsertNode
    <3> QED
      BY <1>4, <3>1, FinishStep, BeatStep DEF UpsertNode, TypeOK
  <2>5. CASE ~ AtCapacity(nodes, task[r].id)
    <3>1. /\ nodes' = Upsert(nodes, task[r].id, task[r].addr, clock)
          /\ joined' = joined \cup {task[r].id} /\ Goto(r, "reply") /\ UNCHANGED beat
      BY <1>4, <2>5 DEF UpsertNode
    <3>2. nodes' \in NodeTable
      BY <2>2, <2>3, <2>5, <3>1, UpsertInserts, Zenon
    <3>3. task' \in [Reader -> {Idle} \cup Discover]
      BY <2>1, <3>1, GotoStep, Zenon DEF Steps
    <3> QED
      BY <1>4, <2>2, <3>1, <3>2, <3>3, Zenon DEF UpsertNode, TypeOK
  <2> QED
    BY <2>4, <2>5
<1>5. CASE Reply(r)
  <2>1. Finish(r) /\ Beat(task[r].id)
    BY <1>5 DEF Reply
  <2> QED
    BY <1>5, <2>1, FinishStep, BeatStep DEF Reply, TypeOK, tables
<1> QED
  BY <1>1, <1>2, <1>3, <1>4, <1>5 DEF DiscoverStep

LEMMA ReaperTyping ==
  ASSUME TypeOK, ReapStep
  PROVE  TypeOK'
<1> USE NodeMapAssumption, RegistrationAssumption DEF Shard
<1>1. CASE ReapStart
  <2>1. reaper' \in Reaping
    BY <1>1 DEF ReapStart, Reaping, TypeOK
  <2> QED
    BY <1>1, <2>1 DEF ReapStart, TypeOK, tables, history
<1>2. CASE ReapShard
  <2>1. reaper \in [step : {"shards"}, threshold : Int, shard : Shard]
    BY <1>2, ScanType DEF ReapShard
  <2>2. nodes' \in NodeTable
    BY <1>2, <2>1, ReapShardKeeps DEF ReapShard, TypeOK
  <2>3. reaper' \in Reaping
    <3>1. CASE reaper.shard = ShardCount - 1
      BY <1>2, <3>1 DEF ReapShard, Reaping
    <3>2. CASE reaper.shard # ShardCount - 1
      <4>1. reaper' = [reaper EXCEPT !.shard = reaper.shard + 1]
        BY <1>2, <3>2 DEF ReapShard
      <4>2. reaper.shard + 1 \in Shard
        BY <2>1, <3>2
      <4> QED
        BY <2>1, <4>1, <4>2 DEF Reaping
    <3> QED
      BY <3>1, <3>2
  <2> QED
    BY <1>2, <2>2, <2>3 DEF ReapShard, TypeOK, history
<1>3. CASE ReapLimiter
  <2>1. clock - 2 * MinInterval \in Int
    BY DEF TypeOK
  <2>2. discoverRL' \in [NodeId -> Nat \cup {Never}]
    BY <1>3, <2>1, SweepKeeps DEF ReapLimiter, TypeOK
  <2>3. reaper' \in Reaping
    BY <1>3 DEF ReapLimiter, Reaping
  <2> QED
    BY <1>3, <2>2, <2>3 DEF ReapLimiter, TypeOK, history
<1>4. CASE ReapKeys
  <2>1. reaper \in [step : {"keys", "dst"}, todo : SUBSET NodeId]
    BY <1>4 DEF ReapKeys, ReapVisit, TypeOK, Reaping, ReaperIdle
  <2>2. reaper' \in Reaping
    BY <1>4, <2>1 DEF ReapKeys, ReapVisit, Reaping
  <2> QED
    BY <1>4, <2>2 DEF ReapKeys, ReapVisit, TypeOK, tables, history
<1>5. CASE ReapDst
  <2>1. reaper \in [step : {"keys", "dst"}, todo : SUBSET NodeId]
    BY <1>5 DEF ReapDst, ReapVisit, TypeOK, Reaping, ReaperIdle
  <2>2. reaper' \in Reaping \cup {ReaperIdle}
    BY <1>5, <2>1 DEF ReapDst, ReapVisit, Reaping
  <2> QED
    BY <1>5, <2>2 DEF ReapDst, ReapVisit, TypeOK, tables, history
<1>6. CASE ReapDeleteKey \/ ReapDeleteDst
  <2>1. reaper \in [step : {"delkey", "deldst"}, todo : SUBSET NodeId, id : NodeId]
    BY <1>6 DEF ReapDeleteKey, ReapDeleteDst, TypeOK, Reaping, ReaperIdle
  <2>2. reaper' \in Reaping
    BY <1>6, <2>1 DEF ReapDeleteKey, ReapDeleteDst, Reaping
  <2> QED
    BY <1>6, <2>1, <2>2, Zenon DEF ReapDeleteKey, ReapDeleteDst, TypeOK, history
<1> QED
  BY <1>1, <1>2, <1>3, <1>4, <1>5, <1>6 DEF ReapStep

LEMMA NextTyping == TypeOK /\ [Next]_vars => TypeOK'
<1> SUFFICES ASSUME TypeOK, [Next]_vars PROVE TypeOK'
  OBVIOUS
<1>1. ASSUME NEW id \in NodeId, NEW a \in Addr, PunchRefresh(id, a)
      PROVE  TypeOK'
  <2>1. nodes' \in NodeTable
    BY <1>1, UpsertInserts, UpsertRefuses DEF PunchRefresh, TypeOK
  <2> QED
    BY <1>1, <2>1 DEF PunchRefresh, TypeOK
<1>2. ASSUME NEW id \in NodeId, NotifyNode(id)
      PROVE  TypeOK'
  <2>1. nodes' \in NodeTable
    BY <1>2, ClaimNotifyKeeps DEF NotifyNode, NotifyAllowed, TypeOK
  <2> QED
    BY <1>2, <2>1 DEF NotifyNode, TypeOK, history
<1>3. CASE Tick
  BY <1>3 DEF Tick, TypeOK, tables, history
<1>4. CASE UNCHANGED vars
  BY <1>4 DEF vars, tables, history, TypeOK
<1> QED
  BY <1>1, <1>2, <1>3, <1>4, DiscoverTyping, ReaperTyping DEF Next

LEMMA InitTyping == Init => TypeOK
  BY NodeMapAssumption, RegistrationAssumption DEF Init, TypeOK, NodeTable

-----------------------------------------------------------------------------
(* The inductive invariant.                                                 *)
(*                                                                          *)
(* LiveStaysRegistered says nothing of time, so it is not inductive.  What  *)
(* keeps a live entry is its age: with no Upsert on the way, the last       *)
(* Discover that was handled found an entry younger than MinInterval (it    *)
(* refreshed it or was denied by a stamp no newer than the entry), and that *)
(* was at most Heartbeat ago.                                               *)

Pending(id) == \E r \in Reader : task[r].step = "upsert" /\ task[r].id = id

Replying(id) == \E r \in Reader : task[r].step = "reply" /\ task[r].id = id

Bounds ==
  /\ \A id \in NodeId : discoverRL[id] <= clock
  /\ \A l \in Live : beat[l] <= clock /\ clock - beat[l] <= Heartbeat
  /\ reaper.step = "shards" => reaper.threshold <= clock - NodeTTL

(* The entry of id reflects every Discover of id that was handled.          *)
Current(id) ==
  /\ discoverRL[id] <= nodes[id].lastSeen
  /\ beat[id] - nodes[id].lastSeen < MinInterval
  /\ Replying(id) => clock - nodes[id].lastSeen < MinInterval

FreshAt(id) ==
  /\ Has(nodes, id)
  /\ nodes[id].lastSeen <= clock
  /\ clock - nodes[id].lastSeen < Heartbeat + MinInterval
  /\ ~ Pending(id) => Current(id)

Fresh == \A id \in Live \cap joined : FreshAt(id)

(* The sweep forgets only stamps that no longer deny anything.              *)
Limiter ==
  \A id \in NodeId :
    \/ lastAllow[id] = Never
    \/ discoverRL[id] = lastAllow[id]
    \/ discoverRL[id] = Never /\ clock - lastAllow[id] >= MinInterval

Inv == TypeOK /\ Bounds /\ Fresh /\ Limiter /\ ShardWithinCap

LEMMA CapIsCapOK == ShardWithinCap <=> CapOK(nodes)
  BY DEF ShardWithinCap, CapOK

LEMMA LiveTypes ==
  ASSUME TypeOK, NEW id \in Live
  PROVE  /\ id \in NodeId /\ beat[id] \in Nat
         /\ discoverRL[id] \in Nat \cup {Never}
         /\ Has(nodes, id) => nodes[id].lastSeen \in Nat
  BY RegistrationAssumption DEF TypeOK, NodeTable, Has, Entry

LEMMA Intervals ==
  /\ NodeTTL \in Nat /\ MinInterval \in Nat /\ Heartbeat \in Nat
  /\ Heartbeat + MinInterval <= NodeTTL + 1
  BY RegistrationAssumption

LEMMA AgeAdds ==
  ASSUME NEW c \in Nat, NEW b \in Nat, NEW s \in Nat, NEW h \in Nat, NEW m \in Nat,
         c - b < h, b - s < m
  PROVE  c + 1 - s < h + m
  OBVIOUS

LEMMA InitInv == Init => Inv
<1> SUFFICES ASSUME Init PROVE Inv
  OBVIOUS
<1> USE NodeMapAssumption, RegistrationAssumption
<1>1. Bounds
  BY DEF Init, Bounds, ReaperIdle, Never
<1>2. Fresh /\ Limiter
  BY DEF Init, Fresh, Limiter
<1>3. ShardWithinCap
  <2>1. \A sh \in Shard : ShardIds(nodes, sh) = {}
    BY DEF Init, ShardIds, Registered, Has
  <2>2. MaxTotal \div ShardCount >= 0
    OBVIOUS
  <2> QED
    BY <2>1, <2>2, FS_EmptySet, Zenon DEF ShardWithinCap
<1> QED
  BY <1>1, <1>2, <1>3, InitTyping DEF Inv

(* A step that leaves clock, tables and heartbeats alone keeps the age of   *)
(* an entry when it does not finish an Upsert and starts no reply.          *)
LEMMA FreshFrame ==
  ASSUME NEW id, FreshAt(id), UNCHANGED <<nodes, clock, discoverRL, beat>>,
         Pending(id) => Pending(id)', Replying(id)' => Replying(id)
  PROVE  FreshAt(id)'
  BY DEF FreshAt, Current

(* An Upsert of id makes its entry as young as can be.                      *)
LEMMA FreshUpsert ==
  ASSUME TypeOK, TypeOK', Bounds, NEW id \in Live, Has(nodes, id)',
         nodes'[id].lastSeen = clock, UNCHANGED <<clock, discoverRL, beat>>
  PROVE  FreshAt(id)'
<1>1. /\ id \in NodeId /\ beat[id] \in Nat /\ discoverRL[id] \in Nat \cup {Never} /\ clock \in Nat
  BY LiveTypes DEF TypeOK
<1>2. beat[id] <= clock /\ discoverRL[id] <= clock
  BY <1>1 DEF Bounds
<1> QED
  BY <1>1, <1>2, RegistrationAssumption DEF FreshAt, Current, Never

LEMMA BoundsStep ==
  ASSUME TypeOK, TypeOK', Bounds, Next
  PROVE  Bounds'
<1> USE RegistrationAssumption
<1>0. clock \in Nat /\ (\A l \in Live : beat[l] \in Nat)
  BY DEF TypeOK
<1>1. ASSUME NEW r \in Reader, DiscoverStep(r)
      PROVE  Bounds'
  <2>1. clock' = clock /\ reaper' = reaper
    BY <1>1 DEF DiscoverStep, HandleDiscover, StorePubKey, CheckLimit, UpsertNode, Reply, history, tables
  <2>2. \A id \in NodeId : discoverRL'[id] = discoverRL[id] \/ discoverRL'[id] = clock
    BY <1>1 DEF DiscoverStep, HandleDiscover, StorePubKey, CheckLimit, UpsertNode, Reply, tables, TypeOK
  <2>3. \A l \in Live : beat'[l] = beat[l] \/ beat'[l] = clock
    BY <1>1, BeatStep DEF DiscoverStep, HandleDiscover, StorePubKey, CheckLimit, UpsertNode, Reply, history
  <2> QED
    BY <1>0, <2>1, <2>2, <2>3 DEF Bounds
<1>2. CASE \/ \E id \in NodeId, a \in Addr : PunchRefresh(id, a)
           \/ \E id \in NodeId : NotifyNode(id)
  BY <1>2 DEF PunchRefresh, NotifyNode, history, Bounds
<1>3. CASE ReapStep
  <2>1. UNCHANGED <<clock, beat>>
    BY <1>3 DEF ReapStep, ReapStart, ReapShard, ReapLimiter, ReapKeys, ReapDst, ReapVisit, ReapDeleteKey, ReapDeleteDst, history
  <2>2. \A id \in NodeId : discoverRL'[id] <= clock
    <3>1. CASE ReapLimiter
      <4>1. clock - 2 * MinInterval \in Int
        BY <1>0
      <4>2. \A id \in NodeId : discoverRL'[id] = discoverRL[id] \/ discoverRL'[id] = Never
        BY <3>1, <4>1, SweepKeeps DEF ReapLimiter, TypeOK
      <4> QED
        BY <1>0, <4>2 DEF Bounds, Never
    <3>2. CASE ~ ReapLimiter
      BY <1>3, <3>2 DEF ReapStep, ReapStart, ReapShard, ReapKeys, ReapDst, ReapVisit, ReapDeleteKey, ReapDeleteDst, tables, Bounds
    <3> QED
      BY <3>1, <3>2
  <2>3. reaper'.step = "shards" => reaper'.threshold <= clock - NodeTTL
    <3>1. CASE ReapStart
      BY <1>0, <3>1 DEF ReapStart
    <3>2. CASE ReapShard
      <4>1. reaper \in [step : {"shards"}, threshold : Int, shard : Shard]
        BY <3>2, ScanType DEF ReapShard
      <4> QED
        BY <3>2, <4>1 DEF ReapShard, Bounds
    <3>3. CASE ReapLimiter \/ ReapDeleteKey \/ ReapDeleteDst
      BY <3>3 DEF ReapLimiter, ReapDeleteKey, ReapDeleteDst
    <3>4. CASE ReapKeys
      BY <3>4 DEF ReapKeys, ReapVisit
    <3>5. CASE ReapDst
      BY <3>5 DEF ReapDst, ReapVisit, ReaperIdle
    <3> QED
      BY <1>3, <3>1, <3>2, <3>3, <3>4, <3>5 DEF ReapStep
  <2> QED
    BY <2>1, <2>2, <2>3 DEF Bounds
<1>4. CASE Tick
  <2>1. /\ clock' = clock + 1 /\ UNCHANGED <<discoverRL, beat, reaper>>
        /\ \A l \in Live : clock - beat[l] < Heartbeat
    BY <1>4 DEF Tick, tables, history
  <2>2. \A id \in NodeId : discoverRL[id] \in Int
    BY DEF TypeOK, Never
  <2>3. reaper.step = "shards" => reaper.threshold \in Int
    BY ScanType
  <2> QED
    BY <1>0, <2>1, <2>2, <2>3 DEF Bounds
<1> QED
  BY <1>1, <1>2, <1>3, <1>4 DEF Next

LEMMA FreshDiscover ==
  ASSUME TypeOK, TypeOK', Bounds, Fresh, NEW r \in Reader, DiscoverStep(r)
  PROVE  Fresh'
<1>1. ASSUME NEW id \in NodeId, NEW a \in Addr, NEW k \in Key \cup {NoKey},
             HandleDiscover(r, id, a, k)
      PROVE  Fresh'
  <2>1. task'[r].step \in {"limit", "pubkey"} /\ \A q \in Reader \ {r} : task'[q] = task[q]
    BY <1>1 DEF HandleDiscover, TypeOK
  <2>2. task[r].step = "idle"
    BY <1>1 DEF HandleDiscover, At
  <2>3. \A l : (Pending(l) => Pending(l)') /\ (Replying(l)' => Replying(l))
    BY <2>1, <2>2 DEF Pending, Replying
  <2> QED
    BY <1>1, <2>3, FreshFrame DEF HandleDiscover, Fresh, history
<1>2. CASE StorePubKey(r)
  <2>1. task[r] # Idle /\ Goto(r, "limit") /\ task[r].step = "pubkey"
    BY <1>2, BusyReader DEF StorePubKey, Steps, At
  <2>2. task'[r].step = "limit" /\ \A q \in Reader \ {r} : task'[q] = task[q]
    BY <2>1, GotoStep DEF Steps
  <2>3. \A l : (Pending(l) => Pending(l)') /\ (Replying(l)' => Replying(l))
    BY <2>1, <2>2 DEF Pending, Replying
  <2> QED
    BY <1>2, <2>3, FreshFrame DEF StorePubKey, Fresh, history
<1>3. CASE CheckLimit(r)
  <2> DEFINE id == task[r].id
  <2>1. task[r] # Idle /\ task[r].step = "limit"
    BY <1>3, BusyReader DEF CheckLimit, Steps, At
  <2>2. UNCHANGED <<nodes, clock, beat, joined>>
    BY <1>3 DEF CheckLimit
  <2>3. CASE IntervalAllows(discoverRL[id], clock, MinInterval)
    <3>1. Goto(r, "upsert") /\ discoverRL' = [discoverRL EXCEPT ![id] = clock]
      BY <1>3, <2>3 DEF CheckLimit
    <3>2. /\ task'[r].step = "upsert" /\ task'[r].id = id
          /\ \A q \in Reader \ {r} : task'[q] = task[q]
      BY <2>1, <3>1, GotoStep DEF Steps
    <3> SUFFICES ASSUME NEW l \in Live \cap joined PROVE FreshAt(l)'
      BY <2>2 DEF Fresh
    <3>3. FreshAt(l)
      BY DEF Fresh
    <3>4. CASE l = id
      <4>1. Pending(l)'
        BY <3>2, <3>4 DEF Pending
      <4> QED
        BY <2>2, <3>3, <4>1 DEF FreshAt
    <3>5. CASE l # id
      <4>1. (Pending(l) => Pending(l)') /\ (Replying(l)' => Replying(l))
        BY <2>1, <3>2 DEF Pending, Replying
      <4>2. discoverRL'[l] = discoverRL[l]
        BY <3>1, <3>5, LiveTypes DEF TypeOK
      <4> QED
        BY <2>2, <3>3, <4>1, <4>2 DEF FreshAt, Current
    <3> QED
      BY <3>4, <3>5
  <2>4. CASE ~ IntervalAllows(discoverRL[id], clock, MinInterval)
    <3>1. Goto(r, "reply") /\ UNCHANGED discoverRL
      BY <1>3, <2>4 DEF CheckLimit
    <3>2. /\ task'[r].step = "reply" /\ task'[r].id = id
          /\ \A q \in Reader \ {r} : task'[q] = task[q]
      BY <2>1, <3>1, GotoStep DEF Steps
    <3> SUFFICES ASSUME NEW l \in Live \cap joined PROVE FreshAt(l)'
      BY <2>2 DEF Fresh
    <3>3. FreshAt(l)
      BY DEF Fresh
    <3>4. Pending(l) => Pending(l)'
      BY <2>1, <3>2 DEF Pending
    <3>5. CASE l = id
      <4>1. Has(nodes, l) /\ clock \in Nat
        BY <3>3 DEF FreshAt, TypeOK
      <4>2. discoverRL[l] \in Nat \cup {Never} /\ nodes[l].lastSeen \in Nat
        BY <4>1, LiveTypes
      <4>3. discoverRL[l] \in Int
        BY <4>2 DEF Never
      <4>4. clock - discoverRL[l] < MinInterval
        <5>1. ~ IntervalAllows(discoverRL[l], clock, MinInterval)
          BY <2>4, <3>5
        <5> QED
          BY <4>1, <4>3, <5>1, Intervals DEF IntervalAllows
      <4>5. Current(l) => discoverRL[l] <= nodes[l].lastSeen
        BY DEF Current
      <4>6. Current(l) => clock - nodes[l].lastSeen < MinInterval
        BY <4>1, <4>2, <4>3, <4>4, <4>5, Intervals
      <4> QED
        BY <2>2, <3>1, <3>3, <3>4, <4>6 DEF FreshAt, Current
    <3>6. CASE l # id
      <4>1. Replying(l)' => Replying(l)
        BY <3>2, <3>6 DEF Replying
      <4> QED
        BY <2>2, <3>1, <3>3, <3>4, <4>1, FreshFrame
    <3> QED
      BY <3>5, <3>6
  <2> QED
    BY <2>3, <2>4
<1>4. CASE UpsertNode(r)
  <2> DEFINE id == task[r].id
  <2>1. task[r] # Idle /\ task[r].step = "upsert"
    BY <1>4, BusyReader DEF UpsertNode, Steps, At
  <2>2. id \in NodeId /\ task[r].addr \in Addr /\ nodes \in NodeTable /\ clock \in Nat
    BY <2>1, TaskType DEF TypeOK
  <2>3. UNCHANGED <<clock, discoverRL>>
    BY <1>4 DEF UpsertNode
  <2>4. CASE AtCapacity(nodes, id)
    <3>1. Finish(r) /\ Beat(id) /\ UNCHANGED <<nodes, joined>>
      BY <1>4, <2>4 DEF UpsertNode
    <3>2. task'[r] = Idle /\ \A q \in Reader \ {r} : task'[q] = task[q]
      BY <3>1, FinishStep
    <3> SUFFICES ASSUME NEW l \in Live \cap joined PROVE FreshAt(l)'
      BY <3>1 DEF Fresh
    <3>3. FreshAt(l) /\ l # id
      BY <2>4 DEF Fresh, FreshAt, AtCapacity
    <3>4. (Pending(l) => Pending(l)') /\ (Replying(l)' => Replying(l))
      <4>1. task'[r].step = "idle" /\ task[r].id # l
        BY <3>2, <3>3 DEF Idle
      <4> QED
        BY <3>2, <4>1 DEF Pending, Replying
    <3>5. beat'[l] = beat[l]
      BY <3>1, <3>3, BeatStep
    <3> QED
      BY <2>3, <3>1, <3>3, <3>4, <3>5 DEF FreshAt, Current
  <2>5. CASE ~ AtCapacity(nodes, id)
    <3>1. /\ nodes' = Upsert(nodes, id, task[r].addr, clock)
          /\ joined' = joined \cup {id} /\ Goto(r, "reply") /\ UNCHANGED beat
      BY <1>4, <2>5 DEF UpsertNode
    <3>2. /\ Has(nodes', id) /\ nodes'[id].lastSeen = clock
          /\ \A k \in NodeId \ {id} : nodes'[k] = nodes[k]
      <4> DEFINE u == Upsert(nodes, id, task[r].addr, clock)
      <4>1. Has(u, id) /\ u[id].lastSeen = clock /\ \A k \in NodeId \ {id} : u[k] = nodes[k]
        BY ONLY <2>2, <2>5, UpsertInserts
      <4> QED
        BY <3>1, <4>1
    <3>3. /\ task'[r].step = "reply" /\ task'[r].id = id
          /\ \A q \in Reader \ {r} : task'[q] = task[q]
      <4>1. Goto(r, "reply") /\ "reply" \in Steps
        BY <3>1 DEF Steps
      <4> QED
        BY <2>1, <4>1, GotoStep
    <3> SUFFICES ASSUME NEW l \in Live, l \in joined' PROVE FreshAt(l)'
      BY DEF Fresh
    <3>4. CASE l = id
      <4>1. Has(nodes, l)' /\ nodes'[l].lastSeen = clock
        BY <3>2, <3>4 DEF Has
      <4> QED
        BY <2>3, <3>1, <4>1, FreshUpsert
    <3>5. CASE l # id
      <4>1. FreshAt(l) /\ nodes'[l] = nodes[l]
        BY <3>1, <3>2, <3>5, LiveTypes DEF Fresh
      <4>2. (Pending(l) => Pending(l)') /\ (Replying(l)' => Replying(l))
        BY <3>3, <3>5 DEF Pending, Replying
      <4> QED
        BY <2>3, <3>1, <4>1, <4>2 DEF FreshAt, Current, Has
    <3> QED
      BY <3>4, <3>5
  <2> QED
    BY <2>4, <2>5
<1>5. CASE Reply(r)
  <2> DEFINE id == task[r].id
  <2>1. task[r].step = "reply" /\ Finish(r) /\ Beat(id) /\ UNCHANGED <<nodes, clock, discoverRL, joined>>
    BY <1>5 DEF Reply, At, tables
  <2>2. task'[r] = Idle /\ \A q \in Reader \ {r} : task'[q] = task[q]
    BY <2>1, FinishStep
  <2> SUFFICES ASSUME NEW l \in Live \cap joined PROVE FreshAt(l)'
    BY <2>1 DEF Fresh
  <2>3. FreshAt(l)
    BY DEF Fresh
  <2>4. (Pending(l) => Pending(l)') /\ (Replying(l)' => Replying(l))
    <3>1. Pending(l) => Pending(l)'
      BY <2>1, <2>2 DEF Pending
    <3>2. task'[r].step # "reply"
      BY <2>2 DEF Idle
    <3> QED
      BY <2>2, <3>1, <3>2 DEF Replying
  <2>5. beat'[l] = IF l = id THEN clock ELSE beat[l]
    BY <2>1, BeatStep
  <2>6. l = id => Replying(l)
    BY <2>1 DEF Replying
  <2> QED
    BY <2>1, <2>3, <2>4, <2>5, <2>6 DEF FreshAt, Current
<1> QED
  BY <1>1, <1>2, <1>3, <1>4, <1>5 DEF DiscoverStep

LEMMA FreshStep ==
  ASSUME TypeOK, TypeOK', Bounds, Fresh, Next
  PROVE  Fresh'
<1>1. ASSUME NEW id \in NodeId, NEW a \in Addr, PunchRefresh(id, a)
      PROVE  Fresh'
  <2>1. /\ nodes' = Upsert(nodes, id, a, clock) /\ UNCHANGED <<clock, discoverRL, beat, task>>
        /\ joined' = IF AtCapacity(nodes, id) THEN joined ELSE joined \cup {id}
    BY <1>1 DEF PunchRefresh
  <2>2. CASE AtCapacity(nodes, id)
    BY <2>1, <2>2, UpsertRefuses DEF Fresh, FreshAt, Current, Pending, Replying
  <2>3. CASE ~ AtCapacity(nodes, id)
    <3>1. /\ Has(nodes', id) /\ nodes'[id].lastSeen = clock
          /\ \A k \in NodeId \ {id} : nodes'[k] = nodes[k]
      <4> DEFINE u == Upsert(nodes, id, a, clock)
      <4>1. nodes \in NodeTable /\ clock \in Nat
        BY DEF TypeOK
      <4>2. Has(u, id) /\ u[id].lastSeen = clock /\ \A k \in NodeId \ {id} : u[k] = nodes[k]
        BY <2>3, <4>1, UpsertInserts
      <4> QED
        BY <2>1, <4>2
    <3> SUFFICES ASSUME NEW l \in Live, l \in joined' PROVE FreshAt(l)'
      BY DEF Fresh
    <3>2. CASE l = id
      <4>1. Has(nodes, l)' /\ nodes'[l].lastSeen = clock
        BY <3>1, <3>2 DEF Has
      <4> QED
        BY <2>1, <4>1, FreshUpsert
    <3>3. CASE l # id
      <4>1. FreshAt(l) /\ nodes'[l] = nodes[l]
        BY <2>1, <2>3, <3>1, <3>3, LiveTypes DEF Fresh
      <4> QED
        BY <2>1, <4>1 DEF FreshAt, Current, Has, Pending, Replying
    <3> QED
      BY <3>2, <3>3
  <2> QED
    BY <2>2, <2>3
<1>2. ASSUME NEW id \in NodeId, NotifyNode(id)
      PROVE  Fresh'
  <2>1. /\ nodes' = ClaimNotify(nodes, id, clock) /\ Has(nodes, id)
        /\ UNCHANGED <<clock, discoverRL, beat, task, joined>>
    BY <1>2 DEF NotifyNode, NotifyAllowed, history
  <2>2. \A k \in NodeId : /\ Has(nodes', k) <=> Has(nodes, k)
                          /\ Has(nodes, k) => nodes'[k].lastSeen = nodes[k].lastSeen
    BY <2>1, ClaimNotifyKeeps DEF TypeOK
  <2> SUFFICES ASSUME NEW l \in Live \cap joined PROVE FreshAt(l)'
    BY <2>1 DEF Fresh
  <2>3. FreshAt(l) /\ Has(nodes', l) /\ nodes'[l].lastSeen = nodes[l].lastSeen
    BY <2>2, LiveTypes DEF Fresh, FreshAt
  <2> QED
    BY <2>1, <2>3 DEF FreshAt, Current, Has, Pending, Replying
<1>3. CASE ReapShard
  <2>1. /\ reaper.step = "shards" /\ nodes' = ReapShardStale(nodes, reaper.shard, reaper.threshold)
        /\ UNCHANGED <<clock, discoverRL, beat, task, joined>>
    BY <1>3 DEF ReapShard, history
  <2>2. reaper.threshold \in Int /\ clock \in Nat /\ nodes \in NodeTable
    BY <2>1, ScanType DEF TypeOK
  <2> SUFFICES ASSUME NEW l \in Live \cap joined PROVE FreshAt(l)'
    BY <2>1 DEF Fresh
  <2>3. FreshAt(l) /\ l \in NodeId
    BY LiveTypes DEF Fresh
  <2>4. nodes[l].lastSeen \in Nat /\ Has(nodes, l)
    BY <2>3, LiveTypes DEF FreshAt
  <2>5. nodes[l].lastSeen >= reaper.threshold
    <3>1. clock - nodes[l].lastSeen < Heartbeat + MinInterval
      BY <2>3 DEF FreshAt
    <3>2. reaper.threshold <= clock - NodeTTL
      BY <2>1 DEF Bounds
    <3> QED
      BY <2>2, <2>4, <3>1, <3>2, Intervals
  <2>6. nodes'[l] = nodes[l]
    <3>1. \A id \in NodeId :
            Has(nodes, id) /\ nodes[id].lastSeen >= reaper.threshold
              => ReapShardStale(nodes, reaper.shard, reaper.threshold)[id] = nodes[id]
      BY <2>2, ReapShardKeeps
    <3> QED
      BY <2>1, <2>3, <2>4, <2>5, <3>1
  <2> QED
    BY <2>1, <2>3, <2>6 DEF FreshAt, Current, Has, Pending, Replying
<1>4. CASE ReapLimiter
  <2>1. UNCHANGED <<nodes, clock, beat, task, joined>>
    BY <1>4 DEF ReapLimiter, history
  <2>2. \A id \in NodeId : discoverRL'[id] = discoverRL[id] \/ discoverRL'[id] = Never
    <3>1. clock - 2 * MinInterval \in Int
      BY Intervals DEF TypeOK
    <3> QED
      BY <1>4, <3>1, SweepKeeps DEF ReapLimiter, TypeOK
  <2> SUFFICES ASSUME NEW l \in Live \cap joined PROVE FreshAt(l)'
    BY <2>1 DEF Fresh
  <2>3. FreshAt(l) /\ l \in NodeId
    BY LiveTypes DEF Fresh
  <2>4. nodes[l].lastSeen \in Nat
    BY <2>3, LiveTypes DEF FreshAt
  <2>5. discoverRL[l] <= nodes[l].lastSeen => discoverRL'[l] <= nodes[l].lastSeen
    BY <2>2, <2>3, <2>4 DEF Never
  <2>6. (Pending(l)' <=> Pending(l)) /\ (Replying(l)' <=> Replying(l))
    BY <2>1 DEF Pending, Replying
  <2> QED
    BY <2>1, <2>3, <2>5, <2>6 DEF FreshAt, Current
<1>5. CASE ReapStart \/ ReapKeys \/ ReapDeleteKey \/ ReapDst \/ ReapDeleteDst
  <2>1. UNCHANGED <<nodes, clock, discoverRL, beat, task, joined>>
    BY <1>5 DEF ReapStart, ReapKeys, ReapDst, ReapVisit, ReapDeleteKey, ReapDeleteDst, tables, history
  <2> QED
    BY <2>1 DEF Fresh, FreshAt, Current, Pending, Replying
<1>6. CASE Tick
  <2>1. /\ clock' = clock + 1 /\ UNCHANGED <<nodes, discoverRL, beat, task, joined>>
        /\ \A l \in Live : clock - beat[l] < Heartbeat
        /\ \A r \in Reader : task[r] # Idle => task[r].id \notin Live
    BY <1>6 DEF Tick, tables, history
  <2> SUFFICES ASSUME NEW l \in Live \cap joined PROVE FreshAt(l)'
    BY <2>1 DEF Fresh
  <2>2. FreshAt(l)
    BY DEF Fresh
  <2>3. ~ Pending(l) /\ ~ Replying(l)
    <3>1. \A r \in Reader : task[r].step \in {"upsert", "reply"} => task[r].id # l
      BY <2>1 DEF Idle
    <3> QED
      BY <3>1 DEF Pending, Replying
  <2>4. ~ Pending(l)' /\ ~ Replying(l)'
    BY <2>1, <2>3 DEF Pending, Replying
  <2>5. Has(nodes, l) /\ nodes[l].lastSeen <= clock /\ Current(l)
    BY <2>2, <2>3 DEF FreshAt
  <2>6. clock \in Nat /\ nodes[l].lastSeen \in Nat /\ beat[l] \in Nat
    BY <2>5, LiveTypes DEF TypeOK
  <2>7. beat[l] - nodes[l].lastSeen < MinInterval /\ clock - beat[l] < Heartbeat
    BY <2>1, <2>5 DEF Current
  <2>8. /\ clock + 1 - nodes[l].lastSeen < Heartbeat + MinInterval
        /\ nodes[l].lastSeen <= clock + 1
    <3>1. clock + 1 - nodes[l].lastSeen < Heartbeat + MinInterval
      BY <2>6, <2>7, Intervals, AgeAdds, Zenon
    <3>2. nodes[l].lastSeen <= clock + 1
      BY ONLY <2>5, <2>6
    <3> QED
      BY <3>1, <3>2, Zenon
  <2>9. Current(l)'
    BY <2>1, <2>4, <2>5 DEF Current
  <2>10. Has(nodes, l)'
    BY <2>1, <2>5 DEF Has
  <2>11. /\ clock' - nodes'[l].lastSeen < Heartbeat + MinInterval
         /\ nodes'[l].lastSeen <= clock'
    <3>1. clock' = clock + 1 /\ nodes'[l].lastSeen = nodes[l].lastSeen
      BY <2>1
    <3> QED
      BY <2>6, <2>8, <3>1, Intervals
  <2> QED
    BY <2>9, <2>10, <2>11 DEF FreshAt
<1> QED
  BY <1>1, <1>2, <1>3, <1>4, <1>5, <1>6, FreshDiscover DEF Next, ReapStep

LEMMA LimiterStep ==
  ASSUME TypeOK, TypeOK', Bounds, Limiter, Next
  PROVE  Limiter'
<1>0. clock \in Nat /\ \A id \in NodeId : lastAllow[id] \in Int /\ discoverRL[id] \in Int
  BY DEF TypeOK, Never
<1>1. ASSUME NEW r \in Reader, CheckLimit(r)
      PROVE  Limiter'
  <2>1. \/ UNCHANGED <<discoverRL, lastAllow, clock>>
        \/ /\ discoverRL' = [discoverRL EXCEPT ![task[r].id] = clock]
           /\ lastAllow' = [lastAllow EXCEPT ![task[r].id] = clock]
           /\ UNCHANGED clock
    BY <1>1 DEF CheckLimit
  <2>2. \A id \in NodeId : \/ discoverRL'[id] = discoverRL[id] /\ lastAllow'[id] = lastAllow[id]
                           \/ discoverRL'[id] = lastAllow'[id]
    <3>1. discoverRL \in [NodeId -> Nat \cup {Never}] /\ lastAllow \in [NodeId -> Nat \cup {Never}]
      BY DEF TypeOK
    <3> QED
      BY <2>1, <3>1
  <2>3. clock' = clock
    BY <2>1
  <2> QED
    BY <2>2, <2>3 DEF Limiter
<1>2. CASE ReapLimiter
  <2>0. UNCHANGED <<lastAllow, clock>>
    BY <1>2 DEF ReapLimiter, history
  <2>1. clock - 2 * MinInterval \in Int /\ UNCHANGED <<lastAllow, clock>>
    BY <1>0, <2>0, Intervals
  <2>2. \A id \in NodeId : \/ discoverRL'[id] = discoverRL[id]
                           \/ discoverRL'[id] = Never /\ discoverRL[id] < clock - 2 * MinInterval
    <3>1. discoverRL \in [NodeId -> Nat \cup {Never}]
      BY DEF TypeOK
    <3>2. discoverRL' = SweepInterval(discoverRL, clock - 2 * MinInterval)
      BY <1>2 DEF ReapLimiter
    <3> QED
      BY <2>1, <3>1, <3>2, SweepKeeps
  <2>3. \A id \in NodeId : discoverRL[id] = lastAllow[id] /\ discoverRL[id] < clock - 2 * MinInterval
                             => clock - lastAllow[id] >= MinInterval
    BY <1>0, Intervals
  <2> SUFFICES ASSUME NEW id \in NodeId, lastAllow[id] # Never,
                      discoverRL'[id] # lastAllow[id]
               PROVE  discoverRL'[id] = Never /\ clock - lastAllow[id] >= MinInterval
    BY <2>1 DEF Limiter
  <2> QED
    BY <2>2, <2>3 DEF Limiter
<1>3. CASE Tick
  <2>1. clock' = clock + 1 /\ UNCHANGED <<discoverRL, lastAllow>>
    BY <1>3 DEF Tick, tables, history
  <2> QED
    BY <1>0, <2>1, Intervals DEF Limiter
<1>4. CASE UNCHANGED <<discoverRL, lastAllow, clock>>
  BY <1>4 DEF Limiter
<1>5. ASSUME NEW r \in Reader, DiscoverStep(r)
      PROVE  CheckLimit(r) \/ UNCHANGED <<discoverRL, lastAllow, clock>>
  BY <1>5 DEF DiscoverStep, HandleDiscover, StorePubKey, UpsertNode, Reply, tables, history
<1>6. CASE \/ \E id \in NodeId, a \in Addr : PunchRefresh(id, a)
           \/ \E id \in NodeId : NotifyNode(id)
  <2>1. UNCHANGED <<discoverRL, lastAllow, clock>>
    BY <1>6 DEF PunchRefresh, NotifyNode, history
  <2> QED
    BY <1>4, <2>1
<1>7. CASE ReapStep
  <2>1. ReapLimiter \/ UNCHANGED <<discoverRL, lastAllow, clock>>
    BY <1>7 DEF ReapStep, ReapStart, ReapShard, ReapKeys, ReapDst, ReapVisit,
                ReapDeleteKey, ReapDeleteDst, tables, history
  <2> QED
    BY <1>2, <1>4, <2>1
<1> QED
  BY <1>1, <1>3, <1>4, <1>5, <1>6, <1>7 DEF Next

LEMMA CapStep ==
  ASSUME TypeOK, ShardWithinCap, Next
  PROVE  ShardWithinCap'
<1>0. nodes \in NodeTable /\ clock \in Nat /\ CapOK(nodes)
  BY CapIsCapOK DEF TypeOK
<1> SUFFICES CapOK(nodes')
  BY DEF ShardWithinCap, CapOK
<1>1. ASSUME NEW r \in Reader, UpsertNode(r)
      PROVE  CapOK(nodes')
  <2>1. task[r].id \in NodeId /\ task[r].addr \in Addr
    BY <1>1, BusyReader, TaskType DEF UpsertNode, Steps
  <2> QED
    BY <1>0, <1>1, <2>1, CapUpsert DEF UpsertNode
<1>2. ASSUME NEW id \in NodeId, NEW a \in Addr, PunchRefresh(id, a)
      PROVE  CapOK(nodes')
  BY <1>0, <1>2, CapUpsert DEF PunchRefresh
<1>3. ASSUME NEW id \in NodeId, NotifyNode(id)
      PROVE  CapOK(nodes')
  <2>1. \A k \in NodeId : Has(nodes', k) => Has(nodes, k)
    BY <1>0, <1>3, ClaimNotifyKeeps DEF NotifyNode, NotifyAllowed
  <2> QED
    BY <1>0, <2>1, CapShrink
<1>4. CASE ReapShard
  <2>1. reaper.threshold \in Int
    BY <1>4, ScanType DEF ReapShard
  <2>2. \A k \in NodeId : Has(nodes', k) => Has(nodes, k)
    BY <1>0, <1>4, <2>1, ReapShardKeeps DEF ReapShard
  <2> QED
    BY <1>0, <2>2, CapShrink
<1>5. CASE UNCHANGED nodes
  BY <1>0, <1>5
<1>6. ASSUME NEW r \in Reader, DiscoverStep(r)
      PROVE  UpsertNode(r) \/ UNCHANGED nodes
  BY <1>6 DEF DiscoverStep, HandleDiscover, StorePubKey, CheckLimit, Reply, tables
<1>7. ReapStep => ReapShard \/ UNCHANGED nodes
  BY DEF ReapStep, ReapStart, ReapLimiter, ReapKeys, ReapDst, ReapVisit,
         ReapDeleteKey, ReapDeleteDst, tables
<1>8. Tick => UNCHANGED nodes
  BY DEF Tick, tables
<1> QED
  BY <1>1, <1>2, <1>3, <1>4, <1>5, <1>6, <1>7, <1>8 DEF Next

LEMMA NextInv == Inv /\ [Next]_vars => Inv'
<1> SUFFICES ASSUME Inv, [Next]_vars PROVE Inv'
  OBVIOUS
<1>1. TypeOK'
  BY NextTyping DEF Inv
<1>2. CASE Next
  BY <1>1, <1>2, BoundsStep, FreshStep, LimiterStep, CapStep DEF Inv
<1>3. CASE UNCHANGED vars
  <2>1. UNCHANGED <<nodes, discoverRL, task, reaper, clock, lastAllow, beat, joined>>
    BY <1>3 DEF vars, tables, history
  <2>2. Bounds' /\ Limiter' /\ ShardWithinCap'
    BY <2>1 DEF Inv, Bounds, Limiter, ShardWithinCap, ShardIds, Registered, Has
  <2>3. Fresh'
    BY <2>1 DEF Inv, Fresh, FreshAt, Current, Pending, Replying
  <2> QED
    BY <1>1, <2>2, <2>3 DEF Inv
<1> QED
  BY <1>2, <1>3

LEMMA Invariance == Spec => []Inv
  BY InitInv, NextInv, PTL DEF Spec

-----------------------------------------------------------------------------
(* Every state of the registration tables, the readers and the reaper is    *)
(* well typed.                                                              *)
THEOREM Typing == Spec => []TypeOK
<1>1. Inv => TypeOK
  BY DEF Inv
<1> QED
  BY <1>1, Invariance, PTL

(* reapStaleNodes never removes the entry of a daemon that keeps its        *)
(* heartbeat, although discoverRL denies most of its Discovers.             *)
THEOREM LiveNeverReaped == Spec => []LiveStaysRegistered
<1>1. Inv => LiveStaysRegistered
  BY DEF Inv, Fresh, FreshAt, LiveStaysRegistered
<1> QED
  BY <1>1, Invariance, PTL

(* Upsert's per-shard check keeps every shard within its share of the cap.  *)
THEOREM ShardCap == Spec => []ShardWithinCap
<1>1. Inv => ShardWithinCap
  BY DEF Inv
<1> QED
  BY <1>1, Invariance, PTL

(* discoverRL.allow admits the Discovers of one id at least MinInterval     *)
(* apart, whatever reapStaleNodes' sweep has forgotten in between.          *)
THEOREM Spacing == Spec => DiscoverSpacing
<1>1. ASSUME Inv, [Next]_vars, NEW r \in Reader, Admits(r)
      PROVE  LET last == lastAllow[task[r].id]
             IN  last = Never \/ clock - last >= MinInterval
  <2>1. task[r].step = "limit" /\ task'[r].step = "upsert"
    BY <1>1 DEF Admits, At
  <2>2. task[r] # Idle
    BY <2>1 DEF Idle
  <2>3. CheckLimit(r)
    <3>1. CASE UNCHANGED task
      BY <2>1, <3>1
    <3>2. ASSUME NEW q \in Reader, DiscoverStep(q), q # r
          PROVE  task'[r] = task[r]
      BY <1>1, <3>2 DEF DiscoverStep, HandleDiscover, StorePubKey, CheckLimit, UpsertNode, Reply,
                        Goto, Finish, Inv, TypeOK
    <3>3. CASE DiscoverStep(r)
      BY <2>1, <3>3 DEF DiscoverStep, HandleDiscover, StorePubKey, UpsertNode, Reply, At
    <3>4. (\E q \in Reader : DiscoverStep(q)) \/ UNCHANGED task
      BY <1>1 DEF Next, PunchRefresh, NotifyNode, Tick, vars, ReapStep, ReapStart, ReapShard,
                  ReapLimiter, ReapKeys, ReapDst, ReapVisit, ReapDeleteKey, ReapDeleteDst
    <3> QED
      BY <2>1, <3>1, <3>2, <3>3, <3>4
  <2>4. IntervalAllows(discoverRL[task[r].id], clock, MinInterval)
    <3>1. CASE Goto(r, "reply")
      BY <1>1, <2>1, <2>2, <3>1, GotoStep DEF Inv, Steps
    <3> QED
      BY <2>3, <3>1 DEF CheckLimit
  <2>5. task[r].id \in NodeId
    BY <1>1, <2>2, TaskType DEF Inv
  <2> QED
    BY <1>1, <2>4, <2>5 DEF IntervalAllows, Inv, Limiter
<1>2. Inv /\ [Next]_vars =>
        [\A r \in Reader : Admits(r) =>
           LET last == lastAllow[task[r].id]
           IN  last = Never \/ clock - last >= MinInterval]_vars
  BY <1>1
<1> QED
  BY <1>2, Invariance, PTL DEF Spec, DiscoverSpacing
=============================================================================
