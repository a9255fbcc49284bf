---------------------------- MODULE Registration ----------------------------
(***************************************************************************)
(* Node registration on one beacon: handleDiscover on the reader           *)
(* goroutines (and the WSS read loops, which call the same handler), the   *)
(* endpoint refresh of handlePunchRequest, NotifyNode, and the reaper.     *)
(*                                                                         *)
(* handleDiscover and reapStaleNodes touch four tables with a lock each    *)
(* and hold no lock across them, so each table operation is a step of its  *)
(* own and the steps of all goroutines interleave.  A Discover that the    *)
(* breaker or the length check rejects changes nothing.                    *)
(*                                                                         *)
(* Time is a discrete clock.  lastAllow, beat and joined are history       *)
(* variables: the code has no such state.                                  *)
(***************************************************************************)
EXTENDS NodeMap

CONSTANTS Key, NoKey,       \* public keys a Discover can carry
          Reader,           \* goroutines that run handlePacketFrom
          DestNodes,        \* ids whose daemon sends DiscoverEx, not Discover
          KeyNodes,         \* ids whose daemon may send its key along
          Live,             \* ids of daemons that keep their heartbeat
          NodeTTL,          \* beaconNodeTTL
          MinInterval,      \* discoverMinInterval
          NotifyGap,        \* notifyMinInterval
          Heartbeat,        \* the daemon's re-discover interval
          MaxClock,         \* bound on the clock
          MaxNotify         \* bound on the time of a notify

ASSUME RegistrationAssumption ==
  /\ NoKey \notin Key
  /\ Live \subseteq NodeId /\ DestNodes \subseteq NodeId /\ KeyNodes \subseteq NodeId
  /\ NodeTTL \in Nat /\ MinInterval \in Nat \ {0} /\ NotifyGap \in Nat
  /\ Heartbeat \in Nat \ {0} /\ MaxClock \in Nat /\ MaxNotify \in Nat
  \* 60 s + 30 s against 10 min in the code
  /\ Heartbeat + MinInterval <= NodeTTL + 1

VARIABLES nodes,       \* Server.nodes
          dstNodes,    \* Server.dstNodes, ids that asked for 0x09 delivery
          pubKeys,     \* Server.nodePubKeys
          discoverRL,  \* Server.discoverRL
          task,        \* what each reader is doing
          reaper,      \* reapStaleNodes' program counter and locals
          clock,
          lastAllow,   \* when the limiter last let an id through
          beat,        \* when a Discover of a live id was last handled
          joined       \* ids that a Discover or punch ever inserted

tables == <<nodes, dstNodes, pubKeys, discoverRL>>
history == <<lastAllow, beat, joined>>
vars == <<tables, task, reaper, clock, history>>

Idle == [step |-> "idle"]

Discover == [step : {"pubkey", "limit", "upsert", "reply"}, id : NodeId,
             addr : Addr, key : Key \cup {NoKey}]

ReaperIdle == [step |-> "idle"]

Reaping == [step : {"shards"}, threshold : Int, shard : Shard]
      \cup [step : {"limiter"}]
      \cup [step : {"keys", "dst"}, todo : SUBSET NodeId]
      \cup [step : {"delkey", "deldst"}, todo : SUBSET NodeId, id : NodeId]

Init ==
  /\ nodes = [id \in NodeId |-> NoNode]
  /\ dstNodes = {}
  /\ pubKeys = [id \in NodeId |-> NoKey]
  /\ discoverRL = [id \in NodeId |-> Never]
  /\ task = [r \in Reader |-> Idle]
  /\ reaper = ReaperIdle
  /\ clock = 0
  /\ lastAllow = [id \in NodeId |-> Never]
  /\ beat = [id \in Live |-> 0]
  /\ joined = {}

-----------------------------------------------------------------------------
(* handleDiscover *)

At(r, s) == task[r].step = s

Goto(r, s) == task' = [task EXCEPT ![r] = [@ EXCEPT !.step = s]]

Finish(r) == task' = [task EXCEPT ![r] = Idle]

Beat(id) == beat' = [l \in Live |-> IF l = id THEN clock ELSE beat[l]]

(* The handler starts: the wantDest flag of a DiscoverEx is stored first.   *)
HandleDiscover(r, id, a, key) ==
  /\ At(r, "idle")
  /\ dstNodes' = IF id \in DestNodes THEN dstNodes \cup {id} ELSE dstNodes
  /\ task' = [task EXCEPT ![r] =
       [step |-> IF key = NoKey THEN "limit" ELSE "pubkey",
        id |-> id, addr |-> a, key |-> key]]
  /\ UNCHANGED <<nodes, pubKeys, discoverRL, reaper, clock, history>>

(* nodePubKeys.LoadOrStore: the first key of an id wins.                    *)
StorePubKey(r) ==
  /\ At(r, "pubkey")
  /\ pubKeys' = [pubKeys EXCEPT ![task[r].id] = IF @ = NoKey THEN task[r].key ELSE @]
  /\ Goto(r, "limit")
  /\ UNCHANGED <<nodes, dstNodes, discoverRL, reaper, clock, history>>

(* A mutant: a denied Discover moves the timestamp too.                     *)
CheckLimitStampsDenied(r) ==
  LET id == task[r].id IN
  /\ At(r, "limit")
  /\ discoverRL' = [discoverRL EXCEPT ![id] = clock]
  /\ IF IntervalAllows(discoverRL[id], clock, MinInterval)
     THEN lastAllow' = [lastAllow EXCEPT ![id] = clock] /\ Goto(r, "upsert")
     ELSE Goto(r, "reply") /\ UNCHANGED lastAllow
  /\ UNCHANGED <<nodes, dstNodes, pubKeys, reaper, clock, beat, joined>>

(* discoverRL.allow: a denied Discover keeps its old timestamp and goes on  *)
(* to the reply without an Upsert.                                          *)
CheckLimit(r) ==
  LET id == task[r].id IN
  /\ At(r, "limit")
  /\ IF IntervalAllows(discoverRL[id], clock, MinInterval)
     THEN /\ discoverRL' = [discoverRL EXCEPT ![id] = clock]
          /\ lastAllow' = [lastAllow EXCEPT ![id] = clock]
          /\ Goto(r, "upsert")
     ELSE Goto(r, "reply") /\ UNCHANGED <<discoverRL, lastAllow>>
  /\ UNCHANGED <<nodes, dstNodes, pubKeys, reaper, clock, beat, joined>>

(* nodes.Upsert: a node turned away at capacity gets no reply.              *)
UpsertNode(r) ==
  LET t == task[r] IN
  /\ At(r, "upsert")
  /\ IF AtCapacity(nodes, t.id)
     THEN /\ Finish(r)
          /\ Beat(t.id)
          /\ UNCHANGED <<nodes, joined>>
     ELSE /\ nodes' = Upsert(nodes, t.id, t.addr, clock)
          /\ joined' = joined \cup {t.id}
          /\ Goto(r, "reply")
          /\ UNCHANGED beat
  /\ UNCHANGED <<dstNodes, pubKeys, discoverRL, reaper, clock, lastAllow>>

(* The reply with the observed address ends the handler.                    *)
Reply(r) ==
  /\ At(r, "reply")
  /\ Finish(r)
  /\ Beat(task[r].id)
  /\ UNCHANGED <<tables, reaper, clock, lastAllow, joined>>

DiscoverStep(r) ==
  \/ \E id \in NodeId, a \in Addr, k \in Key \cup {NoKey} :
       (k = NoKey \/ id \in KeyNodes) /\ HandleDiscover(r, id, a, k)
  \/ StorePubKey(r)
  \/ CheckLimit(r)
  \/ UpsertNode(r)
  \/ Reply(r)

-----------------------------------------------------------------------------
(* The other users of the node table *)

(* handlePunchRequest refreshes the requester's endpoint.  It asks no       *)
(* limiter of the Discover path and ignores a refusal at capacity.          *)
PunchRefresh(id, a) ==
  /\ nodes' = Upsert(nodes, id, a, clock)
  /\ joined' = IF AtCapacity(nodes, id) THEN joined ELSE joined \cup {id}
  /\ UNCHANGED <<dstNodes, pubKeys, discoverRL, task, reaper, clock, lastAllow, beat>>

NotifyNode(id) ==
  /\ clock <= MaxNotify
  /\ NotifyAllowed(nodes, id, clock, NotifyGap)
  /\ nodes' = ClaimNotify(nodes, id, clock)
  /\ UNCHANGED <<dstNodes, pubKeys, discoverRL, task, reaper, clock, history>>

-----------------------------------------------------------------------------
(* reapStaleNodes *)

ReapStart ==
  /\ reaper = ReaperIdle
  /\ reaper' = [step |-> "shards", threshold |-> clock - NodeTTL, shard |-> 0]
  /\ UNCHANGED <<tables, task, clock, history>>

(* A mutant: the scan goes one shard too far.                               *)
ReapShardPastEnd ==
  /\ reaper.step = "shards"
  /\ nodes' = ReapShardStale(nodes, reaper.shard, reaper.threshold)
  /\ reaper' = IF reaper.shard = ShardCount
               THEN [step |-> "limiter"]
               ELSE [reaper EXCEPT !.shard = @ + 1]
  /\ UNCHANGED <<dstNodes, pubKeys, discoverRL, task, clock, history>>

(* ReapStale takes the shard locks one after the other.                     *)
ReapShard ==
  /\ reaper.step = "shards"
  /\ nodes' = ReapShardStale(nodes, reaper.shard, reaper.threshold)
  /\ reaper' = IF reaper.shard = ShardCount - 1
               THEN [step |-> "limiter"]
               ELSE [reaper EXCEPT !.shard = @ + 1]
  /\ UNCHANGED <<dstNodes, pubKeys, discoverRL, task, clock, history>>

(* A mutant: the sweep forgets timestamps that still count.                 *)
ReapLimiterAll ==
  /\ reaper.step = "limiter"
  /\ discoverRL' = SweepInterval(discoverRL, clock)
  /\ reaper' = [step |-> "keys", todo |-> NodeId]
  /\ UNCHANGED <<nodes, dstNodes, pubKeys, task, clock, history>>

(* discoverRL.sweep; the id-by-id passes over the two sync.Maps follow.     *)
ReapLimiter ==
  /\ reaper.step = "limiter"
  /\ discoverRL' = SweepInterval(discoverRL, clock - 2 * MinInterval)
  /\ reaper' = [step |-> "keys", todo |-> NodeId]
  /\ UNCHANGED <<nodes, dstNodes, pubKeys, task, clock, history>>

(* nodePubKeys.Range and dstNodes.Range: Range visits a key at most once,   *)
(* in any order, and its callback asks nodes.Has before it deletes.  The    *)
(* answer of Has can be stale by the time of the Delete.                    *)
ReapVisit(step, present, delete, next) ==
  /\ reaper.step = step
  /\ \/ \E id \in reaper.todo :
          LET rest == reaper.todo \ {id} IN
          reaper' = IF id \in present /\ ~ Has(nodes, id)
                    THEN [step |-> delete, todo |-> rest, id |-> id]
                    ELSE [step |-> step, todo |-> rest]
     \/ reaper.todo = {} /\ reaper' = next
  /\ UNCHANGED <<tables, task, clock, history>>

ReapKeys == ReapVisit("keys", {id \in NodeId : pubKeys[id] # NoKey}, "delkey",
                      [step |-> "dst", todo |-> NodeId])

ReapDeleteKey ==
  /\ reaper.step = "delkey"
  /\ pubKeys' = [pubKeys EXCEPT ![reaper.id] = NoKey]
  /\ reaper' = [step |-> "keys", todo |-> reaper.todo]
  /\ UNCHANGED <<nodes, dstNodes, discoverRL, task, clock, history>>

(* A mutant: dstNodes has no Delete.                                        *)
ReapDstNever == ReapVisit("dst", {}, "deldst", ReaperIdle)

ReapDst == ReapVisit("dst", dstNodes, "deldst", ReaperIdle)

ReapDeleteDst ==
  /\ reaper.step = "deldst"
  /\ dstNodes' = dstNodes \ {reaper.id}
  /\ reaper' = [step |-> "dst", todo |-> reaper.todo]
  /\ UNCHANGED <<nodes, pubKeys, discoverRL, task, clock, history>>

ReapStep ==
  \/ ReapStart \/ ReapShard \/ ReapLimiter
  \/ ReapKeys \/ ReapDeleteKey \/ ReapDst \/ ReapDeleteDst

-----------------------------------------------------------------------------
(* Time passes.  The daemon of a live id gets a Discover handled at least   *)
(* every Heartbeat, and a Discover of a live id is handled in less than a   *)
(* tick; the Discovers of other ids may take as long as they like.          *)
Tick ==
  /\ clock < MaxClock
  /\ \A id \in Live : clock - beat[id] < Heartbeat
  /\ \A r \in Reader : task[r] # Idle => task[r].id \notin Live
  /\ clock' = clock + 1
  /\ UNCHANGED <<tables, task, reaper, history>>

Next ==
  \/ \E r \in Reader : DiscoverStep(r)
  \/ \E id \in NodeId, a \in Addr : PunchRefresh(id, a)
  \/ \E id \in NodeId : NotifyNode(id)
  \/ ReapStep
  \/ Tick

(* The reaper's ticker fires for ever and safely() keeps its goroutine      *)
(* alive.  Nothing is assumed of the readers.                               *)
Fairness == WF_vars(ReapStep)

Spec == Init /\ [][Next]_vars

FairSpec == Spec /\ Fairness

-----------------------------------------------------------------------------
(* Every table, reader and the reaper holds what its Go type and the        *)
(* control flow of handleDiscover and reapStaleNodes allow.                 *)
TypeOK ==
  /\ nodes \in NodeTable
  /\ dstNodes \in SUBSET NodeId
  /\ pubKeys \in [NodeId -> Key \cup {NoKey}]
  /\ discoverRL \in [NodeId -> Nat \cup {Never}]
  /\ task \in [Reader -> {Idle} \cup Discover]
  /\ reaper \in {ReaperIdle} \cup Reaping
  /\ clock \in Nat
  /\ lastAllow \in [NodeId -> Nat \cup {Never}]
  /\ beat \in [Live -> Nat]
  /\ joined \in SUBSET NodeId

(* A daemon that keeps its heartbeat is never reaped: although the Discover *)
(* limiter lets most of its Discovers refresh nothing, the entry it once    *)
(* got in nodes stays there through every pass of reapStaleNodes.           *)
LiveStaysRegistered == \A id \in Live \cap joined : Has(nodes, id)

(* No shard of nodes grows beyond its share of maxBeaconNodes, whichever    *)
(* mix of Discovers, punches and reaps runs.                                *)
ShardWithinCap ==
  MaxTotal > 0 =>
    \A sh \in Shard : Cardinality(ShardIds(nodes, sh)) <= MaxTotal \div ShardCount

(* discoverRL.allow lets two Discovers of one id through only MinInterval   *)
(* apart, however reapStaleNodes' sweep of the limiter falls in between.    *)
Admits(r) == At(r, "limit") /\ task'[r] # Idle /\ task'[r].step = "upsert"

DiscoverSpacing ==
  [][\A r \in Reader : Admits(r) =>
       LET last == lastAllow[task[r].id]
       IN  last = Never \/ clock - last >= MinInterval]_vars

(* dstNodes and nodePubKeys do not collect ids for ever: an entry whose     *)
(* node never makes it into nodes (or has left it) is dropped again.        *)
OrphansAreDropped ==
  \A id \in NodeId :
    /\ []<>(id \in dstNodes => Has(nodes, id))
    /\ []<>(pubKeys[id] # NoKey => Has(nodes, id))
=============================================================================
