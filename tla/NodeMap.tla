------------------------------ MODULE NodeMap -------------------------------
(***************************************************************************)
(* nodeMap (nodes_shard.go): the sharded table from node id to observed    *)
(* endpoint.  The operators take the table and return the table after one  *)
(* critical section of a shard lock.  A table is a total function; a node  *)
(* id that is not in its shard's map holds NoNode.                         *)
(***************************************************************************)
EXTENDS Integers, FiniteSets, RateLimit

CONSTANTS NodeId,      \* node ids (uint32 in the code)
          Addr,        \* UDP endpoints a datagram can be observed from
          ShardCount,  \* nodeShardCount
          MaxTotal,    \* maxBeaconNodes, the cap passed to Upsert; 0 is no cap
          NoNode       \* the value of a table at an absent id

Entry == [addr : Addr, lastSeen : Nat, lastNotify : Nat \cup {Never}]

ASSUME NodeMapAssumption ==
  /\ NodeId \subseteq Nat /\ IsFiniteSet(NodeId)
  /\ ShardCount \in Nat \ {0}
  /\ MaxTotal \in Nat
  /\ NoNode \notin Entry

Shard == 0 .. ShardCount - 1

shardFor(id) == id % ShardCount

NodeTable == [NodeId -> Entry \cup {NoNode}]

Has(m, id) == m[id] # NoNode

Registered(m) == {id \in NodeId : Has(m, id)}

ShardIds(m, sh) == {id \in Registered(m) : shardFor(id) = sh}

(* A mutant: a shard is compared with the global cap.                       *)
AtCapacityGlobal(m, id) ==
  /\ ~ Has(m, id)
  /\ MaxTotal > 0
  /\ Cardinality(ShardIds(m, shardFor(id))) >= MaxTotal

(* Upsert inserts nothing when the id is new and its shard holds its share  *)
(* of the global cap.                                                       *)
AtCapacity(m, id) ==
  /\ ~ Has(m, id)
  /\ MaxTotal > 0
  /\ Cardinality(ShardIds(m, shardFor(id))) >= MaxTotal \div ShardCount

Upsert(m, id, a, now) ==
  IF Has(m, id)
  THEN [m EXCEPT ![id] = [@ EXCEPT !.addr = a, !.lastSeen = now]]
  ELSE IF AtCapacity(m, id)
       THEN m
       ELSE [m EXCEPT ![id] = [addr |-> a, lastSeen |-> now, lastNotify |-> Never]]

(* One shard's turn of ReapStale.                                           *)
ReapShardStale(m, sh, threshold) ==
  [id \in NodeId |->
     IF shardFor(id) = sh /\ Has(m, id) /\ m[id].lastSeen < threshold
     THEN NoNode ELSE m[id]]

(* claimNotify: does the entry's last notify leave room for another now?    *)
NotifyAllowed(m, id, now, minGap) ==
  Has(m, id) /\ IntervalAllows(m[id].lastNotify, now, minGap)

ClaimNotify(m, id, now) == [m EXCEPT ![id] = [@ EXCEPT !.lastNotify = now]]
=============================================================================
