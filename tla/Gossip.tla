-------------------------------- MODULE Gossip ------------------------------
(***************************************************************************)
(* The beacon mesh: gossipLoop/sendGossip, handleSync, sweepStaleGossip    *)
(* and registryDiscover on several beacons, over a network that loses,     *)
(* delays and reorders datagrams, with beacons that crash and restart.     *)
(*                                                                         *)
(* A sync is identified by the endpoint it is seen to come from: the       *)
(* sender's address, and a port that a middlebox may have rewritten.  The  *)
(* time since a source's last sync is an age that Tick advances, capped    *)
(* once it is beyond GossipTTL.                                            *)
(***************************************************************************)
EXTENDS Integers, FiniteSets, FiniteSetsExt

CONSTANTS Beacon, NodeId,
          Endpoint,      \* <<beacon, port>> pairs gossip may be seen to come from
          Configured,    \* the -peers of each beacon
          UsesRegistry,  \* beacons that have a registry address
          Strict,        \* beacons with SetStrictGossip(true)
          GossipTTL,     \* gossipPeerTTL
          GossipCap,     \* ids that sendGossip puts in one sync (65535)
          DatagramCap,   \* ids of a sync that fits in a UDP datagram (16375)
          MaxInFlight,   \* bound on a beacon's syncs in flight; the network loses the rest
          NoRoute

Never == -1

ASSUME GossipAssumption ==
  /\ \A e \in Endpoint : e[1] \in Beacon
  /\ Configured \in [Beacon -> SUBSET Beacon]
  /\ UsesRegistry \subseteq Beacon /\ Strict \subseteq Beacon
  /\ GossipTTL \in Nat /\ GossipCap \in Nat /\ DatagramCap \in Nat /\ MaxInFlight \in Nat
  /\ NoRoute \notin Endpoint

VARIABLES up,          \* beacons that run
          nodes,       \* ids in each beacon's Server.nodes
          peers,       \* Server.peers
          peerNodes,   \* Server.peerNodes: id to the endpoint that announced it
          gossipSeen,  \* Server.gossipSeen: source endpoint to age
          net          \* syncs in flight

routes == <<peerNodes, gossipSeen>>
meshVars == <<up, nodes, peers, routes, net>>

Sync == [src : Endpoint, to : Beacon, ids : SUBSET NodeId]

NoRoutes == [id \in NodeId |-> NoRoute]
NothingSeen == [e \in Endpoint |-> Never]

MeshInit ==
  /\ up = Beacon
  /\ nodes = [b \in Beacon |-> {}]
  /\ peers = Configured
  /\ peerNodes = [b \in Beacon |-> NoRoutes]
  /\ gossipSeen = [b \in Beacon |-> NothingSeen]
  /\ net = {}

-----------------------------------------------------------------------------
(* nodes.Upsert and ReapStale of one id, as far as the mesh can tell.       *)
Register(b, id) ==
  /\ b \in up /\ id \notin nodes[b]
  /\ nodes' = [nodes EXCEPT ![b] = @ \cup {id}]
  /\ UNCHANGED <<up, peers, routes, net>>

Reap(b, id) ==
  /\ b \in up /\ id \in nodes[b]
  /\ nodes' = [nodes EXCEPT ![b] = @ \ {id}]
  /\ UNCHANGED <<up, peers, routes, net>>

(* The ids that go into a sync: all, or GossipCap of them in map order.     *)
GossipIds(b) ==
  IF Cardinality(nodes[b]) <= GossipCap THEN {nodes[b]} ELSE kSubset(GossipCap, nodes[b])

(* WriteToUDP (external) refuses a datagram beyond the UDP limit.           *)
Sendable(ids) == Cardinality(ids) <= DatagramCap

Sent(b) == {m \in net : m.src[1] = b}

SendGossip(b) ==
  /\ b \in up
  /\ \E ids \in GossipIds(b), e \in Endpoint : e[1] = b /\
       LET sync == {[src |-> e, to |-> peer, ids |-> ids] : peer \in peers[b]}
       IN  net' = IF Sendable(ids) /\ Cardinality(sync \cup Sent(b)) <= MaxInFlight
                  THEN net \cup sync ELSE net
  /\ UNCHANGED <<up, nodes, peers, routes>>

(* isKnownGossipPeer compares addresses and not ports.                      *)
isKnownGossipPeer(b, e) == e[1] \in peers[b]

(* A mutant: a sync replaces all routes of its sender's address.            *)
ApplySyncByAddress(b, src, ids) ==
  [id \in NodeId |->
     IF id \in ids \ nodes[b] THEN src
     ELSE IF peerNodes[b][id] # NoRoute /\ peerNodes[b][id][1] = src[1]
          THEN NoRoute ELSE peerNodes[b][id]]

(* A mutant: routes only to the nodes that need none.                       *)
ApplySyncInverted(b, src, ids) ==
  [id \in NodeId |->
     IF id \in ids \cap nodes[b] THEN src
     ELSE IF peerNodes[b][id] = src THEN NoRoute ELSE peerNodes[b][id]]

(* The table after a sync: the source's old routes go, and every announced  *)
(* id that is not registered here points to the source.                     *)
ApplySync(b, src, ids) ==
  [id \in NodeId |->
     IF id \in ids \ nodes[b] THEN src
     ELSE IF peerNodes[b][id] = src THEN NoRoute ELSE peerNodes[b][id]]

(* A mutant: the time of the sync is not recorded.                          *)
handleSyncUnseen(b, m) ==
  /\ b \in up /\ m.to = b
  /\ net' = net \ {m}
  /\ peerNodes' = [peerNodes EXCEPT ![b] = ApplySync(b, m.src, m.ids)]
  /\ UNCHANGED <<up, nodes, peers, gossipSeen>>

handleSync(b, m) ==
  /\ b \in up /\ m.to = b
  /\ net' = net \ {m}
  /\ IF b \in Strict /\ ~ isKnownGossipPeer(b, m.src)
     THEN UNCHANGED routes
     ELSE /\ peerNodes' = [peerNodes EXCEPT ![b] = ApplySync(b, m.src, m.ids)]
          /\ gossipSeen' = [gossipSeen EXCEPT ![b] = [@ EXCEPT ![m.src] = 0]]
  /\ UNCHANGED <<up, nodes, peers>>

Lose(m) ==
  /\ net' = net \ {m}
  /\ UNCHANGED <<up, nodes, peers, routes>>

Stale(b) == {e \in Endpoint : gossipSeen[b][e] > GossipTTL}

(* A mutant: the sweep forgets the silent sources and keeps their routes.   *)
sweepKeepsRoutes(b) ==
  /\ b \in up
  /\ gossipSeen' = [gossipSeen EXCEPT ![b] =
       [e \in Endpoint |-> IF e \in Stale(b) THEN Never ELSE @[e]]]
  /\ UNCHANGED <<up, nodes, peers, peerNodes, net>>

sweepStaleGossip(b) ==
  /\ b \in up
  /\ peerNodes' = [peerNodes EXCEPT ![b] =
       [id \in NodeId |-> IF @[id] \in Stale(b) THEN NoRoute ELSE @[id]]]
  /\ gossipSeen' = [gossipSeen EXCEPT ![b] =
       [e \in Endpoint |-> IF e \in Stale(b) THEN Never ELSE @[e]]]
  /\ UNCHANGED <<up, nodes, peers, net>>

Older(age) == IF age = Never \/ age > GossipTTL THEN age ELSE age + 1

Tick ==
  /\ gossipSeen' = [b \in Beacon |-> [e \in Endpoint |-> Older(gossipSeen[b][e])]]
  /\ UNCHANGED <<up, nodes, peers, peerNodes, net>>

-----------------------------------------------------------------------------
(* A mutant: this beacon's own entry is not skipped.                        *)
registryDiscoverSelf(b) ==
  /\ b \in up \cap UsesRegistry
  /\ \E listed \in SUBSET Beacon : peers' = [peers EXCEPT ![b] = listed]
  /\ UNCHANGED <<up, nodes, routes, net>>

(* registryDiscover: the list that the registry (external) returns replaces *)
(* the whole peer set; this beacon's own id, addresses that do not resolve  *)
(* and anything malformed are skipped.  A failure on the way to the list    *)
(* changes nothing here.                                                    *)
registryDiscover(b) ==
  /\ b \in up \cap UsesRegistry
  /\ \E listed \in SUBSET Beacon : peers' = [peers EXCEPT ![b] = listed \ {b}]
  /\ UNCHANGED <<up, nodes, routes, net>>

-----------------------------------------------------------------------------
(* Nothing is persisted: NewWithPeers starts from the flags.                *)
Crash(b) ==
  /\ b \in up /\ up' = up \ {b}
  /\ nodes' = [nodes EXCEPT ![b] = {}]
  /\ peers' = [peers EXCEPT ![b] = Configured[b]]
  /\ peerNodes' = [peerNodes EXCEPT ![b] = NoRoutes]
  /\ gossipSeen' = [gossipSeen EXCEPT ![b] = NothingSeen]
  /\ UNCHANGED net

Restart(b) ==
  /\ b \notin up /\ up' = up \cup {b}
  /\ UNCHANGED <<nodes, peers, routes, net>>

MeshNext ==
  \/ \E b \in Beacon :
       \/ \E id \in NodeId : Register(b, id) \/ Reap(b, id)
       \/ SendGossip(b) \/ sweepStaleGossip(b)
       \/ \E m \in net : handleSync(b, m)
       \/ registryDiscover(b)
       \/ Crash(b) \/ Restart(b)
  \/ \E m \in net : Lose(m)
  \/ Tick

(* The gossip and reap tickers fire for ever on a running beacon, and time  *)
(* passes.  The network is not so bad that it loses every sync of a sender: *)
(* one that keeps sending is heard again and again.                         *)
MeshFairness ==
  /\ WF_meshVars(Tick)
  /\ \A b \in Beacon :
       /\ WF_meshVars(sweepStaleGossip(b)) /\ WF_meshVars(SendGossip(b))
       /\ \A a \in Beacon : SF_meshVars(\E m \in Sent(a) : handleSync(b, m))

MeshSpec == MeshInit /\ [][MeshNext]_meshVars

MeshFairSpec == MeshSpec /\ MeshFairness

-----------------------------------------------------------------------------
(* Routes point to endpoints of beacons, and the peer set never holds the   *)
(* beacon itself unless it was configured so (registryDiscover skips self). *)
MeshTypeOK ==
  /\ up \subseteq Beacon
  /\ nodes \in [Beacon -> SUBSET NodeId]
  /\ peers \in [Beacon -> SUBSET Beacon]
  /\ \A b \in Beacon : b \in peers[b] => b \in Configured[b]
  /\ peerNodes \in [Beacon -> [NodeId -> Endpoint \cup {NoRoute}]]
  /\ gossipSeen \in [Beacon -> [Endpoint -> {Never} \cup 0 .. GossipTTL + 1]]
  /\ net \subseteq Sync

(* No route outlives the memory of who announced it: the owner of every     *)
(* entry of peerNodes is in gossipSeen, so that sweepStaleGossip will find  *)
(* it once the owner falls silent.                                          *)
RouteOwnerSeen ==
  \A b \in Beacon, id \in NodeId :
    peerNodes[b][id] # NoRoute => gossipSeen[b][peerNodes[b][id]] # Never

(* A route is withdrawn only by a sync of its owner or, with the beacon     *)
(* still running, after the owner was silent for more than gossipPeerTTL:   *)
(* neither another beacon's sync nor the sweep takes away a live route.     *)
Withdrawn(b, id) == peerNodes[b][id] # NoRoute /\ peerNodes'[b][id] = NoRoute

OnlyOwnerWithdraws ==
  [][\A b \in up', id \in NodeId : Withdrawn(b, id) =>
       LET owner == peerNodes[b][id] IN
       \/ gossipSeen[b][owner] > GossipTTL
       \/ \E m \in net \ net' : m.src = owner /\ m.to = b]_meshVars

(* Routes to a node that no beacon has any more disappear for good, even    *)
(* when the beacon that announced it crashed or its syncs are lost.         *)
GhostRoutesVanish ==
  \A id \in NodeId :
    <>[](\A b \in Beacon : id \notin nodes[b])
      => <>[](\A b \in Beacon : peerNodes[b][id] = NoRoute)

(* "gossipLoop periodically sends the local node list to all peer beacons": *)
(* a beacon that is listed as a peer, and takes the sender's syncs, keeps   *)
(* learning a route to each node that stays registered with the sender.     *)
Announced(a, b, id) ==
  /\ {a, b} \subseteq up /\ id \in nodes[a] /\ b \in peers[a]
  /\ b \in Strict => a \in peers[b]

PeersLearnRoutes ==
  \A a, b \in Beacon, id \in NodeId :
    <>[]Announced(a, b, id) => []<>(id \in nodes[b] \/ peerNodes[b][id] # NoRoute)
=============================================================================
