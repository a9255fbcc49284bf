---------------------------- MODULE Server_proofs ---------------------------
(***************************************************************************)
(* Proofs about the server as a whole: its life cycle (Lifecycle), for any *)
(* number of sockets, loops and callers of Close, and the mesh its gossip  *)
(* and registry loops build with other beacons (Gossip), for every set of  *)
(* beacons, node ids and endpoints and every value of the caps.            *)
(***************************************************************************)
EXTENDS Lifecycle, Gossip, TLAPS

-----------------------------------------------------------------------------
(* The inductive invariant.                                                 *)
(*                                                                          *)
(* ServesUntilClosed speaks of "serve" only, so it says nothing of the      *)
(* steps that lead there: Untouched extends it to all of ListenAndServe.    *)
(* CloseIsComplete holds because the sockets found and still open are those *)
(* that the teardown has to close, and nobody returns before it has.        *)

(* Goroutines are started by Spawn, and a failed bind holds no socket.      *)
Started ==
  /\ listen \in {"bind", "failed", "spawn"} =>
       (\A i \in Socket : reader[i] = "off") /\ (\A l \in Loop : loop[l] = "off")
  /\ listen \in {"serve", "returned"} => \A l \in Loop : loop[l] # "off"
  /\ listen = "failed" => open = {}

(* Before Close closes done, no socket is closed and nothing has ended.     *)
Untouched ==
  ~ done =>
    /\ listen # "failed" => open = 1 .. conns
    /\ \A i \in Socket : reader[i] # "ended"
    /\ \A l \in Loop : loop[l] # "ended"

(* closeOnce: one teardown, and no return before its end.                   *)
Teardown ==
  /\ seen \cap open \subseteq todo
  /\ once = "free" => \A c \in Closer : closer[c] = "idle"
  /\ once = "done" => todo = {} /\ \A c \in Closer : closer[c] \in {"idle", "returned"}
  /\ \A c \in Closer : closer[c] = "returned" => once = "done"

Inv == TypeOK /\ Started /\ Untouched /\ Teardown

LEMMA InitInv == Init => Inv
<1> SUFFICES ASSUME Init PROVE Inv
  OBVIOUS
<1>1. TypeOK
  <2>1. conns \in 0 .. SocketCount
    BY LifecycleAssumption DEF Init
  <2>2. \A c, d \in Closer : {closer[c], closer[d]} \subseteq {"range", "close"} => c = d
    BY DEF Init
  <2>3. ready \in BOOLEAN /\ (ready <=> listen \in {"spawn", "serve", "returned"})
    BY DEF Init
  <2> QED
    BY <2>1, <2>2, <2>3, Zenon DEF Init, TypeOK
<1>2. Started /\ Untouched /\ Teardown
  BY DEF Init, Started, Untouched, Teardown
<1> QED
  BY <1>1, <1>2 DEF Inv

-----------------------------------------------------------------------------
(* ListenAndServe. *)

LEMMA BindInv == Inv /\ Bind => Inv'
<1> SUFFICES ASSUME Inv, Bind PROVE Inv'
  OBVIOUS
<1> USE LifecycleAssumption DEF Bind, goroutines, teardown
<1>1. TypeOK'
  BY DEF Inv, TypeOK
<1>2. Started'
  BY DEF Inv, Started
<1>3. Untouched'
  BY DEF Inv, TypeOK, Untouched
<1>4. Teardown'
  BY DEF Inv, TypeOK, Teardown
<1> QED
  BY <1>1, <1>2, <1>3, <1>4 DEF Inv

LEMMA BindFailsInv == Inv /\ BindFails => Inv'
<1> SUFFICES ASSUME Inv, BindFails PROVE Inv'
  OBVIOUS
<1> USE DEF BindFails, goroutines, teardown
<1>1. TypeOK'
  BY DEF Inv, TypeOK
<1>2. Started'
  BY DEF Inv, TypeOK, Started
<1>3. Untouched'
  BY DEF Inv, TypeOK, Untouched
<1>4. Teardown'
  BY DEF Inv, Teardown
<1> QED
  BY <1>1, <1>2, <1>3, <1>4 DEF Inv

LEMMA PublishInv == Inv /\ Publish => Inv'
<1> SUFFICES ASSUME Inv, Publish PROVE Inv'
  OBVIOUS
<1> USE DEF Publish, goroutines, teardown
<1>1. TypeOK'
  BY Zenon DEF Inv, TypeOK
<1>2. Started' /\ Untouched' /\ Teardown'
  BY DEF Inv, Started, Untouched, Teardown
<1> QED
  BY <1>1, <1>2 DEF Inv

LEMMA SpawnInv == Inv /\ Spawn => Inv'
<1> SUFFICES ASSUME Inv, Spawn PROVE Inv'
  OBVIOUS
<1> USE DEF Spawn, teardown
<1>1. TypeOK'
  BY DEF Inv, TypeOK
<1>2. Started' /\ Untouched' /\ Teardown'
  BY DEF Inv, Started, Untouched, Teardown
<1> QED
  BY <1>1, <1>2 DEF Inv

LEMMA ReturnInv == Inv /\ Return => Inv'
<1> SUFFICES ASSUME Inv, Return PROVE Inv'
  OBVIOUS
<1> USE DEF Return, goroutines, teardown
<1>1. TypeOK'
  BY DEF Inv, TypeOK
<1>2. Started' /\ Untouched' /\ Teardown'
  BY DEF Inv, Started, Untouched, Teardown
<1> QED
  BY <1>1, <1>2 DEF Inv

-----------------------------------------------------------------------------
(* The readers and the loops.  A reader ends only on a closed socket or     *)
(* with done closed, and before done is closed there is no closed socket.   *)

LEMMA ReaderInv ==
  ASSUME Inv, NEW i \in Socket, ReaderStep(i)
  PROVE  Inv'
<1>1. PICK l \in {"read", "handle", "ended"} :
        ReaderGoto(i, l) /\ reader[i] # "off" /\ (l = "ended" => i \notin open \/ done)
  BY DEF ReaderStep, ReadPackets, Handled, BatchPanic, ReadFails
<1> USE <1>1 DEF ReaderGoto, teardown
<1>2. listen \in {"serve", "returned"}
  BY DEF Inv, TypeOK, Started
<1>3. i \notin open => done
  BY <1>2, Zenon DEF Inv, TypeOK, Untouched, Socket
<1>4. TypeOK'
  BY DEF Inv, TypeOK
<1>5. Started'
  BY <1>2 DEF Inv, Started
<1>6. Untouched'
  BY <1>3 DEF Inv, TypeOK, Untouched
<1>7. Teardown'
  BY DEF Inv, Teardown
<1> QED
  BY <1>4, <1>5, <1>6, <1>7 DEF Inv

LEMMA LoopInv ==
  ASSUME Inv, NEW l \in Loop, LoopStep(l)
  PROVE  Inv'
<1>1. PICK where \in {"select", "work", "ended"} :
        LoopGoto(l, where) /\ loop[l] # "off" /\ (where = "ended" => done)
  BY Zenon DEF LoopStep, LoopWork, LoopWorked, LoopPanic, LoopDone
<1> USE <1>1 DEF LoopGoto, teardown
<1>2. TypeOK'
  BY Zenon DEF Inv, TypeOK
<1>3. Started'
  BY DEF Inv, TypeOK, Started
<1>4. Untouched' /\ Teardown'
  BY DEF Inv, TypeOK, Untouched, Teardown
<1> QED
  BY <1>2, <1>3, <1>4 DEF Inv

-----------------------------------------------------------------------------
(* Close. *)

LEMMA CloseFirstInv ==
  ASSUME Inv, NEW c \in Closer, CloseFirst(c)
  PROVE  Inv'
<1> USE DEF CloseFirst, CloserGoto, goroutines
<1>1. TypeOK'
  BY Zenon DEF Inv, TypeOK, Teardown
<1>2. Started' /\ Untouched'
  BY DEF Inv, Started, Untouched
<1>3. Teardown'
  BY DEF Inv, TypeOK, Teardown
<1> QED
  BY <1>1, <1>2, <1>3 DEF Inv

(* The teardown belongs to the one caller that is in it.                    *)
LEMMA TeardownOwner ==
  ASSUME Inv, NEW c \in Closer, closer[c] \in {"range", "close"}
  PROVE  /\ once = "taken" /\ done
         /\ \A d \in Closer \ {c} : closer[d] = "idle"
  BY Zenon DEF Inv, TypeOK, Teardown

LEMMA CloseRangeInv ==
  ASSUME Inv, NEW c \in Closer, CloseRange(c)
  PROVE  Inv'
<1> USE TeardownOwner DEF CloseRange, CloserGoto, goroutines
<1>1. TypeOK'
  BY DEF Inv, TypeOK
<1>2. Started' /\ Untouched'
  BY DEF Inv, Started, Untouched
<1>3. Teardown'
  BY DEF Inv, TypeOK, Teardown
<1> QED
  BY <1>1, <1>2, <1>3 DEF Inv

LEMMA CloseSocketInv ==
  ASSUME Inv, NEW c \in Closer, NEW i \in Socket, CloseSocket(c, i)
  PROVE  Inv'
<1> USE TeardownOwner DEF CloseSocket, goroutines
<1>1. TypeOK'
  BY DEF Inv, TypeOK
<1>2. Started' /\ Untouched'
  BY DEF Inv, Started, Untouched
<1>3. Teardown'
  BY DEF Inv, Teardown
<1> QED
  BY <1>1, <1>2, <1>3 DEF Inv

LEMMA CloseEndInv ==
  ASSUME Inv, NEW c \in Closer, CloseEnd(c)
  PROVE  Inv'
<1> USE TeardownOwner DEF CloseEnd, CloserGoto, goroutines
<1>1. TypeOK'
  BY DEF Inv, TypeOK
<1>2. Started' /\ Untouched'
  BY DEF Inv, Started, Untouched
<1>3. Teardown'
  BY DEF Inv, TypeOK, Teardown
<1> QED
  BY <1>1, <1>2, <1>3 DEF Inv

LEMMA CloseAgainInv ==
  ASSUME Inv, NEW c \in Closer, CloseAgain(c)
  PROVE  Inv'
<1> USE DEF CloseAgain, CloserGoto, goroutines
<1>1. TypeOK'
  BY DEF Inv, TypeOK
<1>2. Started' /\ Untouched'
  BY DEF Inv, Started, Untouched
<1>3. Teardown'
  BY DEF Inv, TypeOK, Teardown
<1> QED
  BY <1>1, <1>2, <1>3 DEF Inv

-----------------------------------------------------------------------------
LEMMA StepInv == Inv /\ [Next]_vars => Inv'
<1> SUFFICES ASSUME Inv, [Next]_vars PROVE Inv'
  OBVIOUS
<1>1. CASE ListenStep
  BY <1>1, BindInv, BindFailsInv, PublishInv, SpawnInv, ReturnInv DEF ListenStep
<1>2. CASE \E i \in Socket : ReaderStep(i)
  BY <1>2, ReaderInv
<1>3. CASE \E l \in Loop : LoopStep(l)
  BY <1>3, LoopInv
<1>4. CASE \E c \in Closer : CloseFirst(c) \/ CloseStep(c) \/ CloseAgain(c)
  BY <1>4, CloseFirstInv, CloseRangeInv, CloseSocketInv, CloseEndInv, CloseAgainInv
     DEF CloseStep
<1>5. CASE UNCHANGED vars
  BY <1>5 DEF vars, goroutines, teardown, Inv, TypeOK, Started, Untouched, Teardown
<1> QED
  BY <1>1, <1>2, <1>3, <1>4, <1>5 DEF Next

LEMMA Invariance == Spec => []Inv
  BY InitInv, StepInv, PTL DEF Spec

(* Readiness is announced with every socket bound, and closeOnce admits one *)
(* caller to the teardown.                                                  *)
THEOREM Typing == Spec => []TypeOK
  BY Invariance, PTL DEF Inv

(* No panic and no read error ends a reader or a loop, or closes a socket,  *)
(* before somebody calls Close.                                             *)
THEOREM Serves == Spec => []ServesUntilClosed
<1>1. Inv => ServesUntilClosed
  BY Zenon DEF Inv, TypeOK, Started, Untouched, ServesUntilClosed, Socket
<1> QED
  BY <1>1, Invariance, PTL

(* No caller of Close returns before the sockets that the teardown found    *)
(* are closed, and none of them is open again afterwards.                   *)
THEOREM CloseCompletes == Spec => []CloseIsComplete
<1>1. Inv => CloseIsComplete
  BY DEF Inv, Teardown, CloseIsComplete
<1> QED
  BY <1>1, Invariance, PTL

(* A failed ListenAndServe leaves no socket and no goroutine behind.        *)
THEOREM FailureIsClean == Spec => []FailureLeavesNothing
<1>1. Inv => FailureLeavesNothing
  BY DEF Inv, Started, FailureLeavesNothing
<1> QED
  BY <1>1, Invariance, PTL

-----------------------------------------------------------------------------
(* The mesh.  Its invariant is inductive with the types alone: handleSync   *)
(* stamps the sender in gossipSeen under the lock that writes its routes.   *)
MeshInv == MeshTypeOK /\ RouteOwnerSeen

USE DEF Never

LEMMA MeshInitInv == MeshInit => MeshInv
  BY GossipAssumption DEF MeshInit, MeshInv, MeshTypeOK, RouteOwnerSeen, NoRoutes, NothingSeen, Sync

(* The ids of a sync are ids that the sender has.                           *)
LEMMA GossipIdsType ==
  ASSUME MeshTypeOK, NEW b \in Beacon, NEW ids \in GossipIds(b)
  PROVE  ids \in SUBSET NodeId
  BY DEF GossipIds, kSubset, MeshTypeOK

LEMMA MeshStepInv == MeshInv /\ [MeshNext]_meshVars => MeshInv'
<1> SUFFICES ASSUME MeshInv, [MeshNext]_meshVars PROVE MeshInv'
  OBVIOUS
<1> USE GossipAssumption DEF MeshInv
<1>1. ASSUME NEW b \in Beacon, NEW id \in NodeId, Register(b, id) \/ Reap(b, id)
      PROVE  MeshInv'
  <2>1. nodes' \in [Beacon -> SUBSET NodeId]
    BY <1>1 DEF Register, Reap, MeshTypeOK
  <2>2. UNCHANGED <<up, peers, peerNodes, gossipSeen, net>>
    BY <1>1 DEF Register, Reap, routes
  <2> QED
    BY <2>1, <2>2 DEF MeshTypeOK, RouteOwnerSeen
<1>2. ASSUME NEW b \in Beacon, SendGossip(b)
      PROVE  MeshInv'
  <2>1. PICK ids \in GossipIds(b), e \in Endpoint :
          net' \subseteq net \cup {[src |-> e, to |-> peer, ids |-> ids] : peer \in peers[b]}
    BY <1>2 DEF SendGossip
  <2>2. ids \in SUBSET NodeId
    BY GossipIdsType
  <2>3. net' \subseteq Sync
    BY <2>1, <2>2 DEF MeshTypeOK, Sync
  <2>4. UNCHANGED <<up, nodes, peers, peerNodes, gossipSeen>>
    BY <1>2 DEF SendGossip, routes
  <2> QED
    BY <2>3, <2>4 DEF MeshTypeOK, RouteOwnerSeen
<1>3. ASSUME NEW b \in Beacon, NEW m \in net, handleSync(b, m)
      PROVE  MeshInv'
  <2>1. m.src \in Endpoint /\ m.ids \in SUBSET NodeId
    BY DEF MeshTypeOK, Sync
  <2>2. CASE UNCHANGED routes
    BY <1>3, <2>2 DEF handleSync, routes, MeshTypeOK, RouteOwnerSeen
  <2>3. CASE ~ UNCHANGED routes
    <3> DEFINE table == ApplySync(b, m.src, m.ids)
               stamps == [gossipSeen[b] EXCEPT ![m.src] = 0]
    <3>1. /\ peerNodes' = [peerNodes EXCEPT ![b] = table]
          /\ gossipSeen' = [gossipSeen EXCEPT ![b] = stamps]
          /\ UNCHANGED <<up, nodes, peers>> /\ net' \subseteq net
      BY <1>3, <2>3 DEF handleSync
    <3>2. table \in [NodeId -> Endpoint \cup {NoRoute}]
      BY <2>1 DEF ApplySync, MeshTypeOK
    <3>3. stamps \in [Endpoint -> {Never} \cup 0 .. GossipTTL + 1]
      BY <2>1 DEF MeshTypeOK
    <3>4. \A id \in NodeId : table[id] # NoRoute => stamps[table[id]] # Never
      BY <2>1 DEF ApplySync, MeshTypeOK, RouteOwnerSeen
    <3> HIDE DEF table, stamps
    <3>5. MeshTypeOK'
      BY <3>1, <3>2, <3>3 DEF MeshTypeOK
    <3>6. RouteOwnerSeen'
      BY <3>1, <3>4 DEF MeshTypeOK, RouteOwnerSeen
    <3> QED
      BY <3>5, <3>6
  <2> QED
    BY <2>2, <2>3
<1>4. ASSUME NEW m \in net, Lose(m)
      PROVE  MeshInv'
  BY <1>4 DEF Lose, routes, MeshTypeOK, RouteOwnerSeen
<1>5. ASSUME NEW b \in Beacon, sweepStaleGossip(b)
      PROVE  MeshInv'
  <2>1. MeshTypeOK'
    BY <1>5 DEF sweepStaleGossip, MeshTypeOK
  <2>2. \A e \in Endpoint : gossipSeen'[b][e] = IF e \in Stale(b) THEN Never ELSE gossipSeen[b][e]
    BY <1>5 DEF sweepStaleGossip, MeshTypeOK
  <2>3. \A id \in NodeId : peerNodes'[b][id] = IF peerNodes[b][id] \in Stale(b)
                                               THEN NoRoute ELSE peerNodes[b][id]
    BY <1>5 DEF sweepStaleGossip, MeshTypeOK
  <2>4. \A a \in Beacon \ {b} : peerNodes'[a] = peerNodes[a] /\ gossipSeen'[a] = gossipSeen[a]
    BY <1>5 DEF sweepStaleGossip, MeshTypeOK
  <2>5. RouteOwnerSeen'
    BY <2>2, <2>3, <2>4 DEF MeshTypeOK, RouteOwnerSeen
  <2> QED
    BY <2>1, <2>5
<1>6. ASSUME Tick
      PROVE  MeshInv'
  <2>1. \A age \in {Never} \cup 0 .. GossipTTL + 1 :
          /\ Older(age) \in {Never} \cup 0 .. GossipTTL + 1
          /\ age # Never => Older(age) # Never
    BY DEF Older
  <2>2. MeshTypeOK'
    BY <1>6, <2>1 DEF Tick, MeshTypeOK
  <2>3. RouteOwnerSeen'
    BY <1>6, <2>1 DEF Tick, MeshTypeOK, RouteOwnerSeen
  <2> QED
    BY <2>2, <2>3
<1>7. ASSUME NEW b \in Beacon, registryDiscover(b)
      PROVE  MeshInv'
  BY <1>7 DEF registryDiscover, routes, MeshTypeOK, RouteOwnerSeen
<1>8. ASSUME NEW b \in Beacon, Crash(b)
      PROVE  MeshInv'
  BY <1>8 DEF Crash, NoRoutes, NothingSeen, MeshTypeOK, RouteOwnerSeen
<1>9. ASSUME NEW b \in Beacon, Restart(b)
      PROVE  MeshInv'
  BY <1>9 DEF Restart, routes, MeshTypeOK, RouteOwnerSeen
<1>10. CASE UNCHANGED meshVars
  BY <1>10 DEF meshVars, routes, MeshTypeOK, RouteOwnerSeen
<1> QED
  BY <1>1, <1>2, <1>3, <1>4, <1>5, <1>6, <1>7, <1>8, <1>9, <1>10 DEF MeshNext

(* Routing tables stay well formed in every mesh.                           *)
THEOREM MeshTyping == MeshSpec => []MeshTypeOK
  BY MeshInitInv, MeshStepInv, PTL DEF MeshSpec, MeshInv

(* Every route that handleSync ever installed has an owner whose silence    *)
(* sweepStaleGossip will notice, in every mesh.                             *)
THEOREM RoutesHaveOwners == MeshSpec => []RouteOwnerSeen
  BY MeshInitInv, MeshStepInv, PTL DEF MeshSpec, MeshInv

(* No step but a sync of its owner, or a sweep after more than gossipPeerTTL *)
(* of silence, withdraws a route of a running beacon.                       *)
THEOREM OwnersWithdraw == MeshSpec => OnlyOwnerWithdraws
<1> DEFINE A == \A b \in up', id \in NodeId : Withdrawn(b, id) =>
                  LET owner == peerNodes[b][id] IN
                  \/ gossipSeen[b][owner] > GossipTTL
                  \/ \E m \in net \ net' : m.src = owner /\ m.to = b
<1>1. ASSUME MeshInv, MeshNext PROVE A
  <2> SUFFICES ASSUME NEW b \in up', NEW id \in NodeId, Withdrawn(b, id)
               PROVE  \/ gossipSeen[b][peerNodes[b][id]] > GossipTTL
                      \/ \E m \in net \ net' : m.src = peerNodes[b][id] /\ m.to = b
    OBVIOUS
  <2> USE <1>1, GossipAssumption DEF Withdrawn, MeshInv, MeshTypeOK
  <2>1. b \in Beacon
    BY MeshStepInv
  <2>2. CASE \E c \in Beacon, m \in net : handleSync(c, m)
    <3>1. PICK c \in Beacon, m \in net : handleSync(c, m)
      BY <2>2
    <3>2. CASE c # b \/ UNCHANGED routes
      BY <2>1, <3>1, <3>2 DEF handleSync, routes
    <3>3. CASE c = b /\ ~ UNCHANGED routes
      <4>1. peerNodes'[b] = ApplySync(b, m.src, m.ids)
        BY <3>1, <3>3 DEF handleSync
      <4>2. peerNodes[b][id] = m.src
        BY <4>1 DEF ApplySync, Sync
      <4> QED
        BY <3>1, <3>3, <4>2 DEF handleSync
    <3> QED
      BY <3>2, <3>3
  <2>3. CASE \E c \in Beacon : sweepStaleGossip(c)
    BY <2>1, <2>3 DEF sweepStaleGossip, Stale
  <2>4. CASE \E c \in Beacon : Crash(c)
    BY <2>1, <2>4 DEF Crash
  <2>5. CASE UNCHANGED peerNodes
    BY <2>5
  <2> QED
    BY <1>1, <2>2, <2>3, <2>4, <2>5
    DEF MeshNext, Register, Reap, SendGossip, Lose, Tick, registryDiscover, Restart, routes
<1>2. MeshInv /\ [MeshNext]_meshVars => [A]_meshVars
  BY <1>1
<1> QED
  BY <1>2, MeshInitInv, MeshStepInv, PTL DEF MeshSpec, OnlyOwnerWithdraws
=============================================================================
