---------------------------- MODULE Punch_proofs ----------------------------
(***************************************************************************)
(* Proofs about Punch, for any readers, nodes, endpoints and capacity.  A  *)
(* reader's invariants speak of its own request and the node table, so a   *)
(* step is either the reader's own or one of the environment, which are    *)
(* treated once for all of them (TableKeeps and OtherKeeps).               *)
(***************************************************************************)
EXTENDS Punch, TLAPS

LEMMA AtTypes ==
  ASSUME NEW m \in NodeTable, NEW id \in NodeId
  PROVE  At(m, id) \in Endpoint /\ (Has(m, id) <=> At(m, id) \in Addr)
<1>1. Has(m, id) => m[id].addr \in Addr
  BY DEF Has, NodeTable, Entry
<1> QED
  BY <1>1, PunchAssumption DEF At, Endpoint

LEMMA UpsertTypes ==
  ASSUME NEW m \in NodeTable, NEW id \in NodeId, NEW a \in Addr
  PROVE  Upsert(m, id, a, 0) \in NodeTable
<1>1. CASE Has(m, id)
  <2> DEFINE e == [m[id] EXCEPT !.addr = a, !.lastSeen = 0]
  <2>1. e \in Entry
    BY <1>1, Zenon DEF Has, NodeTable, Entry
  <2>2. Upsert(m, id, a, 0) = [m EXCEPT ![id] = e]
    BY <1>1 DEF Upsert
  <2> HIDE DEF e
  <2> QED
    BY <2>1, <2>2 DEF NodeTable
<1>2. CASE ~ Has(m, id)
  <2> DEFINE e == [addr |-> a, lastSeen |-> 0, lastNotify |-> Never]
  <2>1. e \in Entry
    BY DEF Entry
  <2>2. Upsert(m, id, a, 0) \in {m, [m EXCEPT ![id] = e]}
    BY <1>2 DEF Upsert
  <2> HIDE DEF e
  <2> QED
    BY <2>1, <2>2 DEF NodeTable
<1> QED
  BY <1>1, <1>2

(* The type of one reader's request.                                        *)
TaskOK(t) ==
  /\ t \in {Idle} \cup Request
  /\ t.step \in {"retarget", "tell", "rerequester", "tellback"} =>
       t.targetAddr \in Addr /\ t.requesterAddr \in Addr

LEMMA TaskFields ==
  ASSUME TypeOK, NEW r \in Reader
  PROVE  /\ TaskOK(task[r])
         /\ task[r].step # "idle" <=> task[r] # Idle
         /\ task[r] # Idle =>
              /\ task[r] \in Request
              /\ task[r].requester \in NodeId /\ task[r].target \in NodeId
<1>1. TaskOK(task[r])
  BY DEF TypeOK, TaskOK, Watching
<1>2. Idle.step = "idle"
  BY DEF Idle
<1>3. \A t \in Request : t.step # "idle" /\ t.requester \in NodeId /\ t.target \in NodeId
  BY DEF Request
<1> QED
  BY <1>1, <1>2, <1>3 DEF TaskOK

LEMMA TasksOK ==
  ASSUME TypeOK, NEW r \in Reader, NEW t, TaskOK(t), Set(r, t)
  PROVE  /\ task' \in [Reader -> {Idle} \cup Request]
         /\ (\A q \in Reader : Watching(q) =>
               task[q].targetAddr \in Addr /\ task[q].requesterAddr \in Addr)'
<1>1. task' \in [Reader -> {Idle} \cup Request] /\ task'[r] = t
  BY DEF TypeOK, TaskOK, Set
<1>2. \A q \in Reader \ {r} : task'[q] = task[q]
  BY DEF TypeOK, Set
<1>3. \A q \in Reader : TaskOK(task[q])
  BY TaskFields
<1>4. \A q \in Reader : TaskOK(task'[q])
  BY <1>1, <1>2, <1>3
<1> QED
  BY <1>1, <1>4 DEF TaskOK, Watching

LEMMA SeenTypes ==
  ASSUME TypeOK, NEW m \in NodeTable, Seen(m)
  PROVE  since' \in [Reader -> [NodeId -> SUBSET Endpoint]]
<1>1. \A id \in NodeId : At(m, id) \in Endpoint
  BY AtTypes
<1> QED
  BY <1>1 DEF Seen, TypeOK

LEMMA SendTypes ==
  ASSUME TypeOK, NEW id \in NodeId, NEW a \in Addr
  PROVE  SendPunchCommand(id, a) \in Command \cup {NoCommand}
<1>1. Has(nodes, id) => Snapshot(id) \in Addr
  BY AtTypes DEF TypeOK, Snapshot
<1> QED
  BY <1>1 DEF SendPunchCommand, Command

LEMMA ResetTypes ==
  ASSUME TypeOK, NEW r \in Reader
  PROVE  /\ Milestone(r) => since' \in [Reader -> [NodeId -> SUBSET Endpoint]]
         /\ Return(r) => /\ since' \in [Reader -> [NodeId -> SUBSET Endpoint]]
                         /\ steady' \in [Reader -> BOOLEAN]
                         /\ Set(r, Idle) /\ TaskOK(Idle)
<1>1. \A id \in NodeId : {Snapshot(id)} \in SUBSET Endpoint
  BY AtTypes DEF Snapshot, TypeOK
<1>2. ASSUME Milestone(r) PROVE since' \in [Reader -> [NodeId -> SUBSET Endpoint]]
  <2> DEFINE f == [id \in NodeId |-> {Snapshot(id)}]
  <2>1. f \in [NodeId -> SUBSET Endpoint]
    BY <1>1
  <2>2. since' = [since EXCEPT ![r] = f]
    BY <1>2 DEF Milestone
  <2> HIDE DEF f
  <2> QED
    BY <2>1, <2>2 DEF TypeOK
<1>3. ASSUME Return(r)
      PROVE  since' \in [Reader -> [NodeId -> SUBSET Endpoint]] /\ steady' \in [Reader -> BOOLEAN]
  <2> DEFINE f == [id \in NodeId |-> {}]
  <2>1. f \in [NodeId -> SUBSET Endpoint]
    OBVIOUS
  <2>2. since' = [since EXCEPT ![r] = f] /\ steady' = [steady EXCEPT ![r] = FALSE]
    BY <1>3 DEF Return
  <2> HIDE DEF f
  <2> QED
    BY <2>1, <2>2 DEF TypeOK
<1> QED
  BY <1>2, <1>3 DEF Return, TaskOK, Idle

LEMMA TableTypes ==
  ASSUME TypeOK, NEW m \in NodeTable, TableChange(m)
  PROVE  TypeOK'
<1>1. since' \in [Reader -> [NodeId -> SUBSET Endpoint]]
  BY SeenTypes DEF TableChange
<1>2. steady' \in [Reader -> BOOLEAN]
  BY DEF TableChange, Undisturbed, TypeOK
<1> QED
  BY <1>1, <1>2 DEF TableChange, TypeOK, Watching

LEMMA TypeStep == TypeOK /\ [Next]_vars => TypeOK'
<1> SUFFICES ASSUME TypeOK, [Next]_vars PROVE TypeOK'
  OBVIOUS
<1>0. NoCommand \in Command \cup {NoCommand}
  OBVIOUS
<1>1. ASSUME NEW id \in NodeId, NEW a \in Addr, Discover(id, a) PROVE TypeOK'
  <2>1. Upsert(nodes, id, a, 0) \in NodeTable
    BY UpsertTypes DEF TypeOK
  <2> QED
    BY <1>1, <2>1, TableTypes DEF Discover
<1>2. ASSUME NEW id \in NodeId, Reap(id) PROVE TypeOK'
  <2>1. [nodes EXCEPT ![id] = NoNode] \in NodeTable
    BY DEF TypeOK, NodeTable
  <2> QED
    BY <1>2, <2>1, TableTypes DEF Reap
<1>3. CASE Bind
  BY <1>3 DEF Bind, TypeOK, Watching
<1>4. ASSUME NEW r \in Reader, NEW requester \in NodeId, NEW target \in NodeId, NEW a \in Addr,
             PunchUpsert(r, requester, target, a)
      PROVE  TypeOK'
  <2> DEFINE m == Upsert(nodes, requester, a, 0)
             t == [step |-> "target", requester |-> requester, target |-> target,
                   targetAddr |-> NoNode, requesterAddr |-> NoNode, told |-> NoCommand]
  <2>1. m \in NodeTable
    BY UpsertTypes DEF TypeOK
  <2>2. TaskOK(t)
    BY DEF TaskOK, Request, Endpoint
  <2>3. /\ Set(r, t) /\ nodes' = m /\ Seen(m) /\ wire' = NoCommand /\ conn' = conn
        /\ steady' = [q \in Reader |->
             IF q = r THEN conn /\ Has(m, requester) /\ Has(m, target) ELSE Undisturbed(q, m)]
    BY <1>4 DEF PunchUpsert
  <2> HIDE DEF m, t
  <2>4. steady' \in [Reader -> BOOLEAN]
    BY <2>3, Zenon DEF Undisturbed, Has, TypeOK
  <2>5. since' \in [Reader -> [NodeId -> SUBSET Endpoint]]
    BY <2>1, <2>3, SeenTypes
  <2>6. /\ task' \in [Reader -> {Idle} \cup Request]
        /\ (\A q \in Reader : Watching(q) =>
              task[q].targetAddr \in Addr /\ task[q].requesterAddr \in Addr)'
    BY <2>2, <2>3, TasksOK
  <2> QED
    BY <1>0, <2>1, <2>3, <2>4, <2>5, <2>6 DEF TypeOK
<1>5. ASSUME NEW r \in Reader, NEW t, TaskOK(t), Set(r, t), UNCHANGED <<nodes, conn>>,
             since' \in [Reader -> [NodeId -> SUBSET Endpoint]],
             steady' \in [Reader -> BOOLEAN], wire' \in Command \cup {NoCommand}
      PROVE  TypeOK'
  BY <1>5, TasksOK DEF TypeOK
<1>6. \A id \in NodeId : Snapshot(id) \in Endpoint /\ (Has(nodes, id) => Snapshot(id) \in Addr)
  BY AtTypes DEF TypeOK, Snapshot
<1>7. /\ since \in [Reader -> [NodeId -> SUBSET Endpoint]] /\ steady \in [Reader -> BOOLEAN]
      /\ Addr \subseteq Endpoint
  BY DEF TypeOK, Endpoint
<1>8. ASSUME NEW r \in Reader, SnapTarget(r) PROVE TypeOK'
  <2> DEFINE t == [task[r] EXCEPT !.step = "requester", !.targetAddr = Snapshot(task[r].target)]
  <2>1. task[r] \in Request /\ task[r].target \in NodeId
    BY <1>8, TaskFields DEF SnapTarget
  <2>2. t \in Request /\ t.step = "requester"
    BY <1>6, <2>1, Zenon DEF Request
  <2>3. Set(r, t) /\ wire' = NoCommand /\ UNCHANGED <<nodes, conn, since, steady>>
    BY <1>8 DEF SnapTarget
  <2> HIDE DEF t
  <2>4. TaskOK(t)
    BY <2>2 DEF TaskOK
  <2> QED
    BY <1>0, <1>5, <1>7, <2>3, <2>4
<1>9. ASSUME NEW r \in Reader, SnapRequester(r) PROVE TypeOK'
  <2> DEFINE t == [task[r] EXCEPT !.step = "retarget", !.requesterAddr = Snapshot(task[r].requester)]
  <2>0. wire' = NoCommand /\ UNCHANGED <<nodes, conn>>
    BY <1>9 DEF SnapRequester
  <2>1. task[r] \in Request /\ task[r].requester \in NodeId
    BY <1>9, TaskFields DEF SnapRequester
  <2>2. CASE Return(r)
    BY <1>0, <1>5, <2>0, <2>2, ResetTypes
  <2>3. CASE ~ Return(r)
    <3>1. task[r].targetAddr # NoNode /\ Has(nodes, task[r].requester)
            /\ Set(r, t) /\ Milestone(r) /\ steady' = steady
      BY <1>9, <2>3 DEF SnapRequester
    <3>2. t \in Request
      BY <1>6, <2>1, Zenon DEF Request
    <3>3. t.targetAddr = task[r].targetAddr /\ t.requesterAddr = Snapshot(task[r].requester)
      BY <2>1 DEF Request
    <3>4. task[r].targetAddr \in Endpoint
      BY <2>1 DEF Request
    <3> HIDE DEF t
    <3>5. TaskOK(t)
      BY <1>6, <2>1, <3>1, <3>2, <3>3, <3>4 DEF TaskOK, Endpoint
    <3> QED
      BY <1>0, <1>5, <1>7, <2>0, <3>1, <3>5, ResetTypes
  <2> QED
    BY <2>2, <2>3
<1>10. ASSUME NEW r \in Reader, ResnapTarget(r) PROVE TypeOK'
  <2> DEFINE a == IF Has(nodes, task[r].target) THEN Snapshot(task[r].target) ELSE task[r].targetAddr
             t == [task[r] EXCEPT !.step = "tell", !.targetAddr = a]
  <2>1. task[r] \in Request /\ task[r].target \in NodeId
    BY <1>10, TaskFields DEF ResnapTarget
  <2>2. task[r].targetAddr \in Addr /\ task[r].requesterAddr \in Addr
    BY <1>10, TaskFields DEF ResnapTarget, TaskOK
  <2>3. a \in Addr
    BY <1>6, <2>1, <2>2
  <2>4. Set(r, t) /\ wire' = NoCommand /\ UNCHANGED <<nodes, conn, since, steady>>
    BY <1>10 DEF ResnapTarget
  <2> HIDE DEF a
  <2>5. t \in Request /\ t.targetAddr = a /\ t.requesterAddr = task[r].requesterAddr
    BY <1>7, <2>1, <2>3, Zenon DEF Request
  <2> HIDE DEF t
  <2>6. TaskOK(t)
    BY <2>2, <2>3, <2>5 DEF TaskOK
  <2> QED
    BY <1>0, <1>5, <1>7, <2>4, <2>6
<1>11. ASSUME NEW r \in Reader, TellRequester(r) PROVE TypeOK'
  <2> DEFINE t == [task[r] EXCEPT !.step = "rerequester", !.told = wire']
  <2>1. task[r] \in Request /\ task[r].requester \in NodeId
    BY <1>11, TaskFields DEF TellRequester
  <2>2. task[r].targetAddr \in Addr /\ task[r].requesterAddr \in Addr
    BY <1>11, TaskFields DEF TellRequester, TaskOK
  <2>3. wire' \in Command \cup {NoCommand}
    BY <1>11, <2>1, <2>2, SendTypes DEF TellRequester
  <2>4. Set(r, t) /\ Milestone(r) /\ UNCHANGED <<nodes, conn, steady>>
    BY <1>11 DEF TellRequester
  <2>5. t \in Request /\ t.targetAddr = task[r].targetAddr /\ t.requesterAddr = task[r].requesterAddr
    BY <2>1, <2>3, Zenon DEF Request
  <2> HIDE DEF t
  <2>6. TaskOK(t)
    BY <2>2, <2>5 DEF TaskOK
  <2> QED
    BY <1>5, <1>7, <2>3, <2>4, <2>6, ResetTypes
<1>12. ASSUME NEW r \in Reader, ResnapRequester(r) PROVE TypeOK'
  <2> DEFINE a == IF Has(nodes, task[r].requester) THEN Snapshot(task[r].requester)
                  ELSE task[r].requesterAddr
             t == [task[r] EXCEPT !.step = "tellback", !.requesterAddr = a]
  <2>1. task[r] \in Request /\ task[r].requester \in NodeId
    BY <1>12, TaskFields DEF ResnapRequester
  <2>2. task[r].targetAddr \in Addr /\ task[r].requesterAddr \in Addr
    BY <1>12, TaskFields DEF ResnapRequester, TaskOK
  <2>3. a \in Addr
    BY <1>6, <2>1, <2>2
  <2>4. Set(r, t) /\ wire' = NoCommand /\ UNCHANGED <<nodes, conn, since, steady>>
    BY <1>12 DEF ResnapRequester
  <2> HIDE DEF a
  <2>5. t \in Request /\ t.requesterAddr = a /\ t.targetAddr = task[r].targetAddr
    BY <1>7, <2>1, <2>3, Zenon DEF Request
  <2> HIDE DEF t
  <2>6. TaskOK(t)
    BY <2>2, <2>3, <2>5 DEF TaskOK
  <2> QED
    BY <1>0, <1>5, <1>7, <2>4, <2>6
<1>13. ASSUME NEW r \in Reader, TellTarget(r) PROVE TypeOK'
  <2>1. task[r].target \in NodeId /\ task[r].requesterAddr \in Addr
    BY <1>13, TaskFields DEF TellTarget, TaskOK
  <2>2. wire' \in Command \cup {NoCommand}
    BY <1>13, <2>1, SendTypes DEF TellTarget
  <2>3. Return(r) /\ UNCHANGED <<nodes, conn>>
    BY <1>13 DEF TellTarget
  <2> QED
    BY <1>5, <2>2, <2>3, ResetTypes
<1>14. CASE UNCHANGED vars
  BY <1>14 DEF TypeOK, Watching, vars
<1> QED
  BY <1>1, <1>2, <1>3, <1>4, <1>8, <1>9, <1>10, <1>11, <1>12, <1>13, <1>14 DEF Next, PunchStep

-----------------------------------------------------------------------------
(* While a reader watches, it has seen every present endpoint, and what it  *)
(* is about to tell is among the seen, or the node was seen to be absent.   *)
Recent(r) ==
  LET t == task[r] IN
  Watching(r) =>
    /\ \A id \in NodeId : Snapshot(id) \in since[r][id]
    /\ t.step = "tell" =>
         t.targetAddr \in since[r][t.target] \/ NoNode \in since[r][t.target]
    /\ t.step = "tellback" =>
         t.requesterAddr \in since[r][t.requester] \/ NoNode \in since[r][t.requester]

(* Nothing that an undisturbed punch looked up has changed.                 *)
Paired(r) ==
  LET t == task[r]  a == Snapshot(task[r].requester)  b == Snapshot(task[r].target) IN
  steady[r] /\ t # Idle =>
    /\ conn /\ a \in Addr /\ b \in Addr
    /\ t.step # "target" => t.targetAddr = b
    /\ t.step \notin {"target", "requester"} => t.requesterAddr = a
    /\ t.step \in {"rerequester", "tellback"} => t.told = [to |-> a, tell |-> b]

(* A step that is not r's: the table changes, or nothing that r depends on. *)
LEMMA TableKeeps ==
  ASSUME TypeOK, NEW r \in Reader, Recent(r), Paired(r), NEW m,
         nodes' = m, Seen(m), steady'[r] = Undisturbed(r, m), UNCHANGED <<conn, task[r]>>
  PROVE  Recent(r)' /\ Paired(r)'
<1>1. \A id \in NodeId : Snapshot(id)' = At(m, id)
  BY DEF Snapshot
<1>2. /\ Watching(r)' <=> Watching(r)
      /\ Watching(r) => task[r].requester \in NodeId /\ task[r].target \in NodeId
  BY TaskFields DEF Watching
<1>3. Watching(r) => \A id \in NodeId : since'[r][id] = since[r][id] \cup {At(m, id)}
  BY DEF Seen, TypeOK
<1>4. Recent(r)'
  BY <1>1, <1>2, <1>3 DEF Recent
<1>5. ASSUME steady'[r], task[r] # Idle
      PROVE  /\ steady[r] /\ task[r].requester \in NodeId /\ task[r].target \in NodeId
             /\ Snapshot(task[r].requester)' = Snapshot(task[r].requester)
             /\ Snapshot(task[r].target)' = Snapshot(task[r].target)
  BY <1>1, <1>5, TaskFields, Zenon DEF Undisturbed
<1>6. Paired(r)'
  BY <1>5 DEF Paired
<1> QED
  BY <1>4, <1>6

LEMMA OtherKeeps ==
  ASSUME TypeOK, NEW r \in Reader, Recent(r), Paired(r), conn => conn',
         UNCHANGED <<nodes, task[r], since[r], steady[r]>>
  PROVE  Recent(r)' /\ Paired(r)'
<1>1. Watching(r)' <=> Watching(r)
  BY DEF Watching
<1>2. \A id : Snapshot(id)' = Snapshot(id)
  BY DEF Snapshot
<1>3. Recent(r)'
  BY <1>1, <1>2 DEF Recent
<1>4. Paired(r)'
  BY <1>2 DEF Paired
<1> QED
  BY <1>3, <1>4

(* r's own steps.                                                           *)
LEMMA UpsertKeeps ==
  ASSUME TypeOK, NEW r \in Reader, NEW requester \in NodeId, NEW target \in NodeId,
         NEW a \in Addr, PunchUpsert(r, requester, target, a)
  PROVE  Recent(r)' /\ Paired(r)'
<1> DEFINE m == Upsert(nodes, requester, a, 0)
<1>1. m \in NodeTable
  BY UpsertTypes DEF TypeOK
<1>2. nodes' = m /\ conn' = conn
  BY DEF PunchUpsert
<1>3. task'[r].step = "target" /\ task'[r].requester = requester /\ task'[r].target = target
  BY DEF PunchUpsert, Set, TypeOK
<1>4. steady'[r] => conn /\ Has(m, requester) /\ Has(m, target)
  BY Zenon DEF PunchUpsert
<1> HIDE DEF m
<1>5. steady'[r] => Snapshot(requester)' \in Addr /\ Snapshot(target)' \in Addr
  BY <1>1, <1>2, <1>4, AtTypes DEF Snapshot
<1>6. Recent(r)'
  BY <1>3 DEF Recent, Watching
<1>7. Paired(r)'
  BY <1>2, <1>3, <1>4, <1>5 DEF Paired
<1> QED
  BY <1>6, <1>7

LEMMA ReturnKeeps ==
  ASSUME TypeOK, NEW r \in Reader, Return(r)
  PROVE  Recent(r)' /\ Paired(r)'
<1>1. task'[r] = Idle /\ Idle.step = "idle"
  BY DEF Return, Set, TypeOK, Idle
<1> QED
  BY <1>1 DEF Recent, Paired, Watching

LEMMA OwnKeeps ==
  ASSUME TypeOK, NEW r \in Reader, Recent(r), Paired(r), PunchStep(r)
  PROVE  Recent(r)' /\ Paired(r)'
<1> DEFINE u == task[r]
<1>1. ASSUME NEW requester \in NodeId, NEW target \in NodeId, NEW a \in Addr,
             PunchUpsert(r, requester, target, a)
      PROVE  Recent(r)' /\ Paired(r)'
  BY <1>1, UpsertKeeps
<1>2. \A id \in NodeId : At(nodes, id) \in Addr <=> Has(nodes, id)
  BY AtTypes DEF TypeOK
<1>3. \A id \in NodeId : ~ Has(nodes, id) => Snapshot(id) = NoNode
  BY DEF Snapshot, At
<1>4. ASSUME nodes' = nodes PROVE \A id : Snapshot(id)' = Snapshot(id)
  BY <1>4 DEF Snapshot
<1>5. CASE SnapTarget(r)
  <2>1. u \in Request /\ u # Idle
    BY <1>5, TaskFields DEF SnapTarget
  <2>2. /\ task'[r].step = "requester" /\ task'[r].targetAddr = Snapshot(u.target)
        /\ task'[r].requester = u.requester /\ task'[r].target = u.target
    BY <1>5, <2>1 DEF SnapTarget, Set, TypeOK, Request
  <2>3. UNCHANGED <<nodes, conn, steady>>
    BY <1>5 DEF SnapTarget
  <2>4. Recent(r)'
    BY <2>2 DEF Recent, Watching
  <2>5. Paired(r)'
    BY <1>4, <2>1, <2>2, <2>3 DEF Paired
  <2> QED
    BY <2>4, <2>5
<1>6. CASE SnapRequester(r) /\ ~ Return(r)
  <2>1. u \in Request /\ u # Idle /\ u.step = "requester"
    BY <1>6, TaskFields DEF SnapRequester
  <2>2. /\ task'[r].step = "retarget" /\ task'[r].requesterAddr = Snapshot(u.requester)
        /\ task'[r].requester = u.requester /\ task'[r].target = u.target
        /\ task'[r].targetAddr = u.targetAddr
    <3>1. Set(r, [u EXCEPT !.step = "retarget", !.requesterAddr = Snapshot(u.requester)])
      BY <1>6 DEF SnapRequester
    <3> QED
      BY <2>1, <3>1 DEF Set, TypeOK, Request
  <2>3. UNCHANGED <<nodes, conn, steady>> /\ Milestone(r)
    BY <1>6 DEF SnapRequester
  <2>4. Recent(r)'
    BY <1>4, <2>2, <2>3 DEF Recent, Milestone, TypeOK
  <2>5. Paired(r)'
    BY <1>4, <2>1, <2>2, <2>3 DEF Paired
  <2> QED
    BY <2>4, <2>5
<1>7. CASE ResnapTarget(r)
  <2>1. u \in Request /\ u # Idle /\ u.step = "retarget" /\ u.target \in NodeId
    BY <1>7, TaskFields DEF ResnapTarget
  <2>2. /\ task'[r].step = "tell"
        /\ task'[r].targetAddr = IF Has(nodes, u.target) THEN Snapshot(u.target) ELSE u.targetAddr
        /\ task'[r].requester = u.requester /\ task'[r].target = u.target
        /\ task'[r].requesterAddr = u.requesterAddr
    BY <1>7, <2>1 DEF ResnapTarget, Set, TypeOK, Request
  <2>3. UNCHANGED <<nodes, conn, since, steady>>
    BY <1>7 DEF ResnapTarget
  <2>4. Recent(r)'
    BY <1>3, <1>4, <2>1, <2>2, <2>3 DEF Recent, Watching
  <2>5. Paired(r)'
    BY <1>4, <2>1, <2>2, <2>3 DEF Paired
  <2> QED
    BY <2>4, <2>5
<1>8. CASE TellRequester(r)
  <2>1. u \in Request /\ u # Idle /\ u.step = "tell" /\ u.requester \in NodeId
    BY <1>8, TaskFields DEF TellRequester
  <2>2. /\ task'[r].step = "rerequester" /\ task'[r].told = wire'
        /\ task'[r].requester = u.requester /\ task'[r].target = u.target
        /\ task'[r].targetAddr = u.targetAddr /\ task'[r].requesterAddr = u.requesterAddr
    BY <1>8, <2>1 DEF TellRequester, Set, TypeOK, Request
  <2>3. /\ UNCHANGED <<nodes, conn, steady>> /\ Milestone(r)
        /\ wire' = SendPunchCommand(u.requester, u.targetAddr)
    BY <1>8 DEF TellRequester
  <2>4. Recent(r)'
    BY <1>4, <2>2, <2>3 DEF Recent, Milestone, TypeOK
  <2>5. conn /\ Snapshot(u.requester) \in Addr =>
          wire' = [to |-> Snapshot(u.requester), tell |-> u.targetAddr]
    BY <1>2, <2>1, <2>3 DEF SendPunchCommand, Snapshot
  <2>6. Paired(r)'
    BY <1>4, <2>1, <2>2, <2>3, <2>5 DEF Paired
  <2> QED
    BY <2>4, <2>6
<1>9. CASE ResnapRequester(r)
  <2>1. u \in Request /\ u # Idle /\ u.step = "rerequester" /\ u.requester \in NodeId
    BY <1>9, TaskFields DEF ResnapRequester
  <2>2. /\ task'[r].step = "tellback"
        /\ task'[r].requesterAddr = IF Has(nodes, u.requester) THEN Snapshot(u.requester)
                                    ELSE u.requesterAddr
        /\ task'[r].requester = u.requester /\ task'[r].target = u.target
        /\ task'[r].targetAddr = u.targetAddr /\ task'[r].told = u.told
    BY <1>9, <2>1 DEF ResnapRequester, Set, TypeOK, Request
  <2>3. UNCHANGED <<nodes, conn, since, steady>>
    BY <1>9 DEF ResnapRequester
  <2>4. Recent(r)'
    BY <1>3, <1>4, <2>1, <2>2, <2>3 DEF Recent, Watching
  <2>5. Paired(r)'
    BY <1>4, <2>1, <2>2, <2>3 DEF Paired
  <2> QED
    BY <2>4, <2>5
<1>10. TellTarget(r) => Return(r)
  BY DEF TellTarget
<1> QED
  BY <1>1, <1>5, <1>6, <1>7, <1>8, <1>9, <1>10, ReturnKeeps DEF PunchStep

(* The steps in the middle of the handler do not return from it.            *)
LEMMA MidStep ==
  ASSUME TypeOK, NEW r \in Reader,
         SnapTarget(r) \/ ResnapTarget(r) \/ TellRequester(r) \/ ResnapRequester(r)
  PROVE  task'[r].step # "idle"
<1>1. task[r] \in Request
  BY TaskFields DEF SnapTarget, ResnapTarget, TellRequester, ResnapRequester
<1>2. CASE SnapTarget(r)
  BY <1>1, <1>2 DEF SnapTarget, Set, TypeOK, Request
<1>3. CASE ResnapTarget(r)
  BY <1>1, <1>3 DEF ResnapTarget, Set, TypeOK, Request
<1>4. CASE TellRequester(r)
  BY <1>1, <1>4 DEF TellRequester, Set, TypeOK, Request
<1>5. CASE ResnapRequester(r)
  BY <1>1, <1>5 DEF ResnapRequester, Set, TypeOK, Request
<1> QED
  BY <1>2, <1>3, <1>4, <1>5

-----------------------------------------------------------------------------
ReaderInv == \A r \in Reader : Recent(r) /\ Paired(r)

LEMMA InitHolds == Init => TypeOK /\ ReaderInv
<1> SUFFICES ASSUME Init PROVE TypeOK /\ ReaderInv
  OBVIOUS
<1>1. \A r \in Reader : task[r] = Idle /\ task[r].step = "idle"
  BY DEF Init, Idle
<1>2. TypeOK
  BY <1>1, Zenon DEF Init, TypeOK, NodeTable, Watching
<1>3. ReaderInv
  BY <1>1 DEF ReaderInv, Recent, Paired, Watching
<1> QED
  BY <1>2, <1>3

LEMMA ReaderStep == TypeOK /\ ReaderInv /\ [Next]_vars => ReaderInv'
<1> SUFFICES ASSUME TypeOK, ReaderInv, [Next]_vars, NEW r \in Reader
             PROVE  Recent(r)' /\ Paired(r)'
  BY DEF ReaderInv
<1>0. Recent(r) /\ Paired(r)
  BY DEF ReaderInv
<1>1. ASSUME NEW m, TableChange(m) PROVE Recent(r)' /\ Paired(r)'
  <2>1. /\ nodes' = m /\ Seen(m) /\ steady'[r] = Undisturbed(r, m)
        /\ UNCHANGED <<conn, task[r]>>
    BY <1>1 DEF TableChange
  <2> QED
    BY <1>0, <2>1, TableKeeps
<1>2. CASE Bind \/ UNCHANGED vars
  <2>1. (conn => conn') /\ UNCHANGED <<nodes, task[r], since[r], steady[r]>>
    BY <1>2 DEF Bind, vars
  <2> QED
    BY <1>0, <2>1, OtherKeeps
<1>3. ASSUME NEW q \in Reader, q # r, PunchStep(q) PROVE Recent(r)' /\ Paired(r)'
  <2>1. ASSUME NEW requester \in NodeId, NEW target \in NodeId, NEW a \in Addr,
               PunchUpsert(q, requester, target, a)
        PROVE  Recent(r)' /\ Paired(r)'
    <3> DEFINE m == Upsert(nodes, requester, a, 0)
    <3>1. /\ nodes' = m /\ Seen(m) /\ steady'[r] = Undisturbed(r, m)
          /\ UNCHANGED <<conn, task[r]>>
      BY <1>3, <2>1 DEF PunchUpsert, Set, TypeOK
    <3> HIDE DEF m
    <3> QED
      BY <1>0, <3>1, TableKeeps
  <2>2. CASE ~ \E requester, target \in NodeId, a \in Addr : PunchUpsert(q, requester, target, a)
    <3>1. UNCHANGED <<nodes, conn, task[r], since[r], steady[r]>>
      BY <1>3, <2>2 DEF PunchStep, SnapTarget, SnapRequester, ResnapTarget, TellRequester,
                        ResnapRequester, TellTarget, Set, Milestone, Return, TypeOK
    <3> QED
      BY <1>0, <3>1, OtherKeeps
  <2> QED
    BY <2>1, <2>2
<1>4. ASSUME PunchStep(r) PROVE Recent(r)' /\ Paired(r)'
  BY <1>0, <1>4, OwnKeeps
<1> QED
  BY <1>1, <1>2, <1>3, <1>4, Zenon DEF Next, Reap, Discover

(* Tables, requests and commands keep their types; a handler past its two   *)
(* look-ups has two endpoints to tell.                                      *)
THEOREM Typing == Spec => []TypeOK
BY InitHolds, TypeStep, PTL DEF Spec

(* For any readers, nodes and capacity, handlePunchRequest tells no         *)
(* endpoint older than its previous milestone, unless the node has left.    *)
THEOREM RecentIsTold == Spec => ToldIsRecent
<1>1. TypeOK /\ ReaderInv /\ [Next]_vars =>
        [\A r \in Reader : wire' # NoCommand /\ task'[r] # task[r] =>
           LET about == IF task[r].step = "tell" THEN task[r].target ELSE task[r].requester
           IN  wire'.tell \in since[r][about] \/ NoNode \in since[r][about]]_vars
  <2> SUFFICES ASSUME TypeOK, ReaderInv, Next, NEW r \in Reader,
                      wire' # NoCommand, task'[r] # task[r]
               PROVE  LET about == IF task[r].step = "tell" THEN task[r].target ELSE task[r].requester
                      IN  wire'.tell \in since[r][about] \/ NoNode \in since[r][about]
    BY DEF vars
  <2>1. PICK q \in Reader : TellRequester(q) \/ TellTarget(q)
    BY Zenon DEF Next, Reap, Discover, Bind, TableChange, PunchStep, PunchUpsert, SnapTarget,
           SnapRequester, ResnapTarget, ResnapRequester
  <2>2. q = r
    BY <2>1 DEF TellRequester, TellTarget, Return, Set, TypeOK
  <2>3. Recent(r) /\ (task[r].step \in {"tell", "tellback"} => Watching(r))
    BY DEF ReaderInv, Watching
  <2>4. CASE TellRequester(r)
    <3>1. task[r].step = "tell" /\ wire'.tell = task[r].targetAddr
      BY <2>4 DEF TellRequester, SendPunchCommand
    <3> QED
      BY <2>3, <3>1 DEF Recent
  <2>5. CASE TellTarget(r)
    <3>1. task[r].step = "tellback" /\ wire'.tell = task[r].requesterAddr
      BY <2>5 DEF TellTarget, SendPunchCommand
    <3> QED
      BY <2>3, <3>1 DEF Recent
  <2> QED
    BY <2>1, <2>2, <2>4, <2>5
<1> QED
  BY <1>1, InitHolds, TypeStep, ReaderStep, PTL DEF Spec, ToldIsRecent

(* For any readers, nodes and capacity, a punch that nothing disturbs tells *)
(* both nodes the other's endpoint before handlePunchRequest returns.       *)
THEOREM SteadyPairs == Spec => SteadyPunchPairs
<1>1. TypeOK /\ ReaderInv /\ [Next]_vars =>
        [\A r \in Reader : steady[r] /\ task[r] # Idle /\ task'[r] = Idle =>
           LET q == Snapshot(task[r].requester)  t == Snapshot(task[r].target) IN
           /\ task[r].told = [to |-> q, tell |-> t]
           /\ wire' = [to |-> t, tell |-> q]]_vars
  <2> SUFFICES ASSUME TypeOK, ReaderInv, Next, NEW r \in Reader,
                      steady[r], task[r] # Idle, task'[r] = Idle
               PROVE  LET q == Snapshot(task[r].requester)  t == Snapshot(task[r].target) IN
                      /\ task[r].told = [to |-> q, tell |-> t]
                      /\ wire' = [to |-> t, tell |-> q]
    BY DEF vars
  <2>0. Paired(r)
    BY DEF ReaderInv
  <2>1. task[r].requester \in NodeId /\ task[r].target \in NodeId
    BY TaskFields
  <2>2. PICK q \in Reader : PunchStep(q)
    BY Zenon DEF Next, Reap, Discover, Bind, TableChange
  <2>3. q = r
    BY <2>2 DEF PunchStep, PunchUpsert, SnapTarget, SnapRequester, ResnapTarget,
                TellRequester, ResnapRequester, TellTarget, Set, Return, TypeOK
  <2>4. ~ SnapRequester(r)
    <3>1. SUFFICES ASSUME SnapRequester(r) PROVE FALSE
      OBVIOUS
    <3>2. Has(nodes, task[r].requester)
      BY <2>0, <2>1, AtTypes DEF Paired, Snapshot, TypeOK
    <3>3. task[r].targetAddr # NoNode
      BY <2>0, <3>1, PunchAssumption DEF Paired, SnapRequester
    <3>4. Set(r, [task[r] EXCEPT !.step = "retarget", !.requesterAddr = Snapshot(task[r].requester)])
      BY <3>1, <3>2, <3>3 DEF SnapRequester
    <3>5. task[r] \in Request
      BY TaskFields
    <3>6. task'[r].step = "retarget"
      BY <3>4, <3>5, Zenon DEF Set, TypeOK, Request
    <3> QED
      BY <3>6 DEF Idle
  <2>5. TellTarget(r)
    <3>1. \A requester, target \in NodeId, a \in Addr : ~ PunchUpsert(r, requester, target, a)
      BY DEF PunchUpsert
    <3>2. task'[r].step = "idle"
      BY DEF Idle
    <3> QED
      BY <2>2, <2>3, <2>4, <3>1, <3>2, MidStep DEF PunchStep
  <2>6. /\ task[r].step = "tellback"
        /\ wire' = SendPunchCommand(task[r].target, task[r].requesterAddr)
    BY <2>5 DEF TellTarget
  <2>7. Has(nodes, task[r].target)
    BY <2>0, <2>1, AtTypes DEF Paired, Snapshot, TypeOK
  <2> QED
    BY <2>0, <2>6, <2>7 DEF Paired, SendPunchCommand
<1> QED
  BY <1>1, InitHolds, TypeStep, ReaderStep, PTL DEF Spec, SteadyPunchPairs
=============================================================================
