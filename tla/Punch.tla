------------------------------- MODULE Punch --------------------------------
(***************************************************************************)
(* Punch coordination: handlePunchRequest from rateLimitBypass on, against *)
(* a node table that Discovers, other punches and the reaper change        *)
(* between any two of its accesses.  The handler registers the requester,  *)
(* looks both nodes up, and then tells each of them the other's endpoint,  *)
(* looking it up once more right before each command.                      *)
(*                                                                         *)
(* The verdicts on the way in (module Admission, breaker, whitelist, punch *)
(* grant) decide whether a request gets here, which any request may.       *)
(* Leases play no part: every entry carries the same lastSeen.  since and  *)
(* steady are history variables.                                           *)
(***************************************************************************)
EXTENDS NodeMap

CONSTANT Reader   \* goroutines that run handlePacketFrom

ASSUME PunchAssumption == NoNode \notin Addr

VARIABLES nodes,  \* Server.nodes
          conn,   \* Server.conn is not nil: ListenAndServe has bound it
          task,   \* where each reader is in handlePunchRequest
          wire,   \* the punch command that the last step wrote, if any
          since,  \* endpoints of each id since the reader's last milestone
          steady  \* nothing disturbed the punch since its Upsert

vars == <<nodes, conn, task, wire, since, steady>>

Idle == [step |-> "idle"]

Endpoint == Addr \cup {NoNode}

(* A command to the endpoint "to" to punch at "tell".                       *)
Command == [to : Addr, tell : Addr]

NoCommand == [to |-> NoNode]

(* targetAddr and requesterAddr hold NoNode until they are looked up; told  *)
(* is the command to the requester.                                         *)
Request == [step : {"target", "requester", "retarget", "tell", "rerequester", "tellback"},
            requester : NodeId, target : NodeId, targetAddr : Endpoint,
            requesterAddr : Endpoint, told : Command \cup {NoCommand}]

At(table, id) == IF Has(table, id) THEN table[id].addr ELSE NoNode

Snapshot(id) == At(nodes, id)

Init ==
  /\ nodes = [id \in NodeId |-> NoNode]
  /\ conn = FALSE
  /\ task = [r \in Reader |-> Idle]
  /\ wire = NoCommand
  /\ since = [r \in Reader |-> [id \in NodeId |-> {}]]
  /\ steady = [r \in Reader |-> FALSE]

-----------------------------------------------------------------------------
(* The node table changes, and with it the past that readers in the middle  *)
(* of a punch have seen.                                                    *)
Watching(r) == task[r].step \in {"retarget", "tell", "rerequester", "tellback"}

Undisturbed(r, table) ==
  steady[r] /\ \A id \in {task[r].requester, task[r].target} : At(table, id) = Snapshot(id)

Seen(table) ==
  since' = [r \in Reader |-> [id \in NodeId |->
              IF Watching(r) THEN since[r][id] \cup {At(table, id)} ELSE since[r][id]]]

(* A Discover of a node, and one entry's turn of ReapStale (both in         *)
(* Registration); ListenAndServe binds the sockets.                         *)
TableChange(table) ==
  /\ nodes' = table
  /\ Seen(table)
  /\ steady' = [r \in Reader |-> Undisturbed(r, table)]
  /\ wire' = NoCommand
  /\ UNCHANGED <<conn, task>>

Discover(id, a) == TableChange(Upsert(nodes, id, a, 0))

Reap(id) == Has(nodes, id) /\ TableChange([nodes EXCEPT ![id] = NoNode])

Bind ==
  /\ ~ conn /\ conn' = TRUE
  /\ wire' = NoCommand
  /\ UNCHANGED <<nodes, task, since, steady>>

-----------------------------------------------------------------------------
(* handlePunchRequest *)

Set(r, t) == task' = [task EXCEPT ![r] = t]

(* What was before a milestone of the handler no longer counts.             *)
Milestone(r) == since' = [since EXCEPT ![r] = [id \in NodeId |-> {Snapshot(id)}]]

Return(r) ==
  /\ Set(r, Idle)
  /\ since' = [since EXCEPT ![r] = [id \in NodeId |-> {}]]
  /\ steady' = [steady EXCEPT ![r] = FALSE]

(* The requester's endpoint is refreshed from the datagram; a refusal at    *)
(* capacity is ignored.                                                     *)
PunchUpsert(r, requester, target, a) ==
  LET table == Upsert(nodes, requester, a, 0) IN
  /\ task[r] = Idle
  /\ Set(r, [step |-> "target", requester |-> requester, target |-> target,
             targetAddr |-> NoNode, requesterAddr |-> NoNode, told |-> NoCommand])
  /\ nodes' = table
  /\ Seen(table)
  /\ steady' = [q \in Reader |->
       IF q = r THEN conn /\ Has(table, requester) /\ Has(table, target)
       ELSE Undisturbed(q, table)]
  /\ wire' = NoCommand
  /\ UNCHANGED conn

SnapTarget(r) ==
  /\ task[r].step = "target"
  /\ Set(r, [task[r] EXCEPT !.step = "requester", !.targetAddr = Snapshot(task[r].target)])
  /\ wire' = NoCommand
  /\ UNCHANGED <<nodes, conn, since, steady>>

(* A mutant: whether the target was found is not asked.                     *)
SnapRequesterUnchecked(r) ==
  LET t == task[r] IN
  /\ t.step = "requester"
  /\ IF ~ Has(nodes, t.requester)
     THEN Return(r)
     ELSE /\ Set(r, [t EXCEPT !.step = "retarget", !.requesterAddr = Snapshot(t.requester)])
          /\ Milestone(r)
          /\ UNCHANGED steady
  /\ wire' = NoCommand
  /\ UNCHANGED <<nodes, conn>>

(* Both must have been found, or the handler returns.                       *)
SnapRequester(r) ==
  LET t == task[r] IN
  /\ t.step = "requester"
  /\ IF t.targetAddr = NoNode \/ ~ Has(nodes, t.requester)
     THEN Return(r)
     ELSE /\ Set(r, [t EXCEPT !.step = "retarget", !.requesterAddr = Snapshot(t.requester)])
          /\ Milestone(r)
          /\ UNCHANGED steady
  /\ wire' = NoCommand
  /\ UNCHANGED <<nodes, conn>>

(* A mutant: the first look-up of the target is good enough.                *)
ResnapTargetNot(r) ==
  /\ task[r].step = "retarget"
  /\ Set(r, [task[r] EXCEPT !.step = "tell"])
  /\ wire' = NoCommand
  /\ UNCHANGED <<nodes, conn, since, steady>>

(* The target's endpoint right before the requester is told; that of a      *)
(* target which has left the table is kept.                                 *)
ResnapTarget(r) ==
  LET t == task[r] IN
  /\ t.step = "retarget"
  /\ Set(r, [t EXCEPT !.step = "tell",
                      !.targetAddr = IF Has(nodes, t.target) THEN Snapshot(t.target) ELSE @])
  /\ wire' = NoCommand
  /\ UNCHANGED <<nodes, conn, since, steady>>

(* SendPunchCommand writes to the endpoint its recipient has at that        *)
(* moment.  Without a socket or a recipient it fails, and the handler goes  *)
(* on all the same.                                                         *)
SendPunchCommand(to, addr) ==
  IF conn /\ Has(nodes, to) THEN [to |-> Snapshot(to), tell |-> addr] ELSE NoCommand

TellRequester(r) ==
  LET t == task[r] IN
  /\ t.step = "tell"
  /\ wire' = SendPunchCommand(t.requester, t.targetAddr)
  /\ Set(r, [t EXCEPT !.step = "rerequester", !.told = wire'])
  /\ Milestone(r)
  /\ UNCHANGED <<nodes, conn, steady>>

ResnapRequester(r) ==
  LET t == task[r] IN
  /\ t.step = "rerequester"
  /\ Set(r, [t EXCEPT !.step = "tellback",
                      !.requesterAddr = IF Has(nodes, t.requester) THEN Snapshot(t.requester) ELSE @])
  /\ wire' = NoCommand
  /\ UNCHANGED <<nodes, conn, since, steady>>

(* A mutant: the target is told its own endpoint.                           *)
TellTargetItself(r) ==
  LET t == task[r] IN
  /\ t.step = "tellback"
  /\ wire' = SendPunchCommand(t.target, t.targetAddr)
  /\ Return(r)
  /\ UNCHANGED <<nodes, conn>>

TellTarget(r) ==
  LET t == task[r] IN
  /\ t.step = "tellback"
  /\ wire' = SendPunchCommand(t.target, t.requesterAddr)
  /\ Return(r)
  /\ UNCHANGED <<nodes, conn>>

PunchStep(r) ==
  \/ \E requester, target \in NodeId, a \in Addr : PunchUpsert(r, requester, target, a)
  \/ SnapTarget(r) \/ SnapRequester(r)
  \/ ResnapTarget(r) \/ TellRequester(r)
  \/ ResnapRequester(r) \/ TellTarget(r)

Next ==
  \/ \E r \in Reader : PunchStep(r)
  \/ \E id \in NodeId : Reap(id) \/ \E a \in Addr : Discover(id, a)
  \/ Bind

Spec == Init /\ [][Next]_vars

-----------------------------------------------------------------------------
(* Tables, readers and commands hold what the control flow allows: from the *)
(* moment both nodes were found on, the handler has two endpoints to tell.  *)
TypeOK ==
  /\ nodes \in NodeTable
  /\ conn \in BOOLEAN
  /\ task \in [Reader -> {Idle} \cup Request]
  /\ \A r \in Reader : Watching(r) =>
       task[r].targetAddr \in Addr /\ task[r].requesterAddr \in Addr
  /\ wire \in Command \cup {NoCommand}
  /\ since \in [Reader -> [NodeId -> SUBSET Endpoint]]
  /\ steady \in [Reader -> BOOLEAN]

(* The endpoint in a command is one that its node had after the handler's   *)
(* previous milestone (both nodes found, the requester told), or the node   *)
(* has left the table since: the second look-ups of handlePunchRequest      *)
(* leave no older endpoint to be told.                                      *)
ToldIsRecent ==
  [][\A r \in Reader : wire' # NoCommand /\ task'[r] # task[r] =>
       LET about == IF task[r].step = "tell" THEN task[r].target ELSE task[r].requester
       IN  wire'.tell \in since[r][about] \/ NoNode \in since[r][about]]_vars

(* A punch between two registered nodes that nothing disturbs reaches both: *)
(* when the handler returns, the requester was told the target's endpoint   *)
(* and the target the requester's, each at its own, whatever other punches  *)
(* run at the same time.                                                    *)
SteadyPunchPairs ==
  [][\A r \in Reader : steady[r] /\ task[r] # Idle /\ task'[r] = Idle =>
       LET q == Snapshot(task[r].requester)  t == Snapshot(task[r].target) IN
       /\ task[r].told = [to |-> q, tell |-> t]
       /\ wire' = [to |-> t, tell |-> q]]_vars
=============================================================================
