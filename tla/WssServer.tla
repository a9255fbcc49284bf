------------------------------ MODULE WssServer -----------------------------
(***************************************************************************)
(* The compat WSS server (wss/server.go): upgrade handlers and their read  *)
(* loops, WriteFrame on the relay workers, and Close.  s.mu guards the     *)
(* peer map; a critical section is a step, except that of handleUpgrade,   *)
(* which holds s.mu (here: mu) while it closes the replaced connection.    *)
(* Each access to a connection or to a peer's closed flag is a step too,   *)
(* because the read loops look at them without the lock.                   *)
(*                                                                         *)
(* A member of Conn is one upgrade request, the connection that comes of   *)
(* it and, once installed, its wssPeer.  The websocket library is          *)
(* external: a closed connection yields no frame and takes no write, and   *)
(* any read or write may fail.  lateFrames is a history variable.          *)
(***************************************************************************)
EXTENDS Integers, FiniteSets

CONSTANTS Conn, NodeId,
          NodeOf,      \* the node id each connection authenticates as
          Writer,      \* goroutines that call WriteFrame
          MaxPeers,    \* Config.MaxPeers, 0 for no limit
          NoConn

ASSUME WssAssumption ==
  /\ NodeOf \in [Conn -> NodeId]
  /\ MaxPeers \in Nat
  /\ NoConn \notin Conn

VARIABLES peers,      \* Server.peers
          closed,     \* Server.closed
          peerGen,    \* Server.peerGen
          pc,         \* where the handler of each connection is
          open,       \* connections that are open
          closedFlag, \* connections whose wssPeer.closed is set
          gen,        \* wssPeer.gen
          writer,     \* what each writer is doing
          toClose,    \* the connections Close still has to close and to flag
          mu,         \* the handler inside the critical section of handleUpgrade
          lateFrames  \* frames a connection dispatched after it was flagged closed

conns == <<pc, open, closedFlag, gen>>
vars == <<peers, closed, peerGen, conns, writer, toClose, mu, lateFrames>>

Step == {"new", "auth", "install", "replace", "top", "reading", "check",
         "dispatch", "delete", "swap", "close", "end"}

Looping == {"top", "reading", "check", "dispatch"}

WriterIdle == [step |-> "idle", conn |-> NoConn]

Init ==
  /\ peers = [n \in NodeId |-> NoConn]
  /\ closed = FALSE /\ peerGen = 0
  /\ pc = [c \in Conn |-> "new"]
  /\ open = {} /\ closedFlag = {}
  /\ gen = [c \in Conn |-> 0]
  /\ writer = [w \in Writer |-> WriterIdle]
  /\ toClose = {}
  /\ mu = NoConn
  /\ lateFrames = [c \in Conn |-> 0]

Goto(c, s) == pc' = [pc EXCEPT ![c] = s]

PeerCount == Cardinality({n \in NodeId : peers[n] # NoConn})

-----------------------------------------------------------------------------
(* handleUpgrade *)

(* The capacity check and the upgrade, which may fail.                      *)
Upgrade(c) ==
  /\ pc[c] = "new" /\ mu = NoConn
  /\ \/ /\ ~ (MaxPeers > 0 /\ PeerCount >= MaxPeers)
        /\ open' = open \cup {c} /\ Goto(c, "auth")
     \/ Goto(c, "end") /\ UNCHANGED open
  /\ UNCHANGED <<peers, closed, peerGen, closedFlag, gen, writer, toClose, mu, lateFrames>>

(* runAuth: a challenge signed with the node's key, within AuthTimeout.     *)
Auth(c) ==
  /\ pc[c] = "auth"
  /\ \/ Goto(c, "install") /\ UNCHANGED open
     \/ Goto(c, "end") /\ open' = open \ {c}
  /\ UNCHANGED <<peers, closed, peerGen, closedFlag, gen, writer, toClose, mu, lateFrames>>

(* A mutant: the prior connection is forgotten.                             *)
OldNone(c) == NoConn

Old(c) == peers[NodeOf[c]]

(* The critical section: the node's prior connection is flagged, then       *)
(* closed, and the new one takes its place with the next generation.        *)
Install(c) ==
  /\ pc[c] = "install" /\ mu = NoConn
  /\ IF closed
     THEN Goto(c, "end") /\ open' = open \ {c} /\ UNCHANGED <<closedFlag, mu>>
     ELSE /\ Goto(c, "replace") /\ mu' = c
          /\ closedFlag' = closedFlag \cup ({Old(c)} \ {NoConn})
          /\ UNCHANGED open
  /\ UNCHANGED <<peers, closed, peerGen, gen, writer, toClose, lateFrames>>

(* Mutants: s.mu is not released; the generation is not bumped.             *)
ReplaceNoUnlock(c) ==
  /\ pc[c] = "replace"
  /\ open' = open \ {Old(c)}
  /\ peerGen' = peerGen + 1
  /\ gen' = [gen EXCEPT ![c] = peerGen + 1]
  /\ peers' = [peers EXCEPT ![NodeOf[c]] = c]
  /\ Goto(c, "top")
  /\ UNCHANGED <<closed, closedFlag, writer, toClose, mu, lateFrames>>

ReplaceSameGen(c) ==
  /\ pc[c] = "replace"
  /\ open' = open \ {Old(c)}
  /\ gen' = [gen EXCEPT ![c] = peerGen]
  /\ peers' = [peers EXCEPT ![NodeOf[c]] = c]
  /\ mu' = NoConn
  /\ Goto(c, "top")
  /\ UNCHANGED <<closed, peerGen, closedFlag, writer, toClose, lateFrames>>

Replace(c) ==
  /\ pc[c] = "replace"
  /\ open' = open \ {Old(c)}
  /\ peerGen' = peerGen + 1
  /\ gen' = [gen EXCEPT ![c] = peerGen + 1]
  /\ peers' = [peers EXCEPT ![NodeOf[c]] = c]
  /\ mu' = NoConn
  /\ Goto(c, "top")
  /\ UNCHANGED <<closed, closedFlag, writer, toClose, lateFrames>>

-----------------------------------------------------------------------------
(* peerReadLoop *)

(* A mutant: the loop does not look at the flag.                            *)
LoopTopUnchecked(c) ==
  /\ pc[c] = "top"
  /\ Goto(c, "reading")
  /\ UNCHANGED <<peers, closed, peerGen, open, closedFlag, gen, writer, toClose, mu, lateFrames>>

LoopTop(c) ==
  /\ pc[c] = "top"
  /\ Goto(c, IF c \in closedFlag THEN "delete" ELSE "reading")
  /\ UNCHANGED <<peers, closed, peerGen, open, closedFlag, gen, writer, toClose, mu, lateFrames>>

(* conn.Read: a binary frame, a text frame (ignored), or an error: peer     *)
(* gone, idle timeout, oversized frame.                                     *)
Read(c) ==
  /\ pc[c] = "reading"
  /\ \/ c \in open /\ Goto(c, "check")
     \/ c \in open /\ Goto(c, "top")
     \/ Goto(c, "delete")
  /\ UNCHANGED <<peers, closed, peerGen, open, closedFlag, gen, writer, toClose, mu, lateFrames>>

(* peerGenForNode: is a newer connection installed?                         *)
CheckGen(c) ==
  LET cur == peers[NodeOf[c]] IN
  /\ pc[c] = "check" /\ mu = NoConn
  /\ Goto(c, IF cur # NoConn /\ gen[c] < gen[cur] THEN "top" ELSE "dispatch")
  /\ UNCHANGED <<peers, closed, peerGen, open, closedFlag, gen, writer, toClose, mu, lateFrames>>

(* OnFrame.                                                                 *)
Dispatch(c) ==
  /\ pc[c] = "dispatch"
  /\ lateFrames' = [lateFrames EXCEPT ![c] = IF c \in closedFlag THEN @ + 1 ELSE @]
  /\ Goto(c, "top")
  /\ UNCHANGED <<peers, closed, peerGen, open, closedFlag, gen, writer, toClose, mu>>

(* A mutant: whatever is installed for the node goes.                       *)
DeletePeerAny(c) == mu = NoConn /\ peers' = [peers EXCEPT ![NodeOf[c]] = NoConn]

(* dropPeer, in the read loop's defer or after a failed write: first the    *)
(* compare-and-delete under s.mu, then the flag, then, unless somebody else *)
(* had set the flag, the connection.                                        *)
DeletePeer(c) ==
  /\ mu = NoConn
  /\ peers' = [n \in NodeId |-> IF n = NodeOf[c] /\ peers[n] = c THEN NoConn ELSE peers[n]]

SwapClosed(c) == closedFlag' = closedFlag \cup {c}

LoopDelete(c) ==
  /\ pc[c] = "delete"
  /\ DeletePeer(c)
  /\ Goto(c, "swap")
  /\ UNCHANGED <<closed, peerGen, open, closedFlag, gen, writer, toClose, mu, lateFrames>>

LoopSwap(c) ==
  /\ pc[c] = "swap"
  /\ SwapClosed(c)
  /\ Goto(c, IF c \in closedFlag THEN "end" ELSE "close")
  /\ UNCHANGED <<peers, closed, peerGen, open, gen, writer, toClose, mu, lateFrames>>

LoopClose(c) ==
  /\ pc[c] = "close"
  /\ open' = open \ {c}
  /\ Goto(c, "end")
  /\ UNCHANGED <<peers, closed, peerGen, closedFlag, gen, writer, toClose, mu, lateFrames>>

HandlerStep(c) ==
  \/ Upgrade(c) \/ Auth(c) \/ Install(c) \/ Replace(c)
  \/ LoopTop(c) \/ Read(c) \/ CheckGen(c) \/ Dispatch(c)
  \/ LoopDelete(c) \/ LoopSwap(c) \/ LoopClose(c)

-----------------------------------------------------------------------------
(* WriteFrame *)

SetWriter(w, s, c) == writer' = [writer EXCEPT ![w] = [step |-> s, conn |-> c]]

(* IsConnected and the lookup of WriteFrame.  The flag is read after s.mu   *)
(* is released; it is never reset, so an unset flag was unset at the lookup *)
(* too and the two are one step.                                            *)
WriteLookup(w, n) ==
  /\ writer[w].step = "idle" /\ mu = NoConn
  /\ peers[n] # NoConn /\ peers[n] \notin closedFlag
  /\ SetWriter(w, "write", peers[n])
  /\ UNCHANGED <<peers, closed, peerGen, conns, toClose, mu, lateFrames>>

Write(w) ==
  LET c == writer[w].conn IN
  /\ writer[w].step = "write"
  /\ \/ c \in open /\ writer' = [writer EXCEPT ![w] = WriterIdle]
     \/ SetWriter(w, "delete", c)
  /\ UNCHANGED <<peers, closed, peerGen, conns, toClose, mu, lateFrames>>

WriteDelete(w) ==
  /\ writer[w].step = "delete"
  /\ DeletePeer(writer[w].conn)
  /\ SetWriter(w, "swap", writer[w].conn)
  /\ UNCHANGED <<closed, peerGen, conns, toClose, mu, lateFrames>>

WriteSwap(w) ==
  LET c == writer[w].conn IN
  /\ writer[w].step = "swap"
  /\ SwapClosed(c)
  /\ writer' = [writer EXCEPT ![w] = IF c \in closedFlag THEN WriterIdle
                                     ELSE [step |-> "close", conn |-> c]]
  /\ UNCHANGED <<peers, closed, peerGen, pc, open, gen, toClose, mu, lateFrames>>

WriteClose(w) ==
  /\ writer[w].step = "close"
  /\ open' = open \ {writer[w].conn}
  /\ writer' = [writer EXCEPT ![w] = WriterIdle]
  /\ UNCHANGED <<peers, closed, peerGen, pc, closedFlag, gen, toClose, mu, lateFrames>>

WriterStep(w) ==
  \/ \E n \in NodeId : WriteLookup(w, n)
  \/ Write(w) \/ WriteDelete(w) \/ WriteSwap(w) \/ WriteClose(w)

-----------------------------------------------------------------------------
(* Close takes the whole map, then closes and flags one connection after    *)
(* the other.                                                               *)
Close ==
  /\ ~ closed /\ mu = NoConn /\ closed' = TRUE
  /\ toClose' = {peers[n] : n \in NodeId} \ {NoConn}
  /\ peers' = [n \in NodeId |-> NoConn]
  /\ UNCHANGED <<peerGen, conns, writer, mu, lateFrames>>

CloseConn(c) ==
  /\ c \in toClose /\ c \in open
  /\ open' = open \ {c}
  /\ UNCHANGED <<peers, closed, peerGen, pc, closedFlag, gen, writer, toClose, mu, lateFrames>>

CloseFlag(c) ==
  /\ c \in toClose /\ c \notin open
  /\ closedFlag' = closedFlag \cup {c}
  /\ toClose' = toClose \ {c}
  /\ UNCHANGED <<peers, closed, peerGen, pc, open, gen, writer, mu, lateFrames>>

Next ==
  \/ \E c \in Conn : HandlerStep(c) \/ CloseConn(c) \/ CloseFlag(c)
  \/ \E w \in Writer : WriterStep(w)
  \/ Close

(* Handlers, writers and Close keep running.  A read on a closed connection *)
(* returns, and AuthTimeout bounds the challenge; a live peer may keep its  *)
(* loop busy for ever, and nothing forces anybody to call Close.            *)
Fairness ==
  /\ \A c \in Conn : WF_vars(HandlerStep(c)) /\ WF_vars(CloseConn(c) \/ CloseFlag(c))
  /\ \A w \in Writer : WF_vars(Write(w) \/ WriteDelete(w) \/ WriteSwap(w) \/ WriteClose(w))

Spec == Init /\ [][Next]_vars

FairSpec == Spec /\ Fairness

-----------------------------------------------------------------------------
(* The peer map, the handlers and the writers hold connections of the right *)
(* node, and a connection has a generation exactly once it was installed.   *)
TypeOK ==
  /\ peers \in [NodeId -> Conn \cup {NoConn}]
  /\ \A n \in NodeId : peers[n] # NoConn => NodeOf[peers[n]] = n
  /\ closed \in BOOLEAN
  /\ peerGen \in Nat
  /\ pc \in [Conn -> Step]
  /\ open \subseteq Conn /\ closedFlag \subseteq Conn
  /\ gen \in [Conn -> 0 .. peerGen]
  /\ writer \in [Writer -> [step : {"idle", "write", "delete", "swap", "close"}, conn : Conn \cup {NoConn}]]
  /\ \A w \in Writer : writer[w].conn = NoConn <=> writer[w].step = "idle"
  /\ toClose \subseteq Conn
  /\ mu \in Conn \cup {NoConn} /\ \A c \in Conn : mu = c <=> pc[c] = "replace"
  /\ lateFrames \in [Conn -> Nat]

(* The connection that WriteFrame finds for a node is the one installed     *)
(* last: no unwinding read loop, failed write or Close puts an older one    *)
(* back or leaves one behind.                                               *)
InstalledIsNewest ==
  \A n \in NodeId : peers[n] # NoConn =>
    \A c \in Conn : NodeOf[c] = n /\ c # peers[n] => gen[c] < gen[peers[n]]

BeingDropped(c) == \E w \in Writer : writer[w] = [step |-> "swap", conn |-> c]

(* A connection whose read loop runs and that nobody flagged as closed is   *)
(* the one in the peer map, so frames for its node reach it: dropPeer of a  *)
(* replaced connection never deregisters its replacement.                   *)
LiveIsReachable ==
  \A c \in Conn :
    pc[c] \in Looping /\ c \notin closedFlag /\ ~ BeingDropped(c) /\ ~ closed
      => peers[NodeOf[c]] = c

(* Once a connection is flagged as closed (replaced, dropped after a failed *)
(* write, or shut down), its read loop hands at most the one frame it was   *)
(* busy with to OnFrame, whatever still arrives on the connection.  There   *)
(* can be one: the generation is checked before OnFrame, not with it.       *)
AtMostOneLateFrame == \A c \in Conn : lateFrames[c] <= 1

(* A replaced connection is closed and its handler goroutine ends; after    *)
(* Close, so do all.                                                        *)
Superseded(c) == \E d \in Conn : NodeOf[d] = NodeOf[c] /\ gen[d] > gen[c]

HandlersEnd ==
  \A c \in Conn :
    (gen[c] > 0 /\ (Superseded(c) \/ closed)) ~> (pc[c] = "end" /\ c \notin open)
=============================================================================
