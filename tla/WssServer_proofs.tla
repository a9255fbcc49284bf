-------------------------- MODULE WssServer_proofs --------------------------
(***************************************************************************)
(* For every number of nodes, of connections (reconnects) per node and of  *)
(* concurrent callers of WriteFrame, and every MaxPeers.                   *)
(***************************************************************************)
EXTENDS WssServer, TLAPS

(* The handler inside the critical section has flagged the connection it    *)
(* replaces.                                                                *)
OldFlagged == \A c \in Conn : pc[c] = "replace" => Old(c) \in closedFlag \cup {NoConn}

(* A connection that dispatched a frame after it was flagged has not read   *)
(* since, and will not read again.                                          *)
LateLeaves ==
  \A c \in Conn : lateFrames[c] > 0 =>
    /\ lateFrames[c] = 1 /\ c \in closedFlag
    /\ pc[c] \in {"top", "delete", "swap", "close", "end"}

Inv == TypeOK /\ InstalledIsNewest /\ LiveIsReachable /\ OldFlagged /\ LateLeaves

USE DEF Inv, Step, Looping

LEMMA InitInv == Init => Inv
<1> SUFFICES ASSUME Init PROVE Inv
  OBVIOUS
<1> USE WssAssumption DEF Init
<1>1. \A w \in Writer : writer[w] = [step |-> "idle", conn |-> NoConn]
  BY DEF WriterIdle
<1>2. TypeOK
  <2>1. writer \in [Writer -> [step : {"idle", "write", "delete", "swap", "close"},
                               conn : Conn \cup {NoConn}]]
    BY DEF WriterIdle
  <2>2. closed \in BOOLEAN
    BY Zenon
  <2> QED
    BY <1>1, <2>1, <2>2 DEF TypeOK
<1>3. InstalledIsNewest /\ LiveIsReachable /\ OldFlagged /\ LateLeaves
  BY DEF InstalledIsNewest, LiveIsReachable, OldFlagged, LateLeaves
<1> QED
  BY <1>2, <1>3

(* The handler and read loop of a connection.                               *)
LEMMA HandlerInv ==
  ASSUME Inv, NEW c \in Conn, HandlerStep(c)
  PROVE  Inv'
<1> USE WssAssumption DEF Goto
<1>1. CASE Upgrade(c) \/ Auth(c)
  <2>1. TypeOK' BY <1>1 DEF Upgrade, Auth, TypeOK
  <2>2. InstalledIsNewest' BY <1>1 DEF Upgrade, Auth, InstalledIsNewest
  <2>3. LiveIsReachable' BY <1>1 DEF Upgrade, Auth, LiveIsReachable, BeingDropped, TypeOK
  <2>4. OldFlagged' BY <1>1 DEF Upgrade, Auth, OldFlagged, Old, TypeOK
  <2>5. LateLeaves' BY <1>1 DEF Upgrade, Auth, LateLeaves, TypeOK
  <2> QED BY <2>1, <2>2, <2>3, <2>4, <2>5
<1>2. CASE Install(c)
  <2>1. TypeOK' BY <1>2 DEF Install, TypeOK, Old
  <2>2. InstalledIsNewest' BY <1>2 DEF Install, InstalledIsNewest
  <2>3. LiveIsReachable' BY <1>2 DEF Install, LiveIsReachable, BeingDropped, TypeOK
  <2>4. OldFlagged' BY <1>2 DEF Install, OldFlagged, Old, TypeOK
  <2>5. LateLeaves' BY <1>2 DEF Install, LateLeaves, TypeOK
  <2> QED BY <2>1, <2>2, <2>3, <2>4, <2>5
<1>3. CASE Replace(c)
  <2>1. TypeOK' BY <1>3 DEF Replace, TypeOK
  <2>2. InstalledIsNewest' BY <1>3 DEF Replace, InstalledIsNewest, TypeOK
  <2>3. LiveIsReachable'
    BY <1>3 DEF Replace, LiveIsReachable, BeingDropped, TypeOK, OldFlagged, Old
  <2>4. OldFlagged' BY <1>3 DEF Replace, OldFlagged, Old, TypeOK
  <2>5. LateLeaves' BY <1>3 DEF Replace, LateLeaves, TypeOK
  <2> QED BY <2>1, <2>2, <2>3, <2>4, <2>5
<1>4. CASE LoopTop(c) \/ Read(c) \/ CheckGen(c)
  <2>1. TypeOK' BY <1>4 DEF LoopTop, Read, CheckGen, TypeOK
  <2>2. InstalledIsNewest' BY <1>4 DEF LoopTop, Read, CheckGen, InstalledIsNewest
  <2>3. LiveIsReachable'
    BY <1>4 DEF LoopTop, Read, CheckGen, LiveIsReachable, BeingDropped, TypeOK
  <2>4. OldFlagged' BY <1>4 DEF LoopTop, Read, CheckGen, OldFlagged, Old, TypeOK
  <2>5. LateLeaves' BY <1>4 DEF LoopTop, Read, CheckGen, LateLeaves, TypeOK
  <2> QED BY <2>1, <2>2, <2>3, <2>4, <2>5
<1>5. CASE Dispatch(c)
  <2>1. TypeOK' BY <1>5 DEF Dispatch, TypeOK
  <2>2. InstalledIsNewest' BY <1>5 DEF Dispatch, InstalledIsNewest
  <2>3. LiveIsReachable' BY <1>5 DEF Dispatch, LiveIsReachable, BeingDropped, TypeOK
  <2>4. OldFlagged' BY <1>5 DEF Dispatch, OldFlagged, Old, TypeOK
  <2>5. LateLeaves' BY <1>5 DEF Dispatch, LateLeaves, TypeOK
  <2> QED BY <2>1, <2>2, <2>3, <2>4, <2>5
<1>6. CASE LoopDelete(c)
  <2> USE DEF LoopDelete, DeletePeer
  <2>1. TypeOK' BY <1>6 DEF TypeOK
  <2>2. InstalledIsNewest' BY <1>6 DEF InstalledIsNewest, TypeOK
  <2>3. LiveIsReachable' BY <1>6 DEF LiveIsReachable, BeingDropped, TypeOK
  <2>4. OldFlagged' BY <1>6 DEF OldFlagged, Old, TypeOK
  <2>5. LateLeaves' BY <1>6 DEF LateLeaves, TypeOK
  <2> QED BY <2>1, <2>2, <2>3, <2>4, <2>5
<1>7. CASE LoopSwap(c) \/ LoopClose(c)
  <2> USE DEF LoopSwap, LoopClose, SwapClosed
  <2>1. TypeOK' BY <1>7 DEF TypeOK
  <2>2. InstalledIsNewest' BY <1>7 DEF InstalledIsNewest
  <2>3. LiveIsReachable' BY <1>7 DEF LiveIsReachable, BeingDropped, TypeOK
  <2>4. OldFlagged' BY <1>7 DEF OldFlagged, Old, TypeOK
  <2>5. LateLeaves' BY <1>7 DEF LateLeaves, TypeOK
  <2> QED BY <2>1, <2>2, <2>3, <2>4, <2>5
<1> QED
  BY <1>1, <1>2, <1>3, <1>4, <1>5, <1>6, <1>7 DEF HandlerStep

LEMMA WriterInv ==
  ASSUME Inv, NEW w \in Writer, WriterStep(w)
  PROVE  Inv'
<1> USE WssAssumption DEF SetWriter, WriterIdle, conns
<1>1. CASE \/ \E n \in NodeId : WriteLookup(w, n)
           \/ Write(w)
  <2> USE DEF WriteLookup, Write
  <2>1. TypeOK'
    <3>1. PICK v \in [step : {"write", "delete"}, conn : Conn] \cup {WriterIdle} :
                 writer' = [writer EXCEPT ![w] = v]
      BY <1>1 DEF TypeOK
    <3>2. /\ v \in [step : {"idle", "write", "delete", "swap", "close"},
                    conn : Conn \cup {NoConn}]
          /\ v.conn = NoConn <=> v.step = "idle"
      BY <3>1
    <3>3. /\ writer' \in [Writer -> [step : {"idle", "write", "delete", "swap", "close"},
                                     conn : Conn \cup {NoConn}]]
          /\ \A x \in Writer : writer'[x].conn = NoConn <=> writer'[x].step = "idle"
      BY <3>1, <3>2 DEF TypeOK
    <3>4. UNCHANGED <<peers, closed, peerGen, pc, open, closedFlag, gen, toClose, mu,
                      lateFrames>>
      BY <1>1
    <3> QED
      BY <3>3, <3>4 DEF TypeOK
  <2>2. InstalledIsNewest' BY <1>1 DEF InstalledIsNewest
  <2>3. LiveIsReachable' BY <1>1 DEF LiveIsReachable, BeingDropped, TypeOK
  <2>4. OldFlagged' BY <1>1 DEF OldFlagged, Old
  <2>5. LateLeaves' BY <1>1 DEF LateLeaves
  <2> QED BY <2>1, <2>2, <2>3, <2>4, <2>5
<1>2. CASE WriteDelete(w)
  <2> USE DEF WriteDelete, DeletePeer
  <2>1. TypeOK' BY <1>2 DEF TypeOK
  <2>2. InstalledIsNewest' BY <1>2 DEF InstalledIsNewest, TypeOK
  <2>3. LiveIsReachable' BY <1>2 DEF LiveIsReachable, BeingDropped, TypeOK
  <2>4. OldFlagged' BY <1>2 DEF OldFlagged, Old, TypeOK
  <2>5. LateLeaves' BY <1>2 DEF LateLeaves
  <2> QED BY <2>1, <2>2, <2>3, <2>4, <2>5
<1>3. CASE WriteSwap(w) \/ WriteClose(w)
  <2> USE DEF WriteSwap, WriteClose, SwapClosed
  <2>1. TypeOK'
    <3>1. writer[w].step # "idle" /\ writer[w].conn \in Conn
      BY <1>3 DEF TypeOK
    <3>2. PICK v \in {WriterIdle, [step |-> "close", conn |-> writer[w].conn]} :
                 writer' = [writer EXCEPT ![w] = v]
      BY <1>3
    <3>3. /\ v \in [step : {"idle", "write", "delete", "swap", "close"},
                    conn : Conn \cup {NoConn}]
          /\ v.conn = NoConn <=> v.step = "idle"
      BY <3>1
    <3>4. /\ writer' \in [Writer -> [step : {"idle", "write", "delete", "swap", "close"},
                                     conn : Conn \cup {NoConn}]]
          /\ \A x \in Writer : writer'[x].conn = NoConn <=> writer'[x].step = "idle"
      BY <3>2, <3>3 DEF TypeOK
    <3>5. open' \subseteq Conn /\ closedFlag' \subseteq Conn
      BY <1>3, <3>1 DEF TypeOK
    <3>6. UNCHANGED <<peers, closed, peerGen, pc, gen, toClose, mu, lateFrames>>
      BY <1>3
    <3> QED
      BY <3>4, <3>5, <3>6 DEF TypeOK
  <2>2. InstalledIsNewest' BY <1>3 DEF InstalledIsNewest
  <2>3. LiveIsReachable' BY <1>3 DEF LiveIsReachable, BeingDropped, TypeOK
  <2>4. OldFlagged' BY <1>3 DEF OldFlagged, Old
  <2>5. LateLeaves' BY <1>3 DEF LateLeaves
  <2> QED BY <2>1, <2>2, <2>3, <2>4, <2>5
<1> QED
  BY <1>1, <1>2, <1>3 DEF WriterStep

LEMMA CloseInv ==
  ASSUME Inv, Close \/ \E c \in Conn : CloseConn(c) \/ CloseFlag(c)
  PROVE  Inv'
<1> USE WssAssumption DEF Close, CloseConn, CloseFlag, conns
<1>1. TypeOK'
  <2>1. CASE Close
    <3>1. toClose' \subseteq Conn
      BY <2>1 DEF TypeOK
    <3>2. closed' \in BOOLEAN
      BY <2>1
    <3> QED
      BY <2>1, <3>1, <3>2 DEF TypeOK
  <2>2. CASE \E c \in Conn : CloseConn(c) \/ CloseFlag(c)
    BY <2>2 DEF TypeOK
  <2> QED
    BY <2>1, <2>2, Zenon
<1>2. InstalledIsNewest' BY DEF InstalledIsNewest
<1>3. LiveIsReachable' BY DEF LiveIsReachable, BeingDropped, TypeOK
<1>4. OldFlagged' BY DEF OldFlagged, Old, TypeOK
<1>5. LateLeaves' BY DEF LateLeaves
<1> QED
  BY <1>1, <1>2, <1>3, <1>4, <1>5

LEMMA StepInv == Inv /\ [Next]_vars => Inv'
<1>1. Inv /\ UNCHANGED vars => Inv'
  BY DEF vars, conns, TypeOK, InstalledIsNewest, LiveIsReachable, BeingDropped,
         OldFlagged, Old, LateLeaves
<1> QED
  BY <1>1, HandlerInv, WriterInv, CloseInv DEF Next

LEMMA Invariance == Spec => []Inv
  BY InitInv, StepInv, PTL DEF Spec

(* Handlers, writers and Close keep the server's data well formed.          *)
THEOREM Typing == Spec => []TypeOK
  BY Invariance, PTL

(* WriteFrame finds the connection installed last, however often a node     *)
(* reconnects.                                                              *)
THEOREM Newest == Spec => []InstalledIsNewest
  BY Invariance, PTL

(* A live connection is never deregistered on behalf of another one.        *)
THEOREM Reachable == Spec => []LiveIsReachable
  BY Invariance, PTL

(* A connection flagged as closed dispatches one frame at most.             *)
THEOREM OneLateFrame == Spec => []AtMostOneLateFrame
<1>1. Inv => AtMostOneLateFrame
  BY DEF LateLeaves, TypeOK, AtMostOneLateFrame
<1> QED
  BY <1>1, Invariance, PTL
=============================================================================
