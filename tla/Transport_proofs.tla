-------------------------- MODULE Transport_proofs --------------------------
(***************************************************************************)
(* For every number of connections and of concurrent callers of Send, and  *)
(* every capacity of recvCh.                                               *)
(***************************************************************************)
EXTENDS Transport, TLAPS

Draining == {"drain", "read", "deliver", "drained", "clear"}

(* Where t.conn can point, given where the supervisor is.                   *)
ConnOwner ==
  /\ sup \in Draining => conn \in {mine, NoConn}
  /\ sup \in {"hangup", "sleep", "dial", "dialed", "install"} => conn = NoConn
  /\ sup \in {"sleep", "dial"} => mine = NoConn
  /\ sup = "done" => closed

(* Who will close each open connection.                                     *)
OpenOwned ==
  /\ \A c \in open : \/ c \in {conn, taken}
                     \/ c = mine /\ sup \in {"hangup", "dialed", "install"}
  /\ \A s \in Sender : sender[s].step = "clear" => sender[s].conn \notin open
  /\ taken # NoConn => closer = "hangup"

(* Until Close, the connection a sender holds is open only while installed, *)
(* since no dial takes the name of a connection that a sender holds.  What  *)
(* the supervisor read an error from is closed.                             *)
SenderOwner ==
  ~ closed =>
    /\ \A s \in Sender : sender[s].conn \in open => sender[s].conn = conn
    /\ sup \in {"drained", "clear", "hangup"} => mine \notin open
    /\ taken = NoConn

Waited ==
  /\ recvClosed => closer = "done"
  /\ closer = "done" => sup = "done"

Inv == TypeOK /\ ConnOwner /\ OpenOwned /\ SenderOwner /\ Waited

LEMMA InitInv == Init => Inv
<1> SUFFICES ASSUME Init PROVE Inv
  OBVIOUS
<1>1. PICK c \in Conn : conn = c /\ open = {c}
  BY DEF Init
<1>2. \A s \in Sender : sender[s] = [step |-> "idle", conn |-> NoConn]
  BY DEF Init, SenderIdle
<1>3. sender \in [Sender -> [step : {"idle", "load", "write", "clear"}, conn : Conn \cup {NoConn}]]
  BY DEF Init, SenderIdle
<1>4. closed \in BOOLEAN /\ cancelled \in BOOLEAN /\ recvClosed \in BOOLEAN
  BY Zenon DEF Init
<1>5. closed <=> closer # "idle"
  BY DEF Init
<1>6. TypeOK
  BY <1>1, <1>2, <1>3, <1>4, <1>5, TransportAssumption DEF Init, TypeOK, SupStep
<1>7. ConnOwner /\ OpenOwned /\ SenderOwner /\ Waited
  BY <1>1, <1>2 DEF Init, ConnOwner, OpenOwned, SenderOwner, Waited, Draining
<1> QED
  BY <1>6, <1>7 DEF Inv

LEMMA SupervisorStep == Inv /\ Supervise => Inv'
<1> SUFFICES ASSUME Inv, Supervise PROVE Inv'
  OBVIOUS
<1> USE TransportAssumption
    DEF Inv, TypeOK, ConnOwner, OpenOwned, SenderOwner, Waited, SupStep, Draining, closeVars
<1>1. CASE SupTop BY <1>1 DEF SupTop
<1>2. CASE SupLoad BY <1>2 DEF SupLoad
<1>3. CASE DrainTop BY <1>3 DEF DrainTop
<1>4. CASE DrainRead BY <1>4 DEF DrainRead
<1>5. CASE DrainDeliver BY <1>5 DEF DrainDeliver
<1>6. CASE SupDrained BY <1>6 DEF SupDrained
<1>7. CASE SupClear BY <1>7 DEF SupClear
<1>8. CASE SupHangup BY <1>8 DEF SupHangup
<1>9. CASE SupSleep BY <1>9 DEF SupSleep
<1>10. CASE DialOK BY <1>10 DEF DialOK, Referenced
<1>11. CASE DialFail BY <1>11 DEF DialFail
<1>12. CASE SupDialed BY <1>12 DEF SupDialed
<1>13. CASE SupInstall BY <1>13 DEF SupInstall
<1> QED
  BY <1>1, <1>2, <1>3, <1>4, <1>5, <1>6, <1>7, <1>8, <1>9, <1>10, <1>11, <1>12, <1>13,
     Zenon
  DEF Supervise

LEMMA SenderStep ==
  ASSUME Inv, NEW s \in Sender, SendCheck(s) \/ SendLoad(s) \/ SendWrite(s) \/ SendClear(s)
  PROVE  Inv'
<1> USE TransportAssumption
    DEF Inv, TypeOK, ConnOwner, OpenOwned, SenderOwner, Waited, SupStep, Draining, closeVars, supVars,
        SetSender
<1>1. CASE SendCheck(s) BY <1>1 DEF SendCheck
<1>2. CASE SendLoad(s) BY <1>2 DEF SendLoad
<1>3. CASE SendWrite(s) BY <1>3 DEF SendWrite
<1>4. CASE SendClear(s) BY <1>4 DEF SendClear
<1> QED
  BY <1>1, <1>2, <1>3, <1>4

LEMMA CloserStep == Inv /\ (CloseMark \/ CloseStep) => Inv'
<1> SUFFICES ASSUME Inv, CloseMark \/ CloseStep PROVE Inv'
  OBVIOUS
<1> USE TransportAssumption
    DEF Inv, TypeOK, ConnOwner, OpenOwned, SenderOwner, Waited, SupStep, Draining, supVars
<1>1. CASE CloseMark BY <1>1 DEF CloseMark
<1>2. CASE CloseCancel BY <1>2 DEF CloseCancel
<1>3. CASE CloseTake BY <1>3 DEF CloseTake
<1>4. CASE CloseHangup BY <1>4 DEF CloseHangup
<1>5. CASE CloseWait BY <1>5 DEF CloseWait
<1> QED
  BY <1>1, <1>2, <1>3, <1>4, <1>5 DEF CloseStep

LEMMA StepInv == Inv /\ [Next]_vars => Inv'
<1> SUFFICES ASSUME Inv, [Next]_vars PROVE Inv'
  OBVIOUS
<1>1. CASE Recv
  BY <1>1, TransportAssumption
  DEF Recv, Inv, TypeOK, ConnOwner, OpenOwned, SenderOwner, Waited, supVars, closeVars
<1>2. CASE UNCHANGED vars
  BY <1>2 DEF vars, Inv, TypeOK, ConnOwner, OpenOwned, SenderOwner, Waited, supVars, closeVars
<1> QED
  BY <1>1, <1>2, SupervisorStep, SenderStep, CloserStep DEF Next

LEMMA Invariance == Spec => []Inv
  BY InitInv, StepInv, PTL DEF Spec

(* recvCh never holds more than its capacity, with any number of senders.   *)
THEOREM Typing == Spec => []TypeOK
  BY Invariance, PTL DEF Inv

(* Nothing is sent on a closed recvCh.                                      *)
THEOREM ChannelSafety == Spec => []NoSendOnClosed
<1>1. Inv => NoSendOnClosed
  BY DEF Inv, Waited, NoSendOnClosed
<1> QED
  BY <1>1, Invariance, PTL

(* Send never writes to a connection that works and that the supervisor     *)
(* has left, with any number of senders.                                    *)
THEOREM SendersFollow == Spec => []SendUsesDrained
<1>1. Inv => SendUsesDrained
  BY DEF Inv, TypeOK, SupStep, ConnOwner, OpenOwned, SenderOwner, Draining, SendUsesDrained
<1> QED
  BY <1>1, Invariance, PTL

(* Until Close, no connection that works is ever lost from t.conn, through  *)
(* any number of reconnects and late write errors.                          *)
THEOREM NoneLeftBehind == Spec => []LiveIsInstalled
<1>1. Inv => LiveIsInstalled
  BY TransportAssumption DEF Inv, TypeOK, OpenOwned, SenderOwner, LiveIsInstalled
<1> QED
  BY <1>1, Invariance, PTL

(* What Close leaves open when it returns: nothing but the one connection   *)
(* that a reconnect installed in t.conn after Close had emptied it.         *)
CloseLeaves == closer = "done" => open \subseteq {conn}

(* However many reconnects and senders Close races with, it leaves at most  *)
(* one connection open, and t.conn still names it.                          *)
THEOREM CloseBound == Spec => []CloseLeaves
<1>1. Inv => CloseLeaves
  BY TransportAssumption DEF Inv, TypeOK, OpenOwned, Waited, CloseLeaves
<1> QED
  BY <1>1, Invariance, PTL
=============================================================================
