------------------------------ MODULE Transport -----------------------------
(***************************************************************************)
(* The daemon end of the compat WSS tunnel (wss/internal/daemonwss/wss.go):*)
(* the supervisor goroutine, which reads frames and reconnects, callers of *)
(* Send and Recv, and Close.  Each access to t.conn under connMu, to       *)
(* t.closed, to recvCh and to a connection is a step.                      *)
(*                                                                         *)
(* The websocket library is external: a closed connection yields no frame  *)
(* and takes no write; any read, write or dial may fail, and a failed read *)
(* or write leaves the connection closed.  Conn holds identities for       *)
(* connections, used again once nobody refers to them.  Backoff lengths    *)
(* and frame contents are left out.                                        *)
(***************************************************************************)
EXTENDS Naturals

CONSTANTS Conn, Sender,
          RecvBuffer,  \* Config.RecvBuffer, the capacity of recvCh
          NoConn

ASSUME TransportAssumption ==
  /\ RecvBuffer \in Nat \ {0}
  /\ NoConn \notin Conn

VARIABLES conn,      \* t.conn
          closed,    \* t.closed
          cancelled, \* lifetimeCtx is cancelled
          open,      \* connections that are open
          recvCh,    \* number of items in recvCh
          recvClosed,\* recvCh is closed
          sup,       \* where the supervisor is
          mine,      \* the supervisor's local conn, or newConn
          sender,    \* what each caller of Send is doing
          closer,    \* where Close is
          taken      \* Close's local conn

supVars == <<sup, mine>>
closeVars == <<closed, cancelled, recvClosed, closer, taken>>
vars == <<conn, open, recvCh, supVars, sender, closeVars>>

SupStep == {"top", "load", "drain", "read", "deliver", "drained", "clear",
            "hangup", "sleep", "dial", "dialed", "install", "done"}

SenderIdle == [step |-> "idle", conn |-> NoConn]

(* Dial connects before it starts the supervisor.                           *)
Init ==
  /\ \E c \in Conn : conn = c /\ open = {c}
  /\ closed = FALSE /\ cancelled = FALSE
  /\ recvCh = 0 /\ recvClosed = FALSE
  /\ sup = "top" /\ mine = NoConn
  /\ sender = [s \in Sender |-> SenderIdle]
  /\ closer = "idle" /\ taken = NoConn

-----------------------------------------------------------------------------
(* supervise *)

SupTop ==
  /\ sup = "top"
  /\ sup' = IF closed THEN "done" ELSE "load"
  /\ UNCHANGED <<conn, open, recvCh, mine, sender, closeVars>>

SupLoad ==
  /\ sup = "load"
  /\ mine' = conn
  /\ sup' = IF conn = NoConn THEN "sleep" ELSE "drain"
  /\ UNCHANGED <<conn, open, recvCh, sender, closeVars>>

(* drainReads: the check at the loop's head, the read, the delivery.        *)
DrainTop ==
  /\ sup = "drain"
  /\ sup' = IF closed THEN "drained" ELSE "read"
  /\ UNCHANGED <<conn, open, recvCh, mine, sender, closeVars>>

(* A mutant: a control frame ends drainReads.                               *)
DrainReadControlEnds ==
  /\ sup = "read"
  /\ \/ mine \in open /\ sup' = "deliver" /\ UNCHANGED open
     \/ mine \in open /\ sup' = "drained" /\ UNCHANGED open
     \/ sup' = "drained" /\ open' = open \ {mine}
  /\ UNCHANGED <<conn, recvCh, mine, sender, closeVars>>

(* A binary frame is delivered and a control frame skipped; after an error  *)
(* Recv hears ErrClosed, if Close was called and recvCh has room.           *)
DrainRead ==
  /\ sup = "read"
  /\ \/ mine \in open /\ sup' = "deliver" /\ UNCHANGED <<open, recvCh>>
     \/ mine \in open /\ sup' = "drain" /\ UNCHANGED <<open, recvCh>>
     \/ /\ sup' = "drained" /\ open' = open \ {mine}
        /\ recvCh' = IF closed /\ recvCh < RecvBuffer THEN recvCh + 1 ELSE recvCh
  /\ UNCHANGED <<conn, mine, sender, closeVars>>

(* A mutant: one item more than recvCh holds.                               *)
DrainDeliverOver ==
  /\ sup = "deliver" /\ recvCh <= RecvBuffer
  /\ recvCh' = recvCh + 1
  /\ sup' = "drain"
  /\ UNCHANGED <<conn, open, mine, sender, closeVars>>

(* The other arm of the select waits for superviseDoneCh, which this very   *)
(* goroutine closes when it returns.                                        *)
DrainDeliver ==
  /\ sup = "deliver"
  /\ recvCh < RecvBuffer
  /\ recvCh' = recvCh + 1
  /\ sup' = "drain"
  /\ UNCHANGED <<conn, open, mine, sender, closeVars>>

SupDrained ==
  /\ sup = "drained"
  /\ sup' = IF closed THEN "done" ELSE "clear"
  /\ UNCHANGED <<conn, open, recvCh, mine, sender, closeVars>>

SupClear ==
  /\ sup = "clear"
  /\ conn' = IF conn = mine THEN NoConn ELSE conn
  /\ sup' = "hangup"
  /\ UNCHANGED <<open, recvCh, mine, sender, closeVars>>

SupHangup ==
  /\ sup = "hangup"
  /\ open' = open \ {mine} /\ mine' = NoConn
  /\ sup' = "sleep"
  /\ UNCHANGED <<conn, recvCh, sender, closeVars>>

(* sleepOrClosed.                                                           *)
SupSleep ==
  /\ sup = "sleep"
  /\ sup' \in {"dial"} \cup (IF closed THEN {"done"} ELSE {})
  /\ UNCHANGED <<conn, open, recvCh, mine, sender, closeVars>>

Referenced == open \cup {conn, taken} \cup {sender[s].conn : s \in Sender}

(* dialAndAuth, under lifetimeCtx.                                          *)
DialOK ==
  /\ sup = "dial" /\ ~ cancelled
  /\ \E c \in Conn \ Referenced : mine' = c /\ open' = open \cup {c}
  /\ sup' = "dialed"
  /\ UNCHANGED <<conn, recvCh, sender, closeVars>>

DialFail ==
  /\ sup = "dial" /\ sup' = "dialed"
  /\ UNCHANGED <<conn, open, recvCh, mine, sender, closeVars>>

(* A mutant: a failed dial ends the supervisor.                             *)
SupDialedGivesUp ==
  /\ sup = "dialed"
  /\ sup' = IF closed \/ mine = NoConn THEN "done" ELSE "install"
  /\ open' = IF closed THEN open \ {mine} ELSE open
  /\ UNCHANGED <<conn, recvCh, mine, sender, closeVars>>

SupDialed ==
  /\ sup = "dialed"
  /\ sup' = IF closed THEN "done" ELSE IF mine = NoConn THEN "top" ELSE "install"
  /\ open' = IF closed THEN open \ {mine} ELSE open
  /\ UNCHANGED <<conn, recvCh, mine, sender, closeVars>>

SupInstall ==
  /\ sup = "install"
  /\ conn' = mine
  /\ sup' = "top"
  /\ UNCHANGED <<open, recvCh, mine, sender, closeVars>>

Supervise ==
  \/ SupTop \/ SupLoad \/ DrainTop \/ DrainRead \/ DrainDeliver \/ SupDrained
  \/ SupClear \/ SupHangup \/ SupSleep \/ DialOK \/ DialFail \/ SupDialed \/ SupInstall

-----------------------------------------------------------------------------
(* Send *)

SetSender(s, step, c) == sender' = [sender EXCEPT ![s] = [step |-> step, conn |-> c]]

SendCheck(s) ==
  /\ sender[s].step = "idle" /\ ~ closed
  /\ SetSender(s, "load", NoConn)
  /\ UNCHANGED <<conn, open, recvCh, supVars, closeVars>>

(* With no connection installed Send returns ErrReconnecting.               *)
SendLoad(s) ==
  /\ sender[s].step = "load"
  /\ SetSender(s, IF conn = NoConn THEN "idle" ELSE "write", conn)
  /\ UNCHANGED <<conn, open, recvCh, supVars, closeVars>>

SendWrite(s) ==
  LET c == sender[s].conn IN
  /\ sender[s].step = "write"
  /\ \/ c \in open /\ SetSender(s, "idle", NoConn) /\ UNCHANGED open
     \/ /\ open' = open \ {c}
        /\ IF closed THEN SetSender(s, "idle", NoConn) ELSE SetSender(s, "clear", c)
  /\ UNCHANGED <<conn, recvCh, supVars, closeVars>>

(* A mutant: a write error clears whatever connection is installed now.     *)
SendClearAny(s) ==
  /\ sender[s].step = "clear"
  /\ conn' = NoConn
  /\ SetSender(s, "idle", NoConn)
  /\ UNCHANGED <<open, recvCh, supVars, closeVars>>

SendClear(s) ==
  /\ sender[s].step = "clear"
  /\ conn' = IF conn = sender[s].conn THEN NoConn ELSE conn
  /\ SetSender(s, "idle", NoConn)
  /\ UNCHANGED <<open, recvCh, supVars, closeVars>>

(* Recv; on a closed and empty recvCh it returns ErrClosed.                 *)
Recv ==
  /\ recvCh > 0
  /\ recvCh' = recvCh - 1
  /\ UNCHANGED <<conn, open, supVars, sender, closeVars>>

-----------------------------------------------------------------------------
(* Close, once. *)

(* A mutant: the closed flag is not set.                                    *)
CloseMarkNoFlag ==
  /\ closer = "idle" /\ closer' = "cancel"
  /\ UNCHANGED <<conn, open, recvCh, supVars, sender, closed, cancelled, recvClosed, taken>>

CloseMark ==
  /\ closer = "idle"
  /\ closed' = TRUE /\ closer' = "cancel"
  /\ UNCHANGED <<conn, open, recvCh, supVars, sender, cancelled, recvClosed, taken>>

CloseCancel ==
  /\ closer = "cancel"
  /\ cancelled' = TRUE /\ closer' = "take"
  /\ UNCHANGED <<conn, open, recvCh, supVars, sender, closed, recvClosed, taken>>

CloseTake ==
  /\ closer = "take"
  /\ taken' = conn /\ conn' = NoConn /\ closer' = "hangup"
  /\ UNCHANGED <<open, recvCh, supVars, sender, closed, cancelled, recvClosed>>

CloseHangup ==
  /\ closer = "hangup"
  /\ open' = open \ {taken} /\ taken' = NoConn /\ closer' = "wait"
  /\ UNCHANGED <<conn, recvCh, supVars, sender, closed, cancelled, recvClosed>>

(* A mutant: Close does not wait for the supervisor.                        *)
CloseWaitNot ==
  /\ closer = "wait"
  /\ recvClosed' = TRUE /\ closer' = "done"
  /\ UNCHANGED <<conn, open, recvCh, supVars, sender, closed, cancelled, taken>>

CloseWait ==
  /\ closer = "wait" /\ sup = "done"
  /\ recvClosed' = TRUE /\ closer' = "done"
  /\ UNCHANGED <<conn, open, recvCh, supVars, sender, closed, cancelled, taken>>

CloseStep == CloseCancel \/ CloseTake \/ CloseHangup \/ CloseWait

Next ==
  \/ Supervise
  \/ \E s \in Sender : SendCheck(s) \/ SendLoad(s) \/ SendWrite(s) \/ SendClear(s)
  \/ Recv
  \/ CloseMark \/ CloseStep

(* The supervisor, a started Close and a started Send run on.  The beacon   *)
(* is reachable often enough for a dial to succeed in the end.              *)
Running ==
  /\ WF_vars(Supervise) /\ SF_vars(DialOK)
  /\ WF_vars(CloseStep)
  /\ \A s \in Sender : WF_vars(SendLoad(s) \/ SendWrite(s) \/ SendClear(s))

Spec == Init /\ [][Next]_vars

(* Nobody need call Recv, or somebody keeps calling it.                     *)
FairSpec == Spec /\ Running

RecvSpec == Spec /\ Running /\ WF_vars(Recv)

-----------------------------------------------------------------------------
(* recvCh stays within its capacity, and a goroutine that holds no          *)
(* connection names none.                                                   *)
TypeOK ==
  /\ conn \in Conn \cup {NoConn}
  /\ closed \in BOOLEAN /\ cancelled \in BOOLEAN /\ recvClosed \in BOOLEAN
  /\ open \subseteq Conn
  /\ recvCh \in 0 .. RecvBuffer
  /\ sup \in SupStep /\ mine \in Conn \cup {NoConn}
  /\ sender \in [Sender -> [step : {"idle", "load", "write", "clear"}, conn : Conn \cup {NoConn}]]
  /\ \A s \in Sender : sender[s].conn = NoConn <=> sender[s].step \in {"idle", "load"}
  /\ closer \in {"idle", "cancel", "take", "hangup", "wait", "done"}
  /\ closed <=> closer # "idle"
  /\ taken \in Conn \cup {NoConn}

(* The supervisor never sends on recvCh after Close closed it, which would  *)
(* panic: Close waits for superviseDoneCh first.                            *)
NoSendOnClosed == recvClosed => sup = "done"

(* Until Close, a connection that a caller of Send has loaded and that      *)
(* still takes writes is the installed one, and the supervisor reads it or  *)
(* is about to: no frame goes to a connection whose answers nobody reads.   *)
SendUsesDrained ==
  \A s \in Sender : ~ closed /\ sender[s].step = "write" /\ sender[s].conn \in open =>
    /\ conn = sender[s].conn
    /\ \/ sup \in {"top", "load"}
       \/ mine = conn /\ sup \in {"drain", "read", "deliver", "drained", "clear"}

(* Until Close, every open connection is installed, or dialled and about to *)
(* be: a reconnect leaves none behind, and neither the supervisor nor the   *)
(* late write error of a sender takes a connection that works from t.conn.  *)
LiveIsInstalled ==
  ~ closed => \A c \in open : \/ c = conn
                              \/ c = mine /\ sup \in {"dialed", "install"}

(* "Close shuts down the WSS connection", and a reconnect that it races     *)
(* with is to "drop the new conn rather than installing it": when Close     *)
(* returns no connection is open.                                           *)
CloseShutsDown == closer = "done" => open = {}

(* As long as the transport is not closed, a lost connection is replaced:   *)
(* "A failed reconnect attempt MUST NOT make the supervisor exit".          *)
Reconnects == (conn = NoConn) ~> (conn # NoConn \/ closed)

(* "After Close, the supervisor goroutine exits": Close returns.            *)
CloseReturns == (closer # "idle") ~> (closer = "done")
=============================================================================
