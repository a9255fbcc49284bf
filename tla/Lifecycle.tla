----------------------------- MODULE Lifecycle ------------------------------
(***************************************************************************)
(* The life of one Server: ListenAndServe binds the sockets one by one,    *)
(* publishes them and starts the background loops and a reader per socket; *)
(* Close, called by anybody at any time, closes done and the sockets it    *)
(* finds in s.conns.  Nothing but readyCh orders the two: a caller of      *)
(* Close that has not received from Ready() races with the appends to      *)
(* s.conns and may see any earlier length of it.                           *)
(*                                                                         *)
(* The loops are the relay workers and the stats, reap, gossip and         *)
(* registry loops.  What they do is in other modules; here each is at its  *)
(* select or at work, and its work may panic.  seen is a history variable: *)
(* the sockets that the teardown found.                                    *)
(***************************************************************************)
EXTENDS Integers, FiniteSets

CONSTANTS SocketCount,  \* readers, one socket each
          Loop,         \* the background goroutines
          Worker,       \* those of them that are relay workers
          Closer,       \* goroutines that call Close
          Waiters       \* those of them that wait for Ready() first

ASSUME LifecycleAssumption == 
  SocketCount \in Nat \ {0} /\ Worker \subseteq Loop /\ Waiters \subseteq Closer

VARIABLES listen,   \* where ListenAndServe is
          conns,    \* length of s.conns
          open,     \* sockets that are open
          ready,    \* s.readyCh is closed
          done,     \* s.done is closed
          loop,     \* each background goroutine
          reader,   \* each socket's readLoop
          closer,   \* where each caller of Close is
          once,     \* s.closeOnce
          todo,     \* sockets that the teardown has yet to close
          seen      \* sockets that the teardown found

goroutines == <<loop, reader>>
teardown == <<closer, once, todo, seen>>
vars == <<listen, conns, open, ready, done, goroutines, teardown>>

Socket == 1 .. SocketCount

Init ==
  /\ listen = "bind" /\ conns = 0 /\ open = {}
  /\ ready = FALSE /\ done = FALSE
  /\ loop = [l \in Loop |-> "off"]
  /\ reader = [i \in Socket |-> "off"]
  /\ closer = [c \in Closer |-> "idle"]
  /\ once = "free" /\ todo = {} /\ seen = {}

-----------------------------------------------------------------------------
(* ListenAndServe *)

Bind ==
  /\ listen = "bind" /\ conns < SocketCount
  /\ conns' = conns + 1
  /\ open' = open \cup {conns + 1}
  /\ UNCHANGED <<listen, ready, done, goroutines, teardown>>

(* A mutant: the sockets bound so far stay open.                            *)
BindFailsLeaks ==
  /\ listen = "bind" /\ conns < SocketCount
  /\ listen' = "failed"
  /\ UNCHANGED <<conns, open, ready, done, goroutines, teardown>>

(* listenReusePort fails: the sockets bound so far are closed again.        *)
BindFails ==
  /\ listen = "bind" /\ conns < SocketCount
  /\ listen' = "failed"
  /\ open' = open \ (1 .. conns)
  /\ UNCHANGED <<conns, ready, done, goroutines, teardown>>

(* A mutant: readers are announced when the first socket is bound.          *)
PublishEarly ==
  /\ listen = "bind" /\ conns > 0
  /\ listen' = "spawn" /\ ready' = TRUE
  /\ UNCHANGED <<conns, open, done, goroutines, teardown>>

(* s.conn and the send sockets are set before readyCh is closed.            *)
Publish ==
  /\ listen = "bind" /\ conns = SocketCount
  /\ listen' = "spawn" /\ ready' = TRUE
  /\ UNCHANGED <<conns, open, done, goroutines, teardown>>

(* The go statements; the first socket is read by ListenAndServe itself.    *)
(* A goroutine may take its first step as late as it likes.                 *)
Spawn ==
  /\ listen = "spawn"
  /\ listen' = "serve"
  /\ loop' = [l \in Loop |-> "select"]
  /\ reader' = [i \in Socket |-> "read"]
  /\ UNCHANGED <<conns, open, ready, done, teardown>>

Return ==
  /\ listen = "serve" /\ reader[1] = "ended"
  /\ listen' = "returned"
  /\ UNCHANGED <<conns, open, ready, done, goroutines, teardown>>

-----------------------------------------------------------------------------
(* readLoop and readLoopBatches *)

ReaderGoto(i, l) ==
  /\ reader' = [reader EXCEPT ![i] = l]
  /\ UNCHANGED <<listen, conns, open, ready, done, loop, teardown>>

(* ReadBatch returns packets.                                               *)
ReadPackets(i) == reader[i] = "read" /\ i \in open /\ ReaderGoto(i, "handle")

(* handlePacket has run for every packet.  A panic in a handler is          *)
(* recovered inside handlePacketFrom and looks the same from here.          *)
Handled(i) == reader[i] = "handle" /\ ReaderGoto(i, "read")

(* A panic of the batch loop itself is recovered in readLoopBatches; the    *)
(* reader starts over unless the server is closing.                         *)
BatchPanic(i) == reader[i] = "handle" /\ ReaderGoto(i, IF done THEN "ended" ELSE "read")

(* A mutant: the error of a closed socket is not recognised.                *)
ReadFailsSpins(i) == reader[i] = "read" /\ ReaderGoto(i, "read")

(* ReadBatch fails: a closed socket or a closing server ends the reader,    *)
(* any other error is passed over.                                          *)
ReadFails(i) ==
  /\ reader[i] = "read"
  /\ ReaderGoto(i, IF i \notin open \/ done THEN "ended" ELSE "read")

-----------------------------------------------------------------------------
(* The background loops *)

LoopGoto(l, where) ==
  /\ loop' = [loop EXCEPT ![l] = where]
  /\ UNCHANGED <<listen, conns, open, ready, done, reader, teardown>>

(* The select takes the ticker, or a job from the worker's queue.           *)
LoopWork(l) == loop[l] = "select" /\ LoopGoto(l, "work")

LoopWorked(l) == loop[l] = "work" /\ LoopGoto(l, "select")

(* A mutant: the panic of a tick or a job ends its goroutine.               *)
LoopPanicEnds(l) == loop[l] = "work" /\ LoopGoto(l, "ended")

(* The work panics.  safely recovers inside the tick; a relay worker        *)
(* unwinds to relayWorker, which starts over unless the server is closing.  *)
(* Only the stats loop has no recovery: its tick loads counters and logs.   *)
LoopPanic(l) ==
  /\ loop[l] = "work"
  /\ LoopGoto(l, IF l \in Worker /\ done THEN "ended" ELSE "select")

LoopDone(l) == loop[l] = "select" /\ done /\ LoopGoto(l, "ended")

LoopStep(l) == LoopWork(l) \/ LoopWorked(l) \/ LoopPanic(l) \/ LoopDone(l)

-----------------------------------------------------------------------------
(* Close *)

CloserGoto(c, l) == closer' = [closer EXCEPT ![c] = l]

(* The first caller enters closeOnce and closes done.                       *)
CloseFirst(c) ==
  /\ closer[c] = "idle" /\ once = "free"
  /\ c \in Waiters => ready
  /\ once' = "taken" /\ done' = TRUE
  /\ CloserGoto(c, "range")
  /\ UNCHANGED <<listen, conns, open, ready, goroutines, todo, seen>>

(* The range over s.conns reads its length once.                            *)
CloseRange(c) ==
  /\ closer[c] = "range"
  /\ \E n \in 0 .. conns :
       /\ c \in Waiters => n = conns
       /\ todo' = 1 .. n /\ seen' = 1 .. n
  /\ CloserGoto(c, "close")
  /\ UNCHANGED <<listen, conns, open, ready, done, goroutines, once>>

CloseSocket(c, i) ==
  /\ closer[c] = "close" /\ i \in todo /\ \A j \in todo : i <= j
  /\ open' = open \ {i} /\ todo' = todo \ {i}
  /\ UNCHANGED <<listen, conns, ready, done, goroutines, closer, once, seen>>

CloseEnd(c) ==
  /\ closer[c] = "close" /\ todo = {}
  /\ once' = "done"
  /\ CloserGoto(c, "returned")
  /\ UNCHANGED <<listen, conns, open, ready, done, goroutines, todo, seen>>

(* A mutant: whoever comes second returns at once.                          *)
CloseAgainAtOnce(c) ==
  /\ closer[c] = "idle" /\ once # "free"
  /\ CloserGoto(c, "returned")
  /\ UNCHANGED <<listen, conns, open, ready, done, goroutines, once, todo, seen>>

(* closeOnce.Do makes any other caller wait for the end of the teardown.    *)
CloseAgain(c) ==
  /\ closer[c] = "idle" /\ once = "done"
  /\ CloserGoto(c, "returned")
  /\ UNCHANGED <<listen, conns, open, ready, done, goroutines, once, todo, seen>>

ListenStep == Bind \/ BindFails \/ Publish \/ Spawn \/ Return

ReaderStep(i) == ReadPackets(i) \/ Handled(i) \/ BatchPanic(i) \/ ReadFails(i)

CloseStep(c) == CloseRange(c) \/ CloseEnd(c) \/ \E i \in Socket : CloseSocket(c, i)

Next ==
  \/ ListenStep
  \/ \E i \in Socket : ReaderStep(i)
  \/ \E l \in Loop : LoopStep(l)
  \/ \E c \in Closer : CloseFirst(c) \/ CloseStep(c) \/ CloseAgain(c)

(* Goroutines run on; ReadBatch on a closed socket fails at once; a handler *)
(* and the work of a loop end.  A select chooses evenly among what is       *)
(* ready, so one that meets done again and again takes it in the end.       *)
(* Nobody must call Close.                                                  *)
Fairness ==
  /\ WF_vars(ListenStep)
  /\ \A i \in Socket : WF_vars(Handled(i)) /\ WF_vars(i \notin open /\ ReadFails(i))
  /\ \A l \in Loop : WF_vars(LoopWorked(l)) /\ SF_vars(LoopDone(l))
  /\ \A c \in Closer : WF_vars(CloseStep(c))

Spec == Init /\ [][Next]_vars

FairSpec == Spec /\ Fairness

-----------------------------------------------------------------------------
(* Every goroutine is where its code can be, readyCh is closed with all     *)
(* sockets bound, and one caller at a time runs the teardown.               *)
TypeOK ==
  /\ listen \in {"bind", "failed", "spawn", "serve", "returned"}
  /\ conns \in 0 .. SocketCount
  /\ open \subseteq 1 .. conns
  /\ ready \in BOOLEAN /\ done \in BOOLEAN
  /\ ready <=> listen \in {"spawn", "serve", "returned"}
  /\ ready => conns = SocketCount
  /\ done <=> once # "free"
  /\ loop \in [Loop -> {"off", "select", "work", "ended"}]
  /\ reader \in [Socket -> {"off", "read", "handle", "ended"}]
  /\ closer \in [Closer -> {"idle", "range", "close", "returned"}]
  /\ once \in {"free", "taken", "done"}
  /\ todo \subseteq seen /\ seen \subseteq 1 .. conns
  /\ \A c, d \in Closer : {closer[c], closer[d]} \subseteq {"range", "close"} => c = d

(* "A panic on the receive path must not silently retire this socket's      *)
(* reader", a read error must not either, and "one bad tick cannot retire   *)
(* the ticker goroutine" or a bad job its worker: until somebody calls      *)
(* Close, every reader and loop that ListenAndServe started is running, and *)
(* no socket they use is closed.                                            *)
ServesUntilClosed ==
  ~ done /\ listen = "serve" =>
    /\ open = Socket
    /\ \A i \in Socket : reader[i] # "ended"
    /\ \A l \in Loop : loop[l] \in {"select", "work"}

(* When any call of Close returns, the sockets that the one teardown found  *)
(* are closed: a second caller never returns in the middle of it.           *)
CloseIsComplete == (\E c \in Closer : closer[c] = "returned") => seen \cap open = {}

(* A ListenAndServe that failed to bind holds no socket and has started no  *)
(* goroutine, whatever Close did meanwhile.                                 *)
FailureLeavesNothing ==
  listen = "failed" =>
    /\ open = {}
    /\ \A i \in Socket : reader[i] = "off"
    /\ \A l \in Loop : loop[l] = "off"

(* Close ends every loop, also one started later, and the readers of the    *)
(* sockets it found; after a teardown by a caller that waited for Ready()   *)
(* no socket is open and ListenAndServe returns.                            *)
CloseStops ==
  /\ \A l \in Loop : done /\ loop[l] # "off" ~> loop[l] = "ended"
  /\ \A i \in Socket : i \in seen /\ reader[i] # "off" ~> reader[i] = "ended"
  /\ \A c \in Waiters : closer[c] = "close" ~> open = {} /\ listen = "returned"
=============================================================================
