----------------------------- MODULE Admission ------------------------------
(***************************************************************************)
(* The limits in front of the two handlers that make the beacon send:      *)
(* handlePunchRequest asks a global stamp and a limiter per source IP,     *)
(* dispatchRelay a budget per relay source.  The readers run the handlers  *)
(* at the same time; the reaper sweeps the two limiters.                   *)
(*                                                                         *)
(* The global stamp is an atomic that is loaded and stored in separate     *)
(* steps, with the limiter's critical section in between, and what is      *)
(* stored is a time read before all of it.  The relay budget is also asked *)
(* with a time read before its lock.  A request that the breaker, the      *)
(* length check or the whitelist takes out of this path touches none of    *)
(* the state here.                                                         *)
(*                                                                         *)
(* Time is a discrete clock.  MaxLag bounds the ticks a reader may be      *)
(* suspended between reading the clock and using what it read.  bySource,  *)
(* byReader and before are history variables.                              *)
(***************************************************************************)
EXTENDS RateLimit

CONSTANTS Reader,         \* goroutines that run handlePacketFrom
          Source,         \* source IPs of punch requests
          RelaySource,    \* relay sources (relaySourceKey)
          PunchGap,       \* time.Second / maxPunchPerSecond
          PunchInterval,  \* punchPerSourceInterval
          PunchCleanup,   \* punchRateCleanupInterval
          Second,         \* length of a relay source's window
          MaxRelays,      \* maxRelaysPerSourcePerSecond
          RelayCleanup,   \* relaySourceCleanupInterval
          MaxLag, MaxClock

ASSUME AdmissionAssumption ==
  /\ PunchGap \in Nat /\ PunchInterval \in Nat /\ PunchCleanup \in Nat
  /\ Second \in Nat \ {0} /\ MaxRelays \in Nat \ {0} /\ RelayCleanup \in Nat
  /\ MaxLag \in Nat /\ MaxClock \in Nat
  \* 1 s against 5 min in the code, twice
  /\ PunchInterval <= PunchCleanup + 1 /\ Second + MaxLag <= RelayCleanup + 1

VARIABLES lastPunchTime,  \* Server.lastPunchTime
          punchRL,        \* Server.punchRL
          relayRL,        \* Server.relayRL
          task,           \* where each reader is in handlePunchRequest
          clock,
          bySource,       \* when the limiter last let a source through
          byReader,       \* the last stamp each reader stored
          before          \* relays of a source let through before a tick

vars == <<lastPunchTime, punchRL, relayRL, task, clock, bySource, byReader, before>>

Idle == [step |-> "idle"]

Punch == [step : {"load", "allow", "store"}, src : Source, now : Nat]

Time == 0 .. MaxClock + 1

Init ==
  /\ lastPunchTime = Never
  /\ punchRL = [s \in Source |-> Never]
  /\ relayRL = [s \in RelaySource |-> NoWindow]
  /\ task = [r \in Reader |-> Idle]
  /\ clock = 0
  /\ bySource = [s \in Source |-> Never]
  /\ byReader = [r \in Reader |-> Never]
  /\ before = [s \in RelaySource |-> [t \in Time |-> 0]]

-----------------------------------------------------------------------------
(* handlePunchRequest up to rateLimitBypass *)

Goto(r, l) == task' = [task EXCEPT ![r] = [@ EXCEPT !.step = l]]

Return(r) == task' = [task EXCEPT ![r] = Idle]

(* A request that no whitelist exempts: now := time.Now().                  *)
PunchNow(r, src) ==
  /\ task[r] = Idle
  /\ task' = [task EXCEPT ![r] = [step |-> "load", src |-> src, now |-> clock]]
  /\ UNCHANGED <<lastPunchTime, punchRL, relayRL, clock, bySource, byReader, before>>

(* The global cap: lastPunchTime.Load and the comparison.                   *)
PunchLoad(r) ==
  /\ task[r].step = "load"
  /\ IF IntervalAllows(lastPunchTime, task[r].now, PunchGap) THEN Goto(r, "allow") ELSE Return(r)
  /\ UNCHANGED <<lastPunchTime, punchRL, relayRL, clock, bySource, byReader, before>>

(* The cap per source: punchRL.allow reads the clock under its own lock.    *)
PunchAllow(r) ==
  LET src == task[r].src IN
  /\ task[r].step = "allow"
  /\ IF IntervalAllows(punchRL[src], clock, PunchInterval)
     THEN /\ punchRL' = [punchRL EXCEPT ![src] = clock]
          /\ bySource' = [bySource EXCEPT ![src] = clock]
          /\ Goto(r, "store")
     ELSE Return(r) /\ UNCHANGED <<punchRL, bySource>>
  /\ UNCHANGED <<lastPunchTime, relayRL, clock, byReader, before>>

(* A mutant: the stamp is not moved.                                        *)
PunchStoreNot(r) ==
  /\ task[r].step = "store"
  /\ byReader' = [byReader EXCEPT ![r] = task[r].now]
  /\ Return(r)
  /\ UNCHANGED <<lastPunchTime, punchRL, relayRL, clock, bySource, before>>

(* lastPunchTime.Store(now): the request is admitted.  A late store can     *)
(* move the stamp back.                                                     *)
PunchStore(r) ==
  /\ task[r].step = "store"
  /\ lastPunchTime' = task[r].now
  /\ byReader' = [byReader EXCEPT ![r] = task[r].now]
  /\ Return(r)
  /\ UNCHANGED <<punchRL, relayRL, clock, bySource, before>>

PunchStep(r) ==
  \/ \E src \in Source : PunchNow(r, src)
  \/ PunchLoad(r) \/ PunchAllow(r) \/ PunchStore(r)

-----------------------------------------------------------------------------
(* dispatchRelay's budget: relayRL.allow lets a relay of src through.  The  *)
(* reader took now before allow took its lock, so readers may come in       *)
(* another order than their times; a relay that is refused changes nothing. *)
RelayAllow(src, now) ==
  /\ clock - now <= MaxLag
  /\ WindowAllows(relayRL[src], now, Second, MaxRelays)
  /\ relayRL' = [relayRL EXCEPT ![src] = WindowAfter(@, now, Second)]
  /\ before' = [before EXCEPT ![src] =
                  [t \in Time |-> IF t > clock THEN @[t] + 1 ELSE @[t]]]
  /\ UNCHANGED <<lastPunchTime, punchRL, task, clock, bySource, byReader>>

(* A mutant: the punch limiter forgets stamps that still count.             *)
SweepLimitersEarly ==
  /\ punchRL' = SweepInterval(punchRL, clock)
  /\ relayRL' = SweepWindows(relayRL, clock - RelayCleanup)
  /\ UNCHANGED <<lastPunchTime, task, clock, bySource, byReader, before>>

(* The sweeps of reapStaleNodes.  Nobody uses both maps, so the order of    *)
(* the two and of their shards does not show.  Nor does a cutoff that has   *)
(* aged: entries made since it was taken are younger.                       *)
SweepLimiters ==
  /\ punchRL' = SweepInterval(punchRL, clock - PunchCleanup)
  /\ relayRL' = SweepWindows(relayRL, clock - RelayCleanup)
  /\ UNCHANGED <<lastPunchTime, task, clock, bySource, byReader, before>>

Tick ==
  /\ clock < MaxClock
  /\ \A r \in Reader : task[r] # Idle => clock - task[r].now < MaxLag
  /\ clock' = clock + 1
  /\ UNCHANGED <<lastPunchTime, punchRL, relayRL, task, bySource, byReader, before>>

Next ==
  \/ \E r \in Reader : PunchStep(r)
  \/ \E src \in RelaySource, now \in 0 .. clock : RelayAllow(src, now)
  \/ SweepLimiters
  \/ Tick

Spec == Init /\ [][Next]_vars

-----------------------------------------------------------------------------
(* Limiters, readers and history hold what the Go types and the control     *)
(* flow allow; in particular no window counts more than its budget.         *)
TypeOK ==
  /\ lastPunchTime \in Nat \cup {Never}
  /\ punchRL \in [Source -> Nat \cup {Never}]
  /\ relayRL \in [RelaySource -> Window(MaxRelays) \cup {NoWindow}]
  /\ task \in [Reader -> {Idle} \cup Punch]
  /\ clock \in 0 .. MaxClock
  /\ bySource \in [Source -> Nat \cup {Never}]
  /\ byReader \in [Reader -> Nat \cup {Never}]
  /\ before \in [RelaySource -> [Time -> Nat]]

(* punchRL.allow lets two punch requests of one source through only         *)
(* PunchInterval apart, on whichever readers they run, in the same tick or  *)
(* later, and however the reaper's sweep falls in between.                  *)
Admits(r) == task[r].step = "allow" /\ task'[r].step = "store"

SourceSpacing ==
  [][\A r \in Reader : Admits(r) =>
       IntervalAllows(bySource[task[r].src], clock, PunchInterval)]_vars

(* What the load and the late store leave of the global cap: the requests   *)
(* one reader admits are PunchGap - MaxLag apart, although other readers    *)
(* may pass the same load and may move lastPunchTime back.  So the readers  *)
(* together admit at most one request each in such a time.                  *)
ReaderSpacing ==
  [][\A r \in Reader : task[r] # Idle /\ task[r].step = "store" /\ task'[r] = Idle =>
       IntervalAllows(byReader[r], task[r].now, PunchGap - MaxLag)]_vars

(* In any time of one window's length, less the lag of the readers, relayRL *)
(* lets fewer than twice the budget of a source through, wherever its       *)
(* windows begin and whatever the reaper forgets: the tail of one window    *)
(* and the head of the next.                                                *)
RelayBudget ==
  \A s \in RelaySource : \A t, u \in Time :
    t <= u /\ u <= t + Second - MaxLag => before[s][u] - before[s][t] < 2 * MaxRelays
=============================================================================
