-------------------------- MODULE Admission_proofs --------------------------
(***************************************************************************)
(* Proofs about Admission, for any readers, sources, intervals and budget. *)
(* The limiters are independent of each other, so each property has an     *)
(* inductive invariant of its own beside the type invariant.               *)
(***************************************************************************)
EXTENDS Admission, TLAPS

(* One relay source at clock c: b counts what was let through before each   *)
(* tick and w is its window, with b[c + 1] - w.count relays before it.  The *)
(* window's first relay is at most MaxLag after its start; of the relays    *)
(* before it, and of all when there is no window, less than a budget lies   *)
(* within reach.                                                            *)
WindowInv(b, w, c) ==
  /\ \A t, u \in Time : t <= u => b[t] <= b[u]
  /\ \A u \in Time : u > c => b[u] = b[c + 1]
  /\ \A t, u \in Time : t <= u /\ u <= t + Second - MaxLag => b[u] - b[t] < 2 * MaxRelays
  /\ w = NoWindow => \A t \in Time : t > c - Second => b[c + 1] - b[t] < MaxRelays
  /\ w # NoWindow =>
       /\ w.windowStart <= c
       /\ \A t \in Time : t > w.windowStart + MaxLag => b[t] > b[c + 1] - w.count
       /\ \A t \in Time : t > w.windowStart - (Second - MaxLag) =>
            (b[c + 1] - w.count) - b[t] < MaxRelays

LEMMA WindowTypes ==
  /\ \A w \in Window(MaxRelays) :
       w # NoWindow /\ w.windowStart \in Nat /\ w.count \in Nat /\ w.count >= 1 /\ w.count <= MaxRelays
  /\ NoWindow \notin Window(MaxRelays)
BY AdmissionAssumption, SMT DEF Window, NoWindow, Never

(* Whichever way a source has come to the end of its window, less than a    *)
(* budget lies within reach of the next one.                                *)
LEMMA OverLeaves ==
  ASSUME NEW b \in [Time -> Nat], NEW w \in Window(MaxRelays) \cup {NoWindow},
         NEW c \in 0 .. MaxClock, NEW n \in Nat, c - n <= MaxLag,
         WindowInv(b, w, c), WindowOver(w, n, Second),
         NEW t \in Time, t > n - (Second - MaxLag)
  PROVE  b[c + 1] - b[t] < MaxRelays
<1>0. Second \in Nat /\ MaxLag \in Nat /\ MaxRelays \in Nat /\ MaxClock \in Nat /\ c \in Nat
  BY AdmissionAssumption
<1>1. t \in Nat /\ c + 1 \in Time
  BY <1>0 DEF Time
<1>2. b[t] \in Nat /\ b[c + 1] \in Nat
  BY <1>1, Zenon
<1>3. CASE w = NoWindow
  <2>1. t > c - Second
    BY <1>0, <1>1
  <2> QED
    BY <1>3, <2>1, Zenon DEF WindowInv
<1>4. CASE w # NoWindow
  <2>1. w.windowStart \in Nat /\ w.count \in Nat /\ w.count <= MaxRelays
    BY <1>4, WindowTypes
  <2>2. t > w.windowStart + MaxLag
    BY <1>0, <1>1, <1>4, <2>1 DEF WindowOver
  <2>3. b[t] > b[c + 1] - w.count
    BY <1>4, <2>2, Zenon DEF WindowInv
  <2> QED
    BY <1>0, <1>2, <2>1, <2>3
<1> QED
  BY <1>3, <1>4

(* What RelayAllow makes of the counts.                                     *)
Passed(b, c) == [t \in Time |-> IF t > c THEN b[t] + 1 ELSE b[t]]

LEMMA PassedFacts ==
  ASSUME NEW b \in [Time -> Nat], NEW c \in 0 .. MaxClock
  PROVE  /\ Passed(b, c) \in [Time -> Nat]
         /\ c \in Time /\ c + 1 \in Time /\ c \in Nat
         /\ \A t \in Time : t \in Nat /\ b[t] \in Nat
         /\ \A t \in Time : t > c => Passed(b, c)[t] = b[t] + 1
         /\ \A t \in Time : t <= c => Passed(b, c)[t] = b[t]
<1>1. MaxClock \in Nat
  BY AdmissionAssumption
<1> QED
  BY <1>1 DEF Passed, Time

(* The first three parts of the invariant survive a relay if at most 2 *    *)
(* MaxRelays - 2 relays lie within reach of the present tick.               *)
LEMMA PassedBudget ==
  ASSUME NEW b \in [Time -> Nat], NEW w, NEW c \in 0 .. MaxClock, WindowInv(b, w, c),
         \A t \in Time : t > c - (Second - MaxLag) => b[c + 1] - b[t] < 2 * MaxRelays - 1
  PROVE  LET d == Passed(b, c) IN
         /\ \A t, u \in Time : t <= u => d[t] <= d[u]
         /\ \A u \in Time : u > c => d[u] = d[c + 1]
         /\ \A t, u \in Time : t <= u /\ u <= t + Second - MaxLag => d[u] - d[t] < 2 * MaxRelays
<1> DEFINE d == Passed(b, c)
<1>0. Second \in Nat /\ MaxRelays \in Nat /\ MaxLag \in Nat
  BY AdmissionAssumption
<1>1. /\ c \in Time /\ c + 1 \in Time /\ c \in Nat
      /\ \A t \in Time : t \in Nat /\ b[t] \in Nat
      /\ \A t \in Time : t > c => d[t] = b[t] + 1
      /\ \A t \in Time : t <= c => d[t] = b[t]
  BY PassedFacts
<1> HIDE DEF d
<1>2. /\ \A t, u \in Time : t <= u => b[t] <= b[u]
      /\ \A u \in Time : u > c => b[u] = b[c + 1]
      /\ \A t, u \in Time : t <= u /\ u <= t + Second - MaxLag => b[u] - b[t] < 2 * MaxRelays
  BY DEF WindowInv
<1>3. ASSUME NEW t \in Time, NEW u \in Time, t <= u
      PROVE  d[t] <= d[u]
  BY <1>1, <1>2, <1>3
<1>4. ASSUME NEW u \in Time, u > c
      PROVE  d[u] = d[c + 1]
  BY <1>1, <1>2, <1>4
<1>5. ASSUME NEW t \in Time, NEW u \in Time, t <= u, u <= t + Second - MaxLag
      PROVE  d[u] - d[t] < 2 * MaxRelays
  <2>1. b[u] - b[t] < 2 * MaxRelays
    BY <1>2, <1>5
  <2>2. CASE u <= c
    BY <1>1, <1>5, <2>1, <2>2
  <2>3. CASE t > c
    BY <1>1, <1>5, <2>1, <2>3
  <2>4. CASE u > c /\ t <= c
    <3>1. b[u] = b[c + 1] /\ t > c - (Second - MaxLag)
      BY <1>0, <1>1, <1>2, <1>5, <2>4
    <3>2. b[u] - b[t] < 2 * MaxRelays - 1
      BY <3>1
    <3>3. d[u] = b[u] + 1 /\ d[t] = b[t]
      BY <1>1, <2>4
    <3> QED
      BY <1>0, <1>1, <3>2, <3>3
  <2> QED
    BY <1>1, <2>2, <2>3, <2>4
<1> QED
  BY <1>3, <1>4, <1>5 DEF d

(* A relay that starts a new window, with a time n read a while ago.        *)
LEMMA NewWindow ==
  ASSUME NEW b \in [Time -> Nat], NEW w \in Window(MaxRelays) \cup {NoWindow},
         NEW c \in 0 .. MaxClock, NEW n \in 0 .. c, c - n <= MaxLag,
         WindowInv(b, w, c), WindowOver(w, n, Second)
  PROVE  WindowInv(Passed(b, c), [windowStart |-> n, count |-> 1], c)
<1> DEFINE d == Passed(b, c)
           v == [windowStart |-> n, count |-> 1]
<1>0. /\ Second \in Nat /\ MaxRelays \in Nat /\ MaxRelays >= 1 /\ MaxLag \in Nat
      /\ n \in Nat /\ n <= c
  BY AdmissionAssumption
<1>1. /\ c \in Time /\ c + 1 \in Time /\ c \in Nat
      /\ \A t \in Time : t \in Nat /\ b[t] \in Nat
      /\ \A t \in Time : t > c => d[t] = b[t] + 1
      /\ \A t \in Time : t <= c => d[t] = b[t]
  BY PassedFacts
<1>2. \A t \in Time : t > n - (Second - MaxLag) => b[c + 1] - b[t] < MaxRelays
  BY <1>0, OverLeaves, Zenon
<1>3. \A t \in Time : t > c - (Second - MaxLag) => b[c + 1] - b[t] < 2 * MaxRelays - 1
  BY <1>0, <1>1, <1>2
<1>4. /\ \A t, u \in Time : t <= u => d[t] <= d[u]
      /\ \A u \in Time : u > c => d[u] = d[c + 1]
      /\ \A t, u \in Time : t <= u /\ u <= t + Second - MaxLag => d[u] - d[t] < 2 * MaxRelays
  BY <1>3, PassedBudget
<1> HIDE DEF d
<1>5. v # NoWindow /\ v.windowStart = n /\ v.count = 1
  BY <1>0 DEF NoWindow, Never
<1>6. d[c + 1] - 1 = b[c + 1]
  BY <1>1
<1>7. \A t \in Time : t > n + MaxLag => d[t] > d[c + 1] - 1
  BY <1>0, <1>1, <1>4
<1>8. \A t \in Time : t > n - (Second - MaxLag) => (d[c + 1] - 1) - d[t] < MaxRelays
  <2>1. \A t \in Time : d[t] \in Nat /\ d[t] >= b[t]
    BY <1>1
  <2> QED
    BY <1>0, <1>1, <1>2, <1>6, <2>1
<1> HIDE DEF v
<1>9. WindowInv(d, v, c)
  BY <1>0, <1>4, <1>5, <1>7, <1>8 DEF WindowInv
<1> QED
  BY <1>9 DEF d, v

(* A relay within the window.                                               *)
LEMMA SameWindow ==
  ASSUME NEW b \in [Time -> Nat], NEW w \in Window(MaxRelays), NEW c \in 0 .. MaxClock,
         WindowInv(b, w, c), w.count < MaxRelays
  PROVE  WindowInv(Passed(b, c), [w EXCEPT !.count = @ + 1], c)
<1> DEFINE d == Passed(b, c)
           s == w.windowStart
           k == w.count
           v == [w EXCEPT !.count = @ + 1]
<1>0. Second \in Nat /\ MaxRelays \in Nat /\ MaxRelays >= 1 /\ MaxLag \in Nat
  BY AdmissionAssumption
<1>1. /\ c \in Time /\ c + 1 \in Time /\ c \in Nat
      /\ \A t \in Time : t \in Nat /\ b[t] \in Nat
      /\ \A t \in Time : t > c => d[t] = b[t] + 1
      /\ \A t \in Time : t <= c => d[t] = b[t]
  BY PassedFacts
<1>2. w # NoWindow /\ s \in Nat /\ k \in Nat
  BY WindowTypes
<1>3. /\ s <= c
      /\ \A t \in Time : t > s + MaxLag => b[t] > b[c + 1] - k
      /\ \A t \in Time : t > s - (Second - MaxLag) => (b[c + 1] - k) - b[t] < MaxRelays
  BY <1>2 DEF WindowInv
<1>4. v # NoWindow /\ v.windowStart = s /\ v.count = k + 1
  BY <1>2, SMT DEF NoWindow, Never, Window
<1>5. k < MaxRelays
  OBVIOUS
<1> HIDE DEF d, s, k, v
<1>6. ASSUME NEW t \in Time, t > c - (Second - MaxLag)
      PROVE  b[c + 1] - b[t] < 2 * MaxRelays - 1
  <2>1. t \in Nat /\ b[t] \in Nat /\ b[c + 1] \in Nat
    BY <1>1
  <2>2. t > s - (Second - MaxLag)
    BY <1>0, <1>1, <1>2, <1>3, <1>6, <2>1
  <2>3. (b[c + 1] - k) - b[t] < MaxRelays
    BY <1>3, <2>2
  <2> QED
    BY <1>0, <1>2, <1>5, <2>1, <2>3
<1>7. /\ \A t, u \in Time : t <= u => d[t] <= d[u]
      /\ \A u \in Time : u > c => d[u] = d[c + 1]
      /\ \A t, u \in Time : t <= u /\ u <= t + Second - MaxLag => d[u] - d[t] < 2 * MaxRelays
  BY <1>6, PassedBudget DEF d
<1>8. /\ d[c + 1] - (k + 1) = b[c + 1] - k
      /\ \A t \in Time : d[t] \in Nat /\ d[t] >= b[t]
  BY <1>1, <1>2
<1>9. \A t \in Time : t > s + MaxLag => d[t] > d[c + 1] - (k + 1)
  BY <1>1, <1>2, <1>3, <1>8
<1>10. \A t \in Time : t > s - (Second - MaxLag) => (d[c + 1] - (k + 1)) - d[t] < MaxRelays
  BY <1>0, <1>1, <1>2, <1>3, <1>8
<1>11. WindowInv(d, v, c)
  BY <1>3, <1>4, <1>7, <1>9, <1>10 DEF WindowInv
<1> QED
  BY <1>11 DEF d, v

LEMMA AllowKeeps ==
  ASSUME NEW b \in [Time -> Nat], NEW w \in Window(MaxRelays) \cup {NoWindow},
         NEW c \in 0 .. MaxClock, NEW n \in 0 .. c, c - n <= MaxLag,
         WindowInv(b, w, c), WindowAllows(w, n, Second, MaxRelays)
  PROVE  WindowInv(Passed(b, c), WindowAfter(w, n, Second), c)
<1>1. CASE WindowOver(w, n, Second)
  BY <1>1, NewWindow DEF WindowAfter
<1>2. CASE ~WindowOver(w, n, Second)
  <2>1. w \in Window(MaxRelays) /\ w.count < MaxRelays
    BY <1>2 DEF WindowOver, WindowAllows
  <2> QED
    BY <1>2, <2>1, SameWindow DEF WindowAfter
<1> QED
  BY <1>1, <1>2

(* A window that the sweep forgets is over for every time still in use.     *)
LEMMA SweepKeeps ==
  ASSUME NEW b \in [Time -> Nat], NEW w \in Window(MaxRelays) \cup {NoWindow},
         NEW c \in 0 .. MaxClock, WindowInv(b, w, c), w.windowStart < c - RelayCleanup
  PROVE  WindowInv(b, NoWindow, c)
<1>0. /\ Second \in Nat /\ RelayCleanup \in Nat /\ MaxLag \in Nat /\ MaxRelays \in Nat
      /\ Second + MaxLag <= RelayCleanup + 1 /\ c \in Nat /\ MaxClock \in Nat
  BY AdmissionAssumption
<1>1. CASE w # NoWindow
  <2>1. w.windowStart \in Nat /\ w.count \in Nat /\ w.count <= MaxRelays
    BY <1>1, WindowTypes
  <2>2. \A t \in Time : t > w.windowStart + MaxLag => b[t] > b[c + 1] - w.count
    BY <1>1 DEF WindowInv
  <2>3. ASSUME NEW t \in Time, t > c - Second PROVE b[c + 1] - b[t] < MaxRelays
    <3>1. t \in Nat /\ c + 1 \in Time
      BY <1>0 DEF Time
    <3>2. b[t] \in Nat /\ b[c + 1] \in Nat
      BY <3>1, Zenon
    <3>3. t > w.windowStart + MaxLag
      BY <1>0, <2>1, <2>3, <3>1
    <3>4. b[t] > b[c + 1] - w.count
      BY <2>2, <3>3, Zenon
    <3> QED
      BY <1>0, <2>1, <3>2, <3>4
  <2> QED
    BY <2>3 DEF WindowInv
<1> QED
  BY <1>1

LEMMA TickKeeps ==
  ASSUME NEW b \in [Time -> Nat], NEW w \in Window(MaxRelays) \cup {NoWindow},
         NEW c \in 0 .. MaxClock, c < MaxClock, WindowInv(b, w, c)
  PROVE  WindowInv(b, w, c + 1)
<1>0. Second \in Nat /\ MaxRelays \in Nat /\ c \in Nat /\ MaxClock \in Nat
  BY AdmissionAssumption
<1>1. c + 1 \in Time /\ c + 2 \in Time /\ (c + 1) + 1 = c + 2
  BY <1>0 DEF Time
<1>2. \A t \in Time : t \in Nat /\ b[t] \in Nat
  BY <1>0 DEF Time
<1>3. \A u \in Time : u > c => b[u] = b[c + 1]
  BY DEF WindowInv
<1>4. b[c + 2] = b[c + 1]
  BY <1>0, <1>1, <1>3
<1>5. CASE w = NoWindow
  <2>1. \A t \in Time : t > (c + 1) - Second => b[c + 2] - b[t] < MaxRelays
    BY <1>0, <1>2, <1>4, <1>5 DEF WindowInv
  <2> QED
    BY <1>0, <1>1, <1>2, <1>3, <1>4, <1>5, <2>1 DEF WindowInv
<1>6. CASE w \in Window(MaxRelays)
  <2>1. w # NoWindow /\ w.windowStart \in Nat /\ w.count \in Nat
    BY <1>6, WindowTypes
  <2>2. w.windowStart <= c + 1
    BY <1>0, <2>1 DEF WindowInv
  <2> QED
    BY <1>0, <1>1, <1>2, <1>3, <1>4, <2>1, <2>2 DEF WindowInv
<1> QED
  BY <1>5, <1>6

-----------------------------------------------------------------------------
LEMMA AfterTypes ==
  ASSUME NEW w \in Window(MaxRelays) \cup {NoWindow}, NEW n \in Nat,
         WindowAllows(w, n, Second, MaxRelays)
  PROVE  WindowAfter(w, n, Second) \in Window(MaxRelays)
<1>0. MaxRelays \in Nat /\ MaxRelays >= 1
  BY AdmissionAssumption
<1>1. CASE WindowOver(w, n, Second)
  BY <1>0, <1>1 DEF WindowAfter, Window
<1>2. CASE ~WindowOver(w, n, Second)
  <2>1. w \in Window(MaxRelays) /\ w.count < MaxRelays
    BY <1>2 DEF WindowOver, WindowAllows
  <2>2. [w EXCEPT !.count = @ + 1] \in Window(MaxRelays)
    BY <1>0, <2>1 DEF Window
  <2> QED
    BY <1>2, <2>2 DEF WindowAfter
<1> QED
  BY <1>1, <1>2

(* A reader inside handlePunchRequest.                                      *)
LEMMA Busy ==
  ASSUME TypeOK, NEW r \in Reader
  PROVE  /\ task[r].step \in {"load", "allow", "store"} <=> task[r] # Idle
         /\ task[r] # Idle => task[r] \in Punch /\ task[r].src \in Source /\ task[r].now \in Nat
<1>1. task[r] \in {Idle} \cup Punch
  BY DEF TypeOK
<1>2. CASE task[r] = Idle
  BY <1>2 DEF Idle
<1>3. CASE task[r] \in Punch
  <2>1. task[r].step \in {"load", "allow", "store"} /\ task[r].src \in Source /\ task[r].now \in Nat
    BY <1>3 DEF Punch
  <2>2. task[r] # Idle
    BY <2>1 DEF Idle
  <2> QED
    BY <1>3, <2>1, <2>2
<1> QED
  BY <1>1, <1>2, <1>3

LEMMA TypeStep == TypeOK /\ [Next]_vars => TypeOK'
<1> SUFFICES ASSUME TypeOK, [Next]_vars PROVE TypeOK'
  OBVIOUS
<1>0. clock \in Nat /\ MaxClock \in Nat
  BY AdmissionAssumption DEF TypeOK
<1>1. ASSUME NEW r \in Reader, NEW src \in Source, PunchNow(r, src) PROVE TypeOK'
  <2>1. [step |-> "load", src |-> src, now |-> clock] \in Punch
    BY <1>0 DEF Punch
  <2> QED
    BY <1>1, <2>1 DEF TypeOK, PunchNow
<1>2. ASSUME NEW r \in Reader, NEW l \in {"allow", "store"}, task[r] # Idle, Goto(r, l)
      PROVE  task' \in [Reader -> {Idle} \cup Punch]
  <2>1. task[r] \in Punch
    BY <1>2, Busy
  <2>2. [task[r] EXCEPT !.step = l] \in Punch
    BY <2>1 DEF Punch
  <2> QED
    BY <1>2, <2>2 DEF TypeOK, Goto
<1>3. ASSUME NEW r \in Reader, Return(r)
      PROVE  task' \in [Reader -> {Idle} \cup Punch]
  BY <1>3 DEF TypeOK, Return
<1>4. ASSUME NEW r \in Reader, PunchLoad(r) PROVE TypeOK'
  <2>1. task' \in [Reader -> {Idle} \cup Punch]
    BY <1>2, <1>3, <1>4, Busy DEF PunchLoad
  <2> QED
    BY <1>4, <2>1 DEF TypeOK, PunchLoad
<1>5. ASSUME NEW r \in Reader, PunchAllow(r) PROVE TypeOK'
  <2>1. task' \in [Reader -> {Idle} \cup Punch]
    BY <1>2, <1>3, <1>5, Busy DEF PunchAllow
  <2>2. punchRL' \in [Source -> Nat \cup {Never}]
    BY <1>0, <1>5 DEF TypeOK, PunchAllow
  <2>3. bySource' \in [Source -> Nat \cup {Never}]
    BY <1>0, <1>5 DEF TypeOK, PunchAllow
  <2> QED
    BY <1>5, <2>1, <2>2, <2>3 DEF TypeOK, PunchAllow
<1>6. ASSUME NEW r \in Reader, PunchStore(r) PROVE TypeOK'
  <2>1. task[r].now \in Nat
    BY <1>6, Busy DEF PunchStore
  <2>2. task' \in [Reader -> {Idle} \cup Punch]
    BY <1>3, <1>6 DEF PunchStore
  <2> QED
    BY <1>6, <2>1, <2>2, Zenon DEF TypeOK, PunchStore
<1>7. ASSUME NEW src \in RelaySource, NEW now \in 0 .. clock, RelayAllow(src, now) PROVE TypeOK'
  <2>1. WindowAfter(relayRL[src], now, Second) \in Window(MaxRelays)
    BY <1>7, AfterTypes DEF TypeOK, RelayAllow
  <2>2. before[src] \in [Time -> Nat]
    BY DEF TypeOK
  <2>3. [t \in Time |-> IF t > clock THEN before[src][t] + 1 ELSE before[src][t]] \in [Time -> Nat]
    BY <2>2
  <2> QED
    BY <1>7, <2>1, <2>3 DEF TypeOK, RelayAllow
<1>8. CASE SweepLimiters
  <2>1. punchRL' \in [Source -> Nat \cup {Never}]
    BY <1>8 DEF TypeOK, SweepLimiters, SweepInterval
  <2>2. relayRL' \in [RelaySource -> Window(MaxRelays) \cup {NoWindow}]
    BY <1>8 DEF TypeOK, SweepLimiters, SweepWindows
  <2> QED
    BY <1>8, <2>1, <2>2 DEF TypeOK, SweepLimiters
<1>9. CASE Tick
  BY <1>0, <1>9 DEF TypeOK, Tick
<1>10. CASE UNCHANGED vars
  BY <1>10 DEF TypeOK, vars
<1> QED
  BY <1>1, <1>4, <1>5, <1>6, <1>7, <1>8, <1>9, <1>10 DEF Next, PunchStep

-----------------------------------------------------------------------------
RelayInv == \A s \in RelaySource : WindowInv(before[s], relayRL[s], clock)

(* The limiter remembers the last request it let through until it is old.   *)
SourceInv ==
  \A s \in Source : bySource[s] # Never =>
    /\ bySource[s] <= clock
    /\ \/ punchRL[s] = bySource[s]
       \/ punchRL[s] = Never /\ clock - bySource[s] >= PunchInterval

(* No stored stamp is more than MaxLag behind the last request of a reader, *)
(* and a reader that passed the load is PunchGap behind the stamp it read.  *)
ReaderInv ==
  \A r \in Reader :
    /\ task[r] # Idle => task[r].now <= clock /\ clock <= task[r].now + MaxLag
    /\ byReader[r] # Never =>
         /\ byReader[r] <= clock
         /\ lastPunchTime # Never
         /\ lastPunchTime >= byReader[r] - MaxLag
    /\ task[r].step \in {"allow", "store"} /\ byReader[r] # Never =>
         task[r].now - byReader[r] >= PunchGap - MaxLag

LEMMA RelayStep == TypeOK /\ RelayInv /\ [Next]_vars => RelayInv'
<1> SUFFICES ASSUME TypeOK, RelayInv, [Next]_vars, NEW s \in RelaySource
             PROVE  WindowInv(before'[s], relayRL'[s], clock')
  BY DEF RelayInv
<1>0. /\ before[s] \in [Time -> Nat] /\ clock \in 0 .. MaxClock
      /\ relayRL[s] \in Window(MaxRelays) \cup {NoWindow}
      /\ WindowInv(before[s], relayRL[s], clock)
  BY DEF TypeOK, RelayInv
<1>1. ASSUME NEW src \in RelaySource, NEW now \in 0 .. clock, RelayAllow(src, now)
      PROVE  WindowInv(before'[s], relayRL'[s], clock')
  <2>1. CASE s = src
    <3>1. before'[s] = Passed(before[s], clock)
      BY <1>1, <2>1 DEF TypeOK, RelayAllow, Passed
    <3>2. relayRL'[s] = WindowAfter(relayRL[s], now, Second) /\ clock' = clock
      BY <1>1, <2>1 DEF TypeOK, RelayAllow
    <3>3. WindowAllows(relayRL[s], now, Second, MaxRelays) /\ clock - now <= MaxLag
      BY <1>1, <2>1 DEF RelayAllow
    <3> QED
      BY <1>0, <1>1, <3>1, <3>2, <3>3, AllowKeeps
  <2>2. CASE s # src
    <3>1. before'[s] = before[s] /\ relayRL'[s] = relayRL[s] /\ clock' = clock
      BY <1>1, <2>2 DEF TypeOK, RelayAllow
    <3> QED
      BY <1>0, <3>1
  <2> QED
    BY <2>1, <2>2
<1>2. CASE SweepLimiters
  <2>0. before' = before /\ clock' = clock
    BY <1>2 DEF SweepLimiters
  <2>1. relayRL'[s] = IF relayRL[s].windowStart < clock - RelayCleanup THEN NoWindow ELSE relayRL[s]
    BY <1>2 DEF TypeOK, SweepLimiters, SweepWindows
  <2>2. CASE relayRL[s].windowStart < clock - RelayCleanup
    BY <1>0, <2>0, <2>1, <2>2, SweepKeeps
  <2>3. CASE ~(relayRL[s].windowStart < clock - RelayCleanup)
    BY <1>0, <2>0, <2>1, <2>3
  <2> QED
    BY <2>2, <2>3
<1>3. CASE Tick
  <2>1. before' = before /\ relayRL' = relayRL /\ clock' = clock + 1 /\ clock < MaxClock
    BY <1>3 DEF Tick
  <2> QED
    BY <1>0, <2>1, TickKeeps
<1>4. CASE UNCHANGED <<before, relayRL, clock>>
  BY <1>0, <1>4
<1>5. ASSUME NEW r \in Reader, PunchStep(r)
      PROVE  UNCHANGED <<before, relayRL, clock>>
  BY <1>5 DEF PunchStep, PunchNow, PunchLoad, PunchAllow, PunchStore
<1> QED
  BY <1>1, <1>2, <1>3, <1>4, <1>5 DEF Next, vars

LEMMA SourceStep == TypeOK /\ SourceInv /\ [Next]_vars => SourceInv'
<1> SUFFICES ASSUME TypeOK, SourceInv, [Next]_vars, NEW s \in Source, bySource'[s] # Never
             PROVE  /\ bySource'[s] <= clock'
                    /\ \/ punchRL'[s] = bySource'[s]
                       \/ punchRL'[s] = Never /\ clock' - bySource'[s] >= PunchInterval
  BY DEF SourceInv
<1>0. /\ clock \in Nat /\ bySource[s] \in Nat \cup {Never} /\ punchRL[s] \in Nat \cup {Never}
      /\ PunchInterval \in Nat /\ PunchCleanup \in Nat /\ PunchInterval <= PunchCleanup + 1
  BY AdmissionAssumption DEF TypeOK
<1>1. bySource[s] # Never =>
        /\ bySource[s] <= clock
        /\ \/ punchRL[s] = bySource[s]
           \/ punchRL[s] = Never /\ clock - bySource[s] >= PunchInterval
  BY DEF SourceInv
<1>2. CASE UNCHANGED <<punchRL, bySource, clock>>
  BY <1>1, <1>2
<1>3. ASSUME NEW r \in Reader, PunchAllow(r), ~UNCHANGED <<punchRL, bySource>>
      PROVE  \/ punchRL'[s] = clock /\ bySource'[s] = clock /\ clock' = clock
             \/ UNCHANGED <<punchRL[s], bySource[s], clock>>
  BY <1>3 DEF TypeOK, PunchAllow
<1>4. ASSUME NEW r \in Reader, PunchStep(r)
      PROVE  \/ UNCHANGED <<punchRL, bySource, clock>>
             \/ PunchAllow(r) /\ ~UNCHANGED <<punchRL, bySource>>
  BY <1>4 DEF PunchStep, PunchNow, PunchLoad, PunchAllow, PunchStore
<1>5. CASE \E r \in Reader : PunchStep(r)
  BY <1>0, <1>1, <1>2, <1>3, <1>4, <1>5
<1>6. CASE SweepLimiters
  <2>1. /\ punchRL'[s] = IF punchRL[s] < clock - PunchCleanup THEN Never ELSE punchRL[s]
        /\ bySource' = bySource /\ clock' = clock
    BY <1>6 DEF TypeOK, SweepLimiters, SweepInterval
  <2> QED
    BY <1>0, <1>1, <2>1 DEF Never
<1>7. CASE Tick
  <2>1. punchRL' = punchRL /\ bySource' = bySource /\ clock' = clock + 1
    BY <1>7 DEF Tick
  <2> QED
    BY <1>0, <1>1, <2>1 DEF Never
<1>8. ASSUME NEW src \in RelaySource, NEW now \in 0 .. clock, RelayAllow(src, now)
      PROVE  UNCHANGED <<punchRL, bySource, clock>>
  BY <1>8 DEF RelayAllow
<1> QED
  BY <1>2, <1>5, <1>6, <1>7, <1>8 DEF Next, vars

LEMMA ReaderStep == TypeOK /\ ReaderInv /\ [Next]_vars => ReaderInv'
<1> DEFINE Lag(q, t, c) == t[q] # Idle => t[q].now <= c /\ c <= t[q].now + MaxLag
           Last(q, l, by, c) == by[q] # Never => by[q] <= c /\ l # Never /\ l >= by[q] - MaxLag
           Gap(q, t, by) == t[q].step \in {"allow", "store"} /\ by[q] # Never =>
                              t[q].now - by[q] >= PunchGap - MaxLag
<1> SUFFICES ASSUME TypeOK, ReaderInv, [Next]_vars, NEW q \in Reader
             PROVE  Lag(q, task', clock') /\ Last(q, lastPunchTime', byReader', clock')
                      /\ Gap(q, task', byReader')
  BY DEF ReaderInv
<1>0. clock \in Nat /\ MaxLag \in Nat /\ PunchGap \in Nat
  BY AdmissionAssumption DEF TypeOK
<1>1. \A r \in Reader : byReader[r] \in Nat \cup {Never}
  BY DEF TypeOK
<1>2. Lag(q, task, clock) /\ Last(q, lastPunchTime, byReader, clock) /\ Gap(q, task, byReader)
  BY DEF ReaderInv
<1>3. Idle.step = "idle"
  BY DEF Idle
<1>4. CASE UNCHANGED <<task, lastPunchTime, byReader, clock>>
  BY <1>2, <1>4
<1>5. ASSUME NEW r \in Reader, Return(r), UNCHANGED <<lastPunchTime, byReader, clock>>
      PROVE  Lag(q, task', clock') /\ Last(q, lastPunchTime', byReader', clock')
               /\ Gap(q, task', byReader')
  <2>1. task'[q] = Idle \/ task'[q] = task[q]
    BY <1>5 DEF Return, TypeOK
  <2> QED
    BY <1>2, <1>3, <1>5, <2>1
<1>6. ASSUME NEW r \in Reader, NEW src \in Source, PunchNow(r, src)
      PROVE  Lag(q, task', clock') /\ Last(q, lastPunchTime', byReader', clock')
               /\ Gap(q, task', byReader')
  <2>1. /\ task'[q] = task[q] \/ (task'[q].step = "load" /\ task'[q].now = clock)
        /\ UNCHANGED <<lastPunchTime, byReader, clock>>
    BY <1>6 DEF PunchNow, TypeOK
  <2> QED
    BY <1>0, <1>2, <2>1
<1>7. ASSUME NEW r \in Reader, PunchLoad(r)
      PROVE  Lag(q, task', clock') /\ Last(q, lastPunchTime', byReader', clock')
               /\ Gap(q, task', byReader')
  <2>1. UNCHANGED <<lastPunchTime, byReader, clock>>
    BY <1>7 DEF PunchLoad
  <2>2. CASE IntervalAllows(lastPunchTime, task[r].now, PunchGap) /\ Goto(r, "allow")
    <3>1. CASE q # r
      <4>1. task'[q] = task[q]
        BY <2>2, <3>1 DEF Goto, TypeOK
      <4> QED
        BY <1>2, <2>1, <4>1
    <3>2. CASE q = r
      <4>1. task[q] \in Punch /\ task[q].now \in Nat /\ task[q] # Idle
        BY <1>7, <3>2, Busy DEF PunchLoad
      <4>2. task'[q].now = task[q].now
        BY <2>2, <3>2, <4>1 DEF Goto, TypeOK, Punch
      <4>3. Gap(q, task', byReader')
        <5>1. lastPunchTime \in Nat \cup {Never}
          BY DEF TypeOK
        <5> QED
          BY <1>0, <1>1, <1>2, <2>1, <2>2, <3>2, <4>1, <4>2, <5>1 DEF IntervalAllows
      <4> QED
        BY <1>2, <2>1, <4>1, <4>2, <4>3
    <3> QED
      BY <3>1, <3>2
  <2> QED
    BY <1>5, <1>7, <2>1, <2>2 DEF PunchLoad
<1>8. ASSUME NEW r \in Reader, PunchAllow(r)
      PROVE  Lag(q, task', clock') /\ Last(q, lastPunchTime', byReader', clock')
               /\ Gap(q, task', byReader')
  <2>1. UNCHANGED <<lastPunchTime, byReader, clock>> /\ task[r].step = "allow"
    BY <1>8 DEF PunchAllow
  <2>2. CASE Goto(r, "store")
    <3>1. CASE q # r
      <4>1. task'[q] = task[q]
        BY <2>2, <3>1 DEF Goto, TypeOK
      <4> QED
        BY <1>2, <2>1, <4>1
    <3>2. CASE q = r
      <4>1. task[q] \in Punch /\ task[q] # Idle
        BY <2>1, <3>2, Busy
      <4>2. task'[q].now = task[q].now
        BY <2>2, <3>2, <4>1 DEF Goto, TypeOK, Punch
      <4> QED
        BY <1>2, <2>1, <3>2, <4>1, <4>2
    <3> QED
      BY <3>1, <3>2
  <2> QED
    BY <1>5, <1>8, <2>1, <2>2 DEF PunchAllow
<1>9. ASSUME NEW r \in Reader, PunchStore(r)
      PROVE  Lag(q, task', clock') /\ Last(q, lastPunchTime', byReader', clock')
               /\ Gap(q, task', byReader')
  <2>1. task[r] # Idle /\ task[r].now \in Nat
    BY <1>9, Busy DEF PunchStore
  <2>2. task[r].now <= clock /\ clock <= task[r].now + MaxLag
    BY <2>1 DEF ReaderInv
  <2>3. lastPunchTime' = task[r].now /\ clock' = clock
    BY <1>9 DEF PunchStore
  <2>4. CASE q # r
    <3>1. task'[q] = task[q] /\ byReader'[q] = byReader[q]
      BY <1>9, <2>4 DEF PunchStore, Return, TypeOK
    <3> QED
      BY <1>0, <1>1, <1>2, <2>1, <2>2, <2>3, <3>1 DEF Never
  <2>5. CASE q = r
    <3>1. task'[q] = Idle /\ byReader'[q] = task[r].now
      BY <1>9, <2>5 DEF PunchStore, Return, TypeOK
    <3> QED
      BY <1>0, <1>3, <2>1, <2>2, <2>3, <3>1 DEF Never
  <2> QED
    BY <2>4, <2>5
<1>10. CASE Tick
  <2>1. /\ UNCHANGED <<task, lastPunchTime, byReader>> /\ clock' = clock + 1
        /\ task[q] # Idle => clock - task[q].now < MaxLag
    BY <1>10 DEF Tick
  <2>2. task[q] # Idle => task[q].now \in Nat
    BY Busy
  <2> QED
    BY <1>0, <1>1, <1>2, <2>1, <2>2 DEF Never
<1>11. ASSUME NEW src \in RelaySource, NEW now \in 0 .. clock, RelayAllow(src, now)
       PROVE  UNCHANGED <<task, lastPunchTime, byReader, clock>>
  BY <1>11 DEF RelayAllow
<1>12. ASSUME SweepLimiters
       PROVE  UNCHANGED <<task, lastPunchTime, byReader, clock>>
  BY <1>12 DEF SweepLimiters
<1> HIDE DEF Lag, Last, Gap
<1> QED
  BY <1>4, <1>6, <1>7, <1>8, <1>9, <1>10, <1>11, <1>12 DEF Next, PunchStep, vars

-----------------------------------------------------------------------------
LEMMA InitHolds == Init => TypeOK /\ RelayInv /\ SourceInv /\ ReaderInv
<1> SUFFICES ASSUME Init PROVE TypeOK /\ RelayInv /\ SourceInv /\ ReaderInv
  OBVIOUS
<1>0. Second \in Nat /\ MaxRelays \in Nat /\ MaxRelays >= 1 /\ MaxClock \in Nat
  BY AdmissionAssumption
<1>1. TypeOK
  BY <1>0, SMT DEF Init, TypeOK
<1>2. RelayInv
  <2> SUFFICES ASSUME NEW s \in RelaySource PROVE WindowInv(before[s], relayRL[s], clock)
    BY DEF RelayInv
  <2>1. relayRL[s] = NoWindow /\ clock = 0 /\ \A t \in Time : before[s][t] = 0
    BY DEF Init
  <2>2. 0 \in Time /\ 0 + 1 \in Time
    BY <1>0 DEF Time
  <2> QED
    BY <1>0, <2>1, <2>2 DEF WindowInv
<1>3. SourceInv
  BY DEF Init, SourceInv
<1>4. ReaderInv
  BY DEF Init, ReaderInv, Idle
<1> QED
  BY <1>1, <1>2, <1>3, <1>4

(* Limiters, readers and history keep their types; no window of relayRL     *)
(* counts beyond its budget.                                                *)
THEOREM Typing == Spec => []TypeOK
BY InitHolds, TypeStep, PTL DEF Spec

(* punchRL.allow keeps the requests of a source PunchInterval apart, for    *)
(* any number of readers and wherever the sweep falls.                      *)
THEOREM SourcesSpaced == Spec => SourceSpacing
<1>1. TypeOK /\ SourceInv /\ [Next]_vars =>
        [\A r \in Reader : Admits(r) =>
           IntervalAllows(bySource[task[r].src], clock, PunchInterval)]_vars
  <2> SUFFICES ASSUME TypeOK, SourceInv, Next, NEW r \in Reader, Admits(r)
               PROVE  IntervalAllows(bySource[task[r].src], clock, PunchInterval)
    BY DEF vars
  <2> DEFINE src == task[r].src
  <2>1. PunchAllow(r)
    <3>1. task' # task
      BY DEF Admits
    <3>2. PICK q \in Reader : PunchStep(q)
      BY <3>1 DEF Next, RelayAllow, SweepLimiters, Tick
    <3>3. q = r
      BY <3>2 DEF Admits, TypeOK, PunchStep, PunchNow, PunchLoad, PunchAllow, PunchStore,
                  Goto, Return
    <3>4. task[r].step # "idle" /\ task[r].step # "load" /\ task[r].step # "store"
      BY DEF Admits
    <3> QED
      BY <3>2, <3>3, <3>4 DEF PunchStep, PunchNow, PunchLoad, PunchStore, Idle
  <2>2. task[r] \in Punch
    BY DEF Admits, TypeOK, Idle
  <2>3. src \in Source
    BY <2>2 DEF Punch
  <2>4. IntervalAllows(punchRL[src], clock, PunchInterval)
    BY <2>1 DEF Admits, PunchAllow, TypeOK, Return, Idle
  <2> QED
    BY <2>3, <2>4 DEF SourceInv, IntervalAllows
<1> QED
  BY <1>1, InitHolds, TypeStep, SourceStep, PTL DEF Spec, SourceSpacing

(* The load, the compare and the late store of handlePunchRequest's global  *)
(* cap keep what one reader admits PunchGap - MaxLag apart, whatever the    *)
(* other readers store.                                                     *)
THEOREM ReadersSpaced == Spec => ReaderSpacing
<1>1. TypeOK /\ ReaderInv /\ [Next]_vars =>
        [\A r \in Reader : task[r] # Idle /\ task[r].step = "store" /\ task'[r] = Idle =>
           IntervalAllows(byReader[r], task[r].now, PunchGap - MaxLag)]_vars
  BY DEF ReaderInv, IntervalAllows
<1> QED
  BY <1>1, InitHolds, TypeStep, ReaderStep, PTL DEF Spec, ReaderSpacing

(* relayRL lets fewer than twice its budget through in any time of one      *)
(* window's length, for any budget and length.                              *)
THEOREM Budget == Spec => []RelayBudget
<1>1. RelayInv => RelayBudget
  BY DEF RelayInv, WindowInv, RelayBudget
<1> QED
  BY <1>1, InitHolds, TypeStep, RelayStep, PTL DEF Spec
=============================================================================
