----------------------------- MODULE RateLimit ------------------------------
(***************************************************************************)
(* The beacon's per-packet rate limiters (ratelimit_shard.go) as operators *)
(* on their maps.  A limiter is a map from a key (node id, source address) *)
(* to the time of the last allowed event.  The code splits every map in    *)
(* 256 shards with a mutex each; a key lives in one shard and every        *)
(* operation below touches one key or each key independently, so the       *)
(* shards change which operations wait for each other and nothing else.    *)
(*                                                                         *)
(* A map is a total function; a key that is absent holds Never.            *)
(***************************************************************************)
EXTENDS Integers

Never == -1

(* discoverRateLimiter.allow, punchRateLimiter.allow: is an event at now    *)
(* permitted when the last permitted one was at last?                       *)
IntervalAllows(last, now, minInterval) ==
  last = Never \/ now - last >= minInterval

(* sweep: forget every key whose last event is strictly before cutoff.      *)
SweepInterval(m, cutoff) ==
  [k \in DOMAIN m |-> IF m[k] < cutoff THEN Never ELSE m[k]]

-----------------------------------------------------------------------------
(* relayRateLimiter: a source has a window, its start and the number of     *)
(* relays it let through, or none.                                          *)

NoWindow == [windowStart |-> Never, count |-> 0]

Window(max) == [windowStart : Nat, count : 1 .. max]

WindowOver(w, now, length) == w = NoWindow \/ now - w.windowStart >= length

(* A mutant: one relay more than the budget.                                *)
WindowAllowsOver(w, now, length, max) == WindowOver(w, now, length) \/ w.count <= max

(* allow, its verdict and the window it leaves behind: the first relay      *)
(* after the window's end starts a new one.                                 *)
WindowAllows(w, now, length, max) == WindowOver(w, now, length) \/ w.count < max

(* A mutant: a window that is over counts from one and keeps its old start. *)
WindowAfterKeepsStart(w, now, length) ==
  IF w = NoWindow THEN [windowStart |-> now, count |-> 1]
  ELSE IF WindowOver(w, now, length) THEN [w EXCEPT !.count = 1]
  ELSE [w EXCEPT !.count = @ + 1]

WindowAfter(w, now, length) ==
  IF WindowOver(w, now, length)
  THEN [windowStart |-> now, count |-> 1]
  ELSE [w EXCEPT !.count = @ + 1]

(* sweep: forget every window that began strictly before cutoff.            *)
SweepWindows(m, cutoff) ==
  [k \in DOMAIN m |-> IF m[k].windowStart < cutoff THEN NoWindow ELSE m[k]]
=============================================================================
