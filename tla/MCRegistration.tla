--------------------------- MODULE MCRegistration ---------------------------
(* Two ids that share a shard with room for one, next to a shard that stays *)
(* empty: capacity, refusal and reaping all happen.  One daemon keeps its   *)
(* heartbeat and sends DiscoverEx, the other comes and goes with a key.     *)
EXTENDS Registration

MCNodeId == {0, 2}
MCLive == {0}
MCKeyed == {2}
=============================================================================
