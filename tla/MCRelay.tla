------------------------------ MODULE MCRelay -------------------------------
(* Two destinations on one of two workers: one registers here and connects  *)
(* over WSS, the other is known from a peer beacon's gossip.                *)
EXTENDS RelayFlow

OneWorkerNodes == {0, 2}
Zero == {0}
Two == {2}
None == {}
=============================================================================
