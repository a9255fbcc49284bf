------------------------------ MODULE MCGossip ------------------------------
EXTENDS Gossip

CONSTANTS a, b

Pair == [x \in Beacon |-> Beacon \ {x}]
OnePort == {<<a, 1>>, <<b, 1>>}
TwoPorts == {<<a, 1>>, <<b, 1>>, <<b, 2>>}
OnlyA == {a}
None == {}
OneNode == {1}
TwoNodes == {1, 2}
=============================================================================
