---------------------------- MODULE MCWssServer -----------------------------
EXTENDS WssServer

\* one node that reconnects
OneNode == [c \in Conn |-> 1]
=============================================================================
