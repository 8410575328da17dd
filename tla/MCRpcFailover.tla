--------------------------- MODULE MCRpcFailover ---------------------------
EXTENDS RpcFailover, TLC

CONSTANTS p1, p2

\* Peers: how they do decides between them, so that either may come first.
Peers == p1 :> 1 @@ p2 :> 1
=============================================================================
