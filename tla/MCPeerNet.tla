----------------------------- MODULE MCPeerNet -----------------------------
EXTENDS PeerNet, TLC

CONSTANTS e1, e2, n1, n2

\* A node per endpoint.
NodesByEndpoint == e1 :> n1 @@ e2 :> n2

\* Requests of either node, one that does not verify, and one of the node itself.
SomeRequests == {<<3, n1, TRUE>>, <<3, n2, TRUE>>, <<4, n1, FALSE>>, <<4, Self, TRUE>>}

\* The node at e1 names e2, alone or as one of several nodes.
SomeLists == {<<1, e2, TRUE>>, <<2, e2, FALSE>>}

\* Two outbound connections, two inbound ones, one of each.
Pairs == {{1, 2}, {3, 4}, {1, 3}}
=============================================================================
