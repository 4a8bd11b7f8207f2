--------------------------- MODULE MCVxlanManager ---------------------------
EXTENDS VxlanManager

CONSTANTS n1, n2, n3, t1, t2, w1, w2

\* One wallet rents all the nodes.
OneWallet == [n \in Nodes |-> w1]
=============================================================================
