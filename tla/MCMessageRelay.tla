--------------------------- MODULE MCMessageRelay ---------------------------
(***************************************************************************)
(* Four nodes in a ring, or a triangle with the target beyond; a command   *)
(* or a listing, whose path is validated.                                  *)
(***************************************************************************)
EXTENDS MessageRelay

CONSTANTS n1, n2, n3, n4, start, list

Clients == [r \in Requests |-> n1]
Targets == [r \in Requests |-> n3]
Shapes == {{{n1, n2}, {n2, n3}, {n3, n4}, {n1, n4}},
           {{n1, n2}, {n2, n4}, {n1, n4}, {n4, n3}}}
=============================================================================
