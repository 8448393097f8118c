--------------------------- MODULE MCPanelServer ----------------------------
(* Small instances of PanelServer.                                         *)
EXTENDS PanelServer, TLC

CONSTANTS n1, n2, b1, b2

Item(n, bytes) == [node |-> n, user |-> 1, bytes |-> bytes]

(* b1 is valid for an agent that has both nodes, b2 never.                 *)
GoodAndBad == (b1 :> {Item(n1, 1), Item(n2, 2)}) @@ (b2 :> {Item(n1, -1)})

OneItem == b1 :> {Item(n1, 1)}

=============================================================================
