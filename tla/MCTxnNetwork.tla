---------------------------- MODULE MCTxnNetwork ----------------------------
(***************************************************************************)
(* Three nodes joined in a cycle.  Clients give x to p and to q, and y to  *)
(* r.                                                                      *)
(***************************************************************************)
EXTENDS TxnNetwork, TLC

CONSTANTS p, q, r, x, y

MCNodes == {p, q, r}
MCPipes == {<<p, q>>, <<q, r>>, <<r, p>>}
MCTxns == {x, y}
MCClients == x :> {p, q} @@ y :> {r}
MCPatterns == {"gossip", "broadcast", "passthrough"}
=============================================================================
