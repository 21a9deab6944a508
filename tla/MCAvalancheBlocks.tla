------------------------- MODULE MCAvalancheBlocks -------------------------
(***************************************************************************)
(* A grant g, s that spends it, e that spends outputs of both, and w,      *)
(* which is incorrect, with its child x.  Peers propose e, and x with s:   *)
(* of the latter the node may have to ask for w and g, and then, on        *)
(* meeting w first, for g once more.                                       *)
(***************************************************************************)
EXTENDS AvalancheBlockManagement

CONSTANTS g, s, e, w, x, p1, p2

MCTxns == {g, s, e, w, x}
MCInUtxo == g :> <<>> @@ s :> <<g>> @@ e :> <<g, s>> @@ w :> <<g>> @@ x :> <<w>>
MCCorrect == MCTxns \ {w}
MCPeerBlocks == p1 :> <<e>> @@ p2 :> <<x, s>>
=============================================================================
