---------------------------- MODULE MCBitcoinNode ----------------------------
(***************************************************************************)
(* A grant g to A; s1 and s2 both spend it.  Peers have a chain of three   *)
(* blocks and a block q2 that spends g twice.  The node itself proposes up *)
(* to two blocks, so that it may lose a chain of two to the peers' chain.  *)
(***************************************************************************)
EXTENDS BitcoinNode

CONSTANTS g, s1, s2, p1, p2, p3, q2, o1, o2

Send(inputs, sender, receiver) ==
    [inputs |-> inputs, sender |-> sender, outputs |-> {receiver},
     owners |-> {sender, receiver}, balanced |-> TRUE, script_succeed |-> TRUE]

MCTxn ==
    g :> [Send({}, "none", "A") EXCEPT !.owners = {"A"}]
    @@ s1 :> Send({g}, "A", "B")
    @@ s2 :> Send({g}, "A", "C")

MCPeerBlocks ==
    p1 :> [prev |-> Zero, txns |-> <<g>>]
    @@ p2 :> [prev |-> p1, txns |-> <<s1>>]
    @@ p3 :> [prev |-> p2, txns |-> <<>>]
    @@ q2 :> [prev |-> p1, txns |-> <<s2, s1>>]

MCOwnIds == <<o1, o2>>
=============================================================================
