----------------------------- MODULE MCFlowGen -----------------------------
(***************************************************************************)
(* Two clients, each with a node of its own.                               *)
(***************************************************************************)
EXTENDS FlowGen

MCChains == {"Bitcoin", "Avalanche", "ChainReplication"}
MCMaxSingles == [ch \in MCChains |-> IF ch = "Avalanche" THEN 1 ELSE 3]
=============================================================================
