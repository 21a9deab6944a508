------------------------ MODULE MCChainReplication ------------------------
(***************************************************************************)
(* Three replicas; four transactions of two sizes make two blocks of size  *)
(* at least 2, one of them oversized, and leave a rest that fills no block.*)
(***************************************************************************)
EXTENDS ChainReplication

MCSize == <<1, 2, 2, 1>>
=============================================================================
