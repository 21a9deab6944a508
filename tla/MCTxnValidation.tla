-------------------------- MODULE MCTxnValidation --------------------------
(***************************************************************************)
(* A grant g, c that spends it, and d that spends outputs of both.  c      *)
(* comes twice, and a block of a peer may bring it as well.  Two cores and *)
(* a pipe of one batch, so that three tasks can get in the stage's way.    *)
(***************************************************************************)
EXTENDS TxnValidation, TLC

CONSTANTS g, c, d

MCTxns == {g, c, d}
MCInUtxo == g :> {} @@ c :> {g} @@ d :> {g, c}
MCBlockTxns == {c}
MCTasks == 1 .. 3
MCMaxCopies == [t \in MCTxns |-> IF t = c THEN 2 ELSE 1]
=============================================================================
