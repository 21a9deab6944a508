------------------------- MODULE MCAvalancheDecide -------------------------
(***************************************************************************)
(* One grant g with outputs for two accounts; s1 and s2 spend the same     *)
(* output of g, c spends s1's and e both c's and g's other output, so e    *)
(* has a decided and an undecided parent.  A peer may ask about c before   *)
(* its parent is known here, and about s2, with something invalid between. *)
(*                                                                         *)
(* For Blizzard, h spends s2's output and d spends h's, so that three      *)
(* polls can add to the confidence of s2 after s1 was accepted with one.   *)
(***************************************************************************)
EXTENDS AvalancheDecide, TLC

CONSTANTS g, s1, s2, c, e, h, d, A, B

MCTxns == {g, s1, s2, c, e, h, d}
MCInUtxo ==
    g :> <<>> @@ s1 :> <<g>> @@ s2 :> <<g>> @@ c :> <<s1>> @@ e :> <<c, g>> @@ h :> <<s2>> @@ d :> <<h>>
MCSender == [t \in MCTxns |-> IF t = e THEN B ELSE A]
MCOwnBatches == <<<<g>>, <<s1, s2>>, <<c>>, <<e>>>>
MCPeerBatches == <<<<c, PlaceHolder, s2>>>>
MCBlizzardOwnBatches == <<<<g, s1>>, <<s2>>, <<h>>, <<d>>>>
MCBlizzardPeerBatches == <<<<s2, PlaceHolder>>>>
=============================================================================
