------------------------------ MODULE Flatten ------------------------------
(***************************************************************************)
(* The concatenation of a sequence of sequences, as in SequencesExt: that  *)
(* module also brings in Bags with all its theorems, which the prover then *)
(* carries through every step.                                             *)
(***************************************************************************)
EXTENDS Integers, Sequences

FlattenSeq(seqs) ==
    LET upto[i \in 0 .. Len(seqs)] == IF i = 0 THEN <<>> ELSE upto[i - 1] \o seqs[i]
    IN  upto[Len(seqs)]
=============================================================================
