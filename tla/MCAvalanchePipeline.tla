------------------------ MODULE MCAvalanchePipeline ------------------------
(* Model-checking instance of AvalanchePipeline: see MCAvalanchePipeline.cfg. *)
EXTENDS AvalanchePipeline
=============================================================================
