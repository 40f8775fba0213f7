-------------------------- MODULE MCEmbeddingModel --------------------------
(* Instances of EmbeddingModel.tla for TLC. *)
EXTENDS EmbeddingModel
=============================================================================
