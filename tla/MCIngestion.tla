---------------------------- MODULE MCIngestion -----------------------------
(* Instances of Ingestion.tla for TLC. *)
EXTENDS Ingestion, TLC

CONSTANTS blank, spec

\* One content without chunks, one with two.
MCChunkCount == blank :> 0 @@ spec :> 2
=============================================================================
