----------------------------- MODULE MCChunking -----------------------------
(* Instances of Chunking.tla for TLC. *)
EXTENDS Chunking

CONSTANT MaxLen  \* bound on the length of the texts

MCTexts == UNION {[1..n -> Chars] : n \in 0..MaxLen}
=============================================================================
