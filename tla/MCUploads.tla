----------------------------- MODULE MCUploads ------------------------------
(* Instances of Uploads.tla for TLC. *)
EXTENDS Uploads, TLC

CONSTANTS blank, spec, manual, r1, r2, r3

\* A content without chunks and two with some: only uploads of different
\* contents can be embedding at the same time.
MCChunkCount == blank :> 0 @@ manual :> 1 @@ spec :> 2

\* The uploads are interchangeable: it is enough to look at the contents in
\* one order.
InOrder == /\ ChunkCount[content[r1]] <= ChunkCount[content[r2]]
           /\ ChunkCount[content[r2]] <= ChunkCount[content[r3]]

MCInit == UploadInit /\ InOrder

MCSpec == MCInit /\ [][UploadNext]_uploadVars /\ UploadFairness
=============================================================================
