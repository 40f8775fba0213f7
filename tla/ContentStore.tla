---------------------------- MODULE ContentStore ----------------------------
(***************************************************************************)
(* What document ingestion promises: a content is stored once, whole, and  *)
(* for good.  Nobody ever sees a document that is half ingested, and every *)
(* later upload of the same content finds the same document (DECISIONS.md  *)
(* D031 and D032).                                                         *)
(***************************************************************************)
EXTENDS Naturals

CONSTANTS Contents,    \* what is uploaded, by hash
          ChunkCount,  \* how many chunks each content has
          None         \* nothing stored

VARIABLES docs,  \* the status of the document of each content
          rows   \* how many chunks of each are stored

Init == /\ docs = [c \in Contents |-> None]
        /\ rows = [c \in Contents |-> 0]

\* All of content c becomes visible at once, if there is anything in it.
Put(c) ==
  /\ docs[c] = None
  /\ ChunkCount[c] > 0
  /\ docs' = [docs EXCEPT ![c] = "ready"]
  /\ rows' = [rows EXCEPT ![c] = ChunkCount[c]]

Next == \E c \in Contents : Put(c)

Spec == Init /\ [][Next]_<<docs, rows>>
=============================================================================
