----------------------------- MODULE Ingestion ------------------------------
(***************************************************************************)
(* POST /documents: create_document (app/api/v1/documents.py) calling      *)
(* ingest_document (app/services/ingestion.py) in the session of get_db.   *)
(* The hash is looked up, the document inserted, its content chunked and   *)
(* embedded, and the chunks inserted, in one transaction that commits      *)
(* after the answer.  The unique index on content_hash makes a second      *)
(* INSERT of the same content wait for the first one's transaction.        *)
(***************************************************************************)
EXTENDS Naturals

CONSTANTS Req,         \* uploads
          Contents,    \* what is uploaded, by hash_content
          ChunkCount,  \* how many chunks chunk_text makes of each content
          None         \* nobody, nothing

ASSUME ChunkCountAssumption == ChunkCount \in [Contents -> Nat]
ASSUME NoneAssumption == None \notin Req /\ None # "ready"

VARIABLES docs,     \* table documents, committed: the status per content
          rows,     \* table document_chunks, committed: rows per content
          claim,    \* the open transaction that inserted the content
          pc,       \* how far each upload is
          content,  \* what it uploads
          draft     \* status and chunks of the document in its transaction

vars == <<docs, rows, claim, pc, content, draft>>

\* Mutant of NoDraft: the wrong status.
NoDraftPending == [status |-> "pending", chunks |-> 0]

\* The document as it is first inserted.
NoDraft == [status |-> "processing", chunks |-> 0]

InFlight == {"missing", "inserted", "embedding", "flushed", "answered", "erring",
             "refused"}
Ended == {"found", "done", "failed", "dropped"}

Init == /\ docs = [c \in Contents |-> None]
        /\ rows = [c \in Contents |-> 0]
        /\ claim = [c \in Contents |-> None]
        /\ pc = [r \in Req |-> "new"]
        /\ content \in [Req -> Contents]
        /\ draft = [r \in Req |-> NoDraft]

Goto(r, label) == pc' = [pc EXCEPT ![r] = label]

-----------------------------------------------------------------------------
(* ingest_document.                                                        *)

\* SELECT by content_hash: what is there is returned and nothing written.
Lookup(r) ==
  /\ pc[r] = "new"
  /\ IF docs[content[r]] # None THEN Goto(r, "found") ELSE Goto(r, "missing")
  /\ UNCHANGED <<docs, rows, claim, content, draft>>

\* Mutant of Insert: no unique index on content_hash.
InsertUnindexed(r) ==
  /\ pc[r] = "missing"
  /\ claim' = [claim EXCEPT ![content[r]] = r]
  /\ Goto(r, "inserted")
  /\ UNCHANGED <<docs, rows, content, draft>>

\* The first flush inserts the document as PROCESSING; it waits for another
\* transaction with the hash and, if that one committed, raises the
\* IntegrityError that nothing catches.
Insert(r) ==
  /\ pc[r] = "missing"
  /\ claim[content[r]] = None
  /\ IF docs[content[r]] = None
       THEN claim' = [claim EXCEPT ![content[r]] = r] /\ Goto(r, "inserted")
       ELSE UNCHANGED claim /\ Goto(r, "refused")
  /\ UNCHANGED <<docs, rows, content, draft>>

\* chunk_text; a content without chunks sets the document FAILED, in an UPDATE
\* that is flushed and not refreshed.
Chunk(r) ==
  /\ pc[r] = "inserted"
  /\ IF ChunkCount[content[r]] = 0
       THEN /\ draft' = [draft EXCEPT ![r].status = "failed"]
            /\ Goto(r, "flushed")
       ELSE UNCHANGED draft /\ Goto(r, "embedding")
  /\ UNCHANGED <<docs, rows, claim, content>>

\* embed_texts returns one vector per chunk (anything else is an Error), and
\* the last flush inserts the chunks and sets the document READY.
Embed(r) ==
  /\ pc[r] = "embedding"
  /\ draft' = [draft EXCEPT ![r] = [status |-> "ready",
                                    chunks |-> ChunkCount[content[r]]]]
  /\ Goto(r, "flushed")
  /\ UNCHANGED <<docs, rows, claim, content>>

\* A flush, the embedding or its length check raises.
Error(r) ==
  /\ pc[r] \in {"missing", "inserted", "embedding"}
  /\ Goto(r, "erring")
  /\ UNCHANGED <<docs, rows, claim, content, draft>>

-----------------------------------------------------------------------------
(* get_db.                                                                 *)

\* Mutant of Released: the session is never closed.
ReleasedNever(r) == claim

\* The claims once the transaction of r is over.
Released(r) == [c \in Contents |-> IF claim[c] = r THEN None ELSE claim[c]]

\* The document is sent, with a 201.  A FAILED one cannot be: its updated_at
\* (onupdate) is expired by the flush, and serialising DocumentRead raises on
\* the attempt to load it.
Respond(r) ==
  /\ pc[r] = "flushed"
  /\ Goto(r, IF draft[r].status = "failed" THEN "erring" ELSE "answered")
  /\ UNCHANGED <<docs, rows, claim, content, draft>>

\* Mutant of Commit: the chunks are left for a later transaction.
CommitDocumentOnly(r) ==
  /\ pc[r] = "answered"
  /\ docs' = [docs EXCEPT ![content[r]] = draft[r].status]
  /\ claim' = Released(r)
  /\ Goto(r, "done")
  /\ UNCHANGED <<rows, content, draft>>

Commit(r) ==
  /\ pc[r] = "answered"
  /\ docs' = [docs EXCEPT ![content[r]] = draft[r].status]
  /\ rows' = [rows EXCEPT ![content[r]] = @ + draft[r].chunks]
  /\ claim' = Released(r)
  /\ Goto(r, "done")
  /\ UNCHANGED <<content, draft>>

\* The exception leaves the handler: rollback, 500.
Rollback(r) ==
  /\ pc[r] \in {"erring", "refused"}
  /\ claim' = Released(r)
  /\ Goto(r, "failed")
  /\ UNCHANGED <<docs, rows, content, draft>>

\* The COMMIT fails or the worker dies.
Abort(r) ==
  /\ pc[r] \in InFlight
  /\ claim' = Released(r)
  /\ Goto(r, IF pc[r] = "answered" THEN "dropped" ELSE "failed")
  /\ UNCHANGED <<docs, rows, content, draft>>

Step(r) == \/ Insert(r) \/ Chunk(r) \/ Embed(r)
           \/ Respond(r) \/ Commit(r) \/ Rollback(r)

Next == \E r \in Req : Lookup(r) \/ Step(r) \/ Error(r) \/ Abort(r)

Spec == Init /\ [][Next]_vars

-----------------------------------------------------------------------------
(* Properties.                                                             *)

\* The variables have their types.
TypeOK ==
  /\ docs \in [Contents -> {None, "ready"}]
  /\ rows \in [Contents -> Nat]
  /\ claim \in [Contents -> Req \cup {None}]
  /\ pc \in [Req -> {"new"} \cup InFlight \cup Ended]
  /\ content \in [Req -> Contents]
  /\ draft \in [Req -> [status : {"processing", "ready", "failed"}, chunks : Nat]]

\* A document that can be seen has every chunk there is of its content, and
\* there is no chunk without one: nothing is half ingested, whoever failed when.
ReadyHasAllChunks ==
  \A c \in Contents :
    /\ docs[c] # None => rows[c] = ChunkCount[c] /\ rows[c] > 0
    /\ docs[c] = None => rows[c] = 0

\* A content is stored once, whole and for good, whatever uploads race.
Store == INSTANCE ContentStore WITH docs <- docs, rows <- rows,
           Contents <- Contents, ChunkCount <- ChunkCount, None <- None
StoreSpec == Store!Spec

\* ingestion.py:5 and 39: if a document with the content_hash exists already
\* it is returned: an upload is not failed because the content is there.
DuplicatesServed == \A r \in Req : pc[r] # "refused"

\* models/document.py:17: a document is FAILED if its ingestion failed, with
\* the details: an upload that sets it FAILED is not itself rolled back.
FailuresKept == \A r \in Req : draft[r].status = "failed" => pc[r] # "erring"
=============================================================================
