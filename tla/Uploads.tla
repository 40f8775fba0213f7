------------------------------ MODULE Uploads -------------------------------
(***************************************************************************)
(* The uploads of one process of the service: ingest_document (Ingestion)  *)
(* with the embedding model that all uploads share (EmbeddingModel), the   *)
(* connections of the engine (app/db.py), which an upload keeps while it   *)
(* waits for the model or for another upload's transaction, and the death  *)
(* of the process, which takes all of them with it.                        *)
(***************************************************************************)
EXTENDS Ingestion, FiniteSets, Sequences

CONSTANT PoolSize  \* connections of the engine (pool_size and max_overflow)

ASSUME PoolAssumption == PoolSize \in Nat \ {0}

VARIABLES model,  \* the model of the process
          queue,  \* its lock
          task,   \* how far each upload is with the model
          used,   \* the model it embeds with
          dead    \* uploads of a process that died

M == INSTANCE EmbeddingModel WITH Task <- Req, pc <- task, model <- model,
                                  queue <- queue, used <- used

embedding == <<model, queue, task, used>>
uploadVars == <<vars, embedding, dead>>

UploadInit == Init /\ M!Init /\ dead = {}

\* The uploads that have a connection.
Connected == {r \in Req : pc[r] \in InFlight}

\* An upload gets a connection with its first query.  One that waits for it
\* too long (pool_timeout) is answered with a 500 and may come again.
Arrive(r) == /\ Cardinality(Connected) < PoolSize
             /\ Lookup(r)
             /\ UNCHANGED <<embedding, dead>>

\* What an upload does with the database alone, or between two awaits.
Proceed(r) == /\ r \notin dead
              /\ \/ Insert(r) \/ Chunk(r) \/ Respond(r) \/ Commit(r) \/ Rollback(r)
              /\ UNCHANGED <<embedding, dead>>

\* A flush raises.
Raise(r) == /\ r \notin dead /\ pc[r] # "embedding"
            /\ Error(r)
            /\ UNCHANGED <<embedding, dead>>

\* embed_texts calls get_embedding_model.
Ask(r) == /\ r \notin dead /\ pc[r] = "embedding"
          /\ M!Call(r)
          /\ UNCHANGED <<vars, dead>>

\* get_embedding_model waits for the lock and loads.
GetModel(r) == /\ M!Recheck(r) \/ M!Loaded(r) \/ M!LoadFails(r)
               /\ UNCHANGED <<vars, dead>>

\* The vectors are there and the chunks are flushed; or the model, the
\* encoding or the flush raises, as it does for vectors that are not of the
\* dimension of the column.
Encode(r) == /\ M!Encoded(r)
             /\ \/ task[r] = "encoding" /\ used[r] = "good" /\ Embed(r)
                \/ Error(r)
             /\ UNCHANGED dead

\* The connection is lost or the COMMIT fails.
Disconnect(r) == /\ r \notin dead /\ pc[r] # "embedding"
                 /\ Abort(r)
                 /\ UNCHANGED <<embedding, dead>>

\* The process dies and another one takes its place.
Restart == /\ M!Restart
           /\ dead' = dead \cup Connected
           /\ UNCHANGED vars

\* PostgreSQL notices it, and rolls back one transaction after the other.
Cleanup(r) == r \in dead /\ Abort(r) /\ UNCHANGED <<embedding, dead>>

UploadStep(r) == \/ Arrive(r) \/ Proceed(r) \/ Ask(r) \/ GetModel(r)
                 \/ Encode(r) \/ Cleanup(r)

UploadNext == \/ \E r \in Req : UploadStep(r) \/ Raise(r) \/ Disconnect(r)
              \/ Restart

\* Every client sends its upload, and the event loop and PostgreSQL go on.
UploadFairness == \A r \in Req : WF_uploadVars(UploadStep(r))

UploadSpec == UploadInit /\ [][UploadNext]_uploadVars

FairUploadSpec == UploadSpec /\ UploadFairness

-----------------------------------------------------------------------------
(* Properties.                                                             *)

\* The variables have their types, those of the model too, and the model has
\* only callers that are embedding.
UploadTypeOK ==
  /\ TypeOK /\ M!TypeOK
  /\ dead \subseteq Req
  /\ \A r \in Req : task[r] # "idle" => pc[r] = "embedding" /\ r \notin dead

\* The uploads share one model, which one of them loads.
LoadedOnce == M!LoadedOnce

\* Every upload is served or fails, though they wait for connections, for each
\* other's transactions and for the model, each holding what it has.
EveryUploadServed == \A r \in Req : <>(pc[r] \in Ended)
=============================================================================
